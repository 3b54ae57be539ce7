SPECIFICATION FairSpec
CONSTANTS
  State <- MCState
  StInit = "Init"
  UserEvent <- MCEvents
  Moves <- MCMoves
  QueueSize = 4
  None = None
INVARIANTS
  TypeOK
  TransitionDriven
  TimedWhenSettled
  ReadyAfterEntry
PROPERTY TransitionCompletes
