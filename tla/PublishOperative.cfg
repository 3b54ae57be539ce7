SPECIFICATION Spec
CONSTANTS
  Caller = {c1, c2}
  QueueSize = 2
  MaxCmd = 3
  MaxFault = 3
  None = None
INVARIANTS
  PublishOperative
