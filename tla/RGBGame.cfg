SPECIFICATION FairSpec
CONSTANTS
  QueueSize = 16
  LastPoint = 2
  InfiniteCycles = 1000000
  Forever = Forever
  MaxTouch = 3
  None = None
INVARIANTS
  TypeOK
  LedsStarted
PROPERTIES
  MachineSpec
  EffectTakenUp
  GameEnds
  ConfigEnds
  WaitGoesDark
