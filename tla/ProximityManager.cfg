SPECIFICATION FairSpec
CONSTANTS
  Distance = {0, 2, 3, 4}
  MaxRange = 4
  MaxDist = 2
  ApproachDist = 1
  GoAwayDist = 1
  FiltCount = 2
  FiltRange = 2
  InvEvents = TRUE
  ErrEvents = TRUE
  MaxCmd = 3
  MaxTrig = 4
INVARIANTS
  TypeOK
  Deadline
  Driven
  Honest
PROPERTIES
  Filtered
  Published
CHECK_DEADLOCK FALSE
