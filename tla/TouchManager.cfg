SPECIFICATION FairSpec
CONSTANTS
  Elec = {0, 1}
  MaxChange = 4
  MaxError = 1
INVARIANTS
  Attended
  Settled
PROPERTIES
  ComesToRest
CHECK_DEADLOCK FALSE
