SPECIFICATION FairSpec
CONSTANTS
  Elec = {0}
  MaxChange = 3
  MaxError = 0
PROPERTIES
  ReleaseNotified
CHECK_DEADLOCK FALSE
