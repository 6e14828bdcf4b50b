SPECIFICATION ServicesSpec
CONSTANTS
  MaxActions = 3
  Lines = 3
  Room = 2
INVARIANTS
  HandleIsReleasedOnce
PROPERTIES
  OkMeansOver
  CallsReturn
CHECK_DEADLOCK FALSE
