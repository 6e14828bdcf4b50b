SPECIFICATION Spec
CONSTANTS
  N = 23
  G = 5
  K = 3
  MaxHash = 5
  Secrets = {6, 9}
  ServerSecrets = {3, 4, 5, 8}
  MaxRequests = 2
INVARIANTS
  RightPasswordIsAccepted
  StreamsAreInStep
PROPERTY CallsReturn
CHECK_DEADLOCK FALSE
