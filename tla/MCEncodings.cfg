SPECIFICATION Spec
CONSTANT MAX_DATA_LENGTH = 5
INVARIANTS
  BlocksParseBack
  ValuesSurvive
  ClientsAgree
  DescriptionIsWhole
  ErrorsAreTold
  NamedInOrder
  ConnStringsMean
CHECK_DEADLOCK FALSE
