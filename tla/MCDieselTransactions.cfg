CONSTANTS
  Works = {w1, w2, w3, w4}
  InError = InError
  MaxDepth = 4
SPECIFICATION Spec
SYMMETRY Symmetry
INVARIANT DepthIsReal
PROPERTY ImplementsNestedTransactions
