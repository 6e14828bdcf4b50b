CONSTANTS
  Batch = 2
  MaxLazy = 2
  MaxOwed = 2
  MaxRounds = 2
SPECIFICATION Spec
INVARIANT AnswersOwn
INVARIANT IdleOwesOnlyLazy
INVARIANT WaitsOnlyForOwed
PROPERTY CallsReturn
