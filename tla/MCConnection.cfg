CONSTANTS
  Works = {w1, w2, w3}
  TrHandles = {t1, t2, t3}
  Confs = {wait, noWait}
  DefConf = wait
  NoTr = NoTr
SPECIFICATION Spec
CHECK_DEADLOCK FALSE
SYMMETRY Symmetry
INVARIANT OpenWorkIsHeld
INVARIANT NoTransactionLeaks
INVARIANT DefaultIsClean
INVARIANT HandlesAreLive
PROPERTY ImplementsUnitsOfWork
