CONSTANTS
  Sqls = {q1, q2, q3}
  Selects = {q1}
  Handles = {h1, h2, h3, h4}
  Capacity = 2
  NoSql = NoSql
SPECIFICATION Spec
SYMMETRY Symmetry
INVARIANT TypeOK
INVARIANT TakeNeverPanics
INVARIANT HandlesLive
INVARIANT HeldOnce
INVARIANT CachedCursorsClosed
PROPERTY OnlyEvictionForgets
