CONSTANTS
  Sqls = {q1, q2, q3}
  Selects = {q1}
  Handles = {h1, h2, h3, h4}
  Capacity = 1
  NoSql = NoSql
SPECIFICATION Spec
SYMMETRY Symmetry
PROPERTY EvictionCloses
