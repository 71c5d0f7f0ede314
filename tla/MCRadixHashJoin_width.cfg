\* Two intermediates without rows are joined.
CONSTANTS
  c1 = c1
  c2 = c2
  c3 = c3
  Columns = {c1, c2, c3}
  Rows <- MCRows
  Inters = {i1, i2}
  InterSizes = {0, 7}
  CacheSize = 32
  None = None
SPECIFICATION Spec
INVARIANT HashWidthChosen
