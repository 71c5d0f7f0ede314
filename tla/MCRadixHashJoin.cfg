\* Three columns that ask for 0, 1 and 1 bits; intermediates that ask for 2 or
\* are empty.
CONSTANTS
  c1 = c1
  c2 = c2
  c3 = c3
  Columns = {c1, c2, c3}
  Rows <- MCRows
  Inters = {i1, i2}
  InterSizes = {0, 7}
  CacheSize = 32
  None = None
SYMMETRY InterSymmetry
SPECIFICATION Spec
INVARIANTS TypeOK CachesTruthful OneIndexPerColumn
  JoinsItsOperands SameRadix CachedStaysAllocated
