SPECIFICATION Spec
CONSTANTS
  Blocks = {b1, b2, b3}
  Unrecorded = 1
  NilBlock = 0
  Inodes = {i1, i2}
  Word = 8
  MaxCrashes = 1
  SbBehindGd = TRUE
SYMMETRY Interchangeable
INVARIANTS
  Ownership
  CounterDrift
PROPERTIES
  ReuseOnlyAfterTornTruncate
  TablesKept
