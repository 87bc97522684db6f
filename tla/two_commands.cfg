SPECIFICATION Spec
CONSTANTS
  Processes = {p1, p2}
  Names = {"f", "g", "h"}
  Targets = {"f", "g"}
  Blocks = {1, 2, 3}
  Inodes = {1, 2, 3, 4}
  Slots = {0, 1, 2, 3}
  MaxStarts <- TwiceFOnceG
SYMMETRY Interchangeable
INVARIANTS
  BystandersSafe
  OneWriterOwns
CHECK_DEADLOCK FALSE
