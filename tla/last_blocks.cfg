SPECIFICATION Spec
CONSTANTS
  NBlocks = 7
  NBits = 6
  ReadClear = {7}
  MaxInodes = 5
  NDirect = 2
  Width = 3
  Stem <- McStem
  SbBehindGd = TRUE
  Uids = {0}
  MkdirPaths <- Nothing
  CreatePaths <- Nothing
  DeletePaths <- Nothing
  LookPaths <- Nothing
  WriteArgs <- TwoWrites
  CopyArgs <- Nothing
  ChmodArgs <- Nothing
  UnsetParent = 0
  MaxCuts = 0
INVARIANTS
  ReadsBack
