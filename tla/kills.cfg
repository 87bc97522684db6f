SPECIFICATION Spec
CONSTANTS
  NBlocks = 8
  NBits = 7
  ReadClear <- Nothing
  MaxInodes = 5
  NDirect = 1
  Width = 5
  Stem <- McStem
  SbBehindGd = TRUE
  Uids = {0, 1}
  MkdirPaths <- OnlyD
  CreatePaths <- KillCreate
  DeletePaths <- KillDelete
  LookPaths <- OnlyD
  WriteArgs <- KillWrite
  CopyArgs <- Nothing
  ChmodArgs <- KillChmod
  UnsetParent = 0
  MaxCuts = 1
INVARIANTS
  KillTolerant
  SuccessSurvives
  RetryDelete
  ProtectedFilesKept
