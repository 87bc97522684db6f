SPECIFICATION Spec
CONSTANTS
  NBlocks = 9
  NBits = 8
  ReadClear <- Nothing
  MaxInodes = 5
  NDirect = 2
  Width = 3
  Stem <- McStem
  SbBehindGd = TRUE
  Uids = {0}
  MkdirPaths <- CmdMkdir
  CreatePaths <- CmdCreate
  DeletePaths <- CmdDelete
  LookPaths <- Nothing
  WriteArgs <- CmdWrite
  CopyArgs <- CmdCopy
  ChmodArgs <- Nothing
  UnsetParent = 0
  MaxCuts = 0
INVARIANTS
  TypeOK
  Ownership
  CountersExact
  DeleteOrphans
  OthersUntouched
  LeakBound
  FailsAtALimit
  WritingOverDirectory
  StaleNameAnswers
PROPERTIES
  Implements
