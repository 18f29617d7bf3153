SPECIFICATION Spec
CONSTANTS
  NG = 2
  BPG = 10
  IPG = 4
  RootIno = 1
  JournalIno = 2
  FirstIno = 3
  NDIR = 1
  NPTR = 2
  RootCap = 1
  NodeCap = 2
  MaxRuns = 4
  Units = 2
  Names = {"a", "c", "b", "long", "lost+found"}
  RecLen <- MCRecLen
  DirUnits = 13
  RecHdr = 1
  LenMod = 6
  InlineMax = 1
  MemMax = 4
  MountPt = 2
  CacheMax = 3
  MaxDepth = 2
  JBlocks = 1
  DirMax = 3
  FileCap = 1
  MaxCap = 2
  Paths <- MCPaths
  Targets <- MCTargets
  OpenFlags <- MCOpenFlags
  Fds = {1, 2}
  Offs = {1, 5}
  Lens = {2}
  Sizes = {1, 3}
  Starts <- MCStarts
  Modes = {"n", "p", "y"}
  MaxOps = 3
  MaxRefuse = 1
INVARIANT BlocksOwnedOnce
INVARIANT TreeSound
INVARIANT CountsExact
INVARIANT ContentsAsWritten
INVARIANT CacheAgrees
INVARIANT DescriptorKeepsFile
INVARIANT ComplaintsExplained
CHECK_DEADLOCK FALSE
