SPECIFICATION Spec
CONSTANTS
  b1 = b1
  b2 = b2
  NLines = 3
  Blk <- MCBlk
  FirstBlk = 1
  MaxLen = 10
  TargetFloor = 2
  Head0 = 8
  MAX_PENDING_TX = 3
  CHECKPOINT_BATCH = 3
  TX_MAX_BLOCKS = 2
  TX_MAX_REVOKES = 1
  TagsPerDesc = 2
  RevokesPerBlock = 1
  MagicWord = 2
  JLOG_MAX_RECORDS = 2
  Kinds <- MCKinds
  MaxTx <- MCMaxTx
  MaxOps = 3
  MaxCrash = 2
  MaxFail = 1
  MaxWork = 3
SYMMETRY Symmetry
INVARIANT CacheCoherent
INVARIANT ReadsSeeCommitted
INVARIANT CrashAtomic
INVARIANT CommitHasRoom
CHECK_DEADLOCK FALSE
