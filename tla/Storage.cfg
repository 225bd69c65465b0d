SPECIFICATION Spec
CONSTANTS
  Threads = {t1, t2}
  Chunks = {k1, k2}
  Versions = {v1, v2}
  NoVersion = NoVersion
  MaxU32 = 7
  MaxRegisters = 3
  Allocators = {t1, t2, t3}
  PoolChunks = 2
  MaxChunkIds = 6
  VolumeBlocks = 4
  BlockObjects = {o1}
  CowThreads = {t1, t2}
  Contents = {a, b}
  Inline = {a, b}
  CleanupBatch = 1
  MaxBlockIds = 2
  MaxPending = 2
  MaxHeld = 2
  Tasks = {t1, t2}
  Edges = {e1}
  MaxTotal = 3
  MaxPerEdge = 2
  MaxConnIds = 4
  MaxSemaphores = 3
  Healers = {t1, t2}
  Shards = {s1, s2}
  Domains = {d1, d2}
  LocalDomain = d1
  Home <- OneLocal
  DataShards = 1
  RepairBelow = 2
  MaxRepairsPerCycle = 1
  MaxRetries = 2
  Reports = {"Lost"}
  MaxFaults = 1
  MaxJobs = 1
SYMMETRY Symmetric
CHECK_DEADLOCK FALSE
INVARIANTS NoStuckShard
INVARIANTS NoDataLoss RefCountExact
INVARIANTS ChunkHasOneOwner PoolOverrunBounded ReadsLastWrite
INVARIANTS HeldBlockIsIntact DeadBlockIsScheduled
INVARIANTS OneBorrower ConnectionLimits
