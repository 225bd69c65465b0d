SPECIFICATION Spec
CONSTANTS
  Threads = {t1, t2}
  Clients = {c1}
  NoClient = NoClient
  Files = {}
  LockFiles = {l1}
  Sweepers = {s1}
  TokenShards = {1}
  ShardOf <- OneShard
  Offsets = {0, 1}
  Lengths = {1}
  MaxU64 = 3
  Expiries = {"Timed"}
  MaxTokens = 2
  NoLock = NoLock
  NoFile = NoFile
  NoThread = NoThread
  FenceNodes = {n1, n2}
  Protected = {}
  Agents = {a1}
  Fencers = {x1, x2}
  FenceRetries = 1
  ChainLength = 2
  NoFenceNode = NoFenceNode
  Recoverers = {r1}
  Keys = {k1}
  Clashes <- Deletion
  Strategy = "LastWriteWins"
  VerifyChecksums = TRUE
  MaxPlans = 1
CHECK_DEADLOCK FALSE
PROPERTIES CallsReturn ExecuteReturns RecoveryEnds
