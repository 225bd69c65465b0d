SPECIFICATION LockSpec
CONSTANTS
  Threads = {t1}
  Clients = {c1, c2}
  NoClient = NoClient
  Files = {}
  LockFiles = {l1}
  Sweepers = {}
  TokenShards = {1}
  ShardOf <- OneShard
  Offsets = {0}
  Lengths = {1}
  MaxU64 = 3
  Expiries = {"Forever"}
  MaxTokens = 2
  NoLock = NoLock
  NoFile = NoFile
  NoThread = NoThread
SYMMETRY Symmetric
CHECK_DEADLOCK FALSE
INVARIANTS GrantedLockIsHeld
