SPECIFICATION Spec
CONSTANTS
  Threads = {t1, t2}
  Files = {f1, f2}
  Clients = {c1, c2}
  NoClient = NoClient
  LockFiles = {l1}
  Sweepers = {s1}
  TokenShards = {1, 2}
  ShardOf <- ShardPerToken
  Offsets = {0, 2}
  Lengths = {0, 2}
  MaxU64 = 3
  Expiries = {"Timed"}
  MaxTokens = 2
  NoLock = NoLock
  NoFile = NoFile
  NoThread = NoThread
  MaxGrants = 2
  MaxOpenFiles = 1
  MaxLocks = 1
  MaxSessions = 2
  MaxFiles = 3
  KeysPerClient = 1
  Wanted = {{"READ"}, {"READ", "WRITE"}}
  MaxRequests = 3
SYMMETRY Symmetric
CHECK_DEADLOCK FALSE
INVARIANTS TypeOK NoConflictingLocks ByteExclusive NoStrandedLock
INVARIANTS NoResurrection UnrecalledIsHeld RevokesOnlyMeant
INVARIANTS ClientFindsSession
INVARIANTS NoUnbrokenConflict NoGuardDeadlock
