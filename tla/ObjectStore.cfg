SPECIFICATION Spec
CONSTANTS
  Replicas = {1, 2}
  MaxTime = 1
  MaxLogical = 12
  MaxPuts = 3
  MaxApplies = 3
  MaxRestarts = 1
  MaxCalls = 5
  Counting = {1, 2}
  MaxCounts = 3
  MaxTotal = 2
  MaxCounterRestarts = 1
  MaxIndex = 3
  MaxVote = 2
  MaxCrashes = 2
  StoreNodes = {n1, n2}
  Writers = {r1, r2}
  Metadata = {m1, m2}
  NoMetadata = NoMetadata
  MaxSubmits = 3
  MaxDisturbances = 1
  FenceNodes = {x1, x2}
  Protected = {}
  Agents = {a1, a2}
  Fencers = {f1, f2}
  FenceRetries = 1
  ChainLength = 2
  NoFenceNode = NoFenceNode
  Recoverers = {r1, r2}
  Keys = {}
  Clashes = {}
  Strategy = "LastWriteWins"
  VerifyChecksums = TRUE
  MaxPlans = 2
SYMMETRY Symmetric
CHECK_DEADLOCK FALSE
INVARIANTS TimestampIdentifiesWrite OverwriteIsLater
INVARIANTS CountsOnce
INVARIANTS AnswersSurviveCrash
INVARIANTS CacheIsMachine
INVARIANTS NoLostRequest RecordTellsTruth SyncOnlyQuiesced NoNodeLeftQuiesced
PROPERTY ImplementsVersions
