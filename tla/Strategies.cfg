SPECIFICATION FairFailoverSpec
CONSTANTS
  FenceNodes = {n1, n2}
  Protected = {}
  Agents = {a1}
  Fencers = {f1}
  FenceRetries = 1
  ChainLength = 1
  NoFenceNode = NoFenceNode
  Recoverers = {r1}
  Keys = {k1}
  Clashes <- Deletion
  Strategy = "MajorityWins"
  VerifyChecksums = TRUE
  MaxPlans = 1
CHECK_DEADLOCK FALSE
PROPERTY ResolvesByDefault
