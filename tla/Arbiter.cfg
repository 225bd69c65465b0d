SPECIFICATION Spec
CONSTANTS
  Nodes = {n1, n2, n3}
  Members = {n1, n2}
  FixedQuorum = 0
  Self = n1
  Voters = {n2, n3}
  Candidates = {n1, n2}
  Threads = {t1, t2}
  RemoteTerms = {2}
  MaxElections = 2
  MaxChanges = 1
  NoNode = NoNode
  Domains = {d1}
  FailureThreshold = 3
  NoThread = NoThread
  Peers = {n2}
  Elections = {e1, e2}
  VoteTerms = {1, 2}
  MaxJoined = 1
  MaxStarts = 1
  MaxVotes = 2
SYMMETRY Symmetric
CHECK_DEADLOCK FALSE
INVARIANTS LeaderHasQuorum OneWinnerPerElection
INVARIANTS NoMissedPartition NoFalseQuorumClaim
INVARIANTS FirstVoteCounts TrackerFollowsPeers
PROPERTY StateOrder
