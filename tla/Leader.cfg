SPECIFICATION VoteSpec
CONSTANTS
  Nodes = {n1, n2, n3}
  Members = {n1, n2, n3}
  FixedQuorum = 0
  Self = n1
  Voters = {n2}
  Candidates = {n1, n2}
  Threads = {t1, t2}
  RemoteTerms = {2}
  MaxElections = 2
  MaxChanges = 0
  NoNode = NoNode
CHECK_DEADLOCK FALSE
INVARIANT NoLeaderDuringElection
