----------------------------- MODULE VoteTracker -----------------------------
(***************************************************************************)
(* The elections of one node's vote tracker (warp-store, arbiter/vote.rs). *)
(*                                                                         *)
(* The tracker is shared between threads.  Its fields are an RwLock, two   *)
(* atomics and another RwLock, taken one after the other: every method is  *)
(* cut where it has let go of one and not yet taken the next.  Votes come  *)
(* from anywhere: they may be late, repeated, for an election that was     *)
(* replaced, or from a node that is no member (add_vote does not look).    *)
(***************************************************************************)
EXTENDS ClusterNodes

CONSTANTS
  Voters,         \* the nodes votes come from
  RemoteTerms,    \* terms that accept_term is called with
  MaxElections,   \* bound: calls of start_election
  MaxChanges,     \* bound: changes of the membership while elections run
  NoNode          \* None for a leader or a vote

ASSUME VoteConstants ==
  /\ Voters \subseteq Nodes
  /\ NoNode \notin Nodes
  /\ RemoteTerms \subseteq Nat
  /\ MaxElections \in Nat /\ MaxChanges \in Nat

VARIABLES
  election,   \* current_election: a record, or NoElection
  term,       \* current_term
  leader,     \* current_leader
  nextId,     \* next_election_id
  vpc, vloc,    \* where each thread is, and its local variables
  started,    \* history: <<id, term>> of every election that start_election set up
  won,        \* history: the elections check_election has decided
  changes,    \* the number of changes of the membership so far
  setBack     \* history: accept_term has stored a term below the current one

memberVars  == <<members, reachable, changes>>
trackerVars == <<election, leader, started, won>>
voteVars == <<memberVars, trackerVars, term, nextId, vpc, vloc, setBack>>

Ids     == 1 .. MaxElections
Results == {"None", "Won", "Timeout", "Split"}
NoElection == [id |-> 0, term |-> 0, votes |-> [n \in Nodes |-> NoNode], result |-> "None"]

\* The candidate's supporters among the votes of an election.
Supporters(e, c) == {n \in Nodes : e.votes[n] = c}
VotedIn(e)       == {n \in Nodes : e.votes[n] # NoNode}

\* get_winner walks a HashMap: with several candidates at quorum, any of them.
Winners(e, quorum) == {c \in Nodes : /\ Supporters(e, c) # {}
                                     /\ Cardinality(Supporters(e, c)) >= quorum}

VGoto(t, label) == vpc' = [vpc EXCEPT ![t] = label]

VKeep(t, id, tm, node) == vloc' = [vloc EXCEPT ![t] = [id |-> id, term |-> tm, node |-> node]]
VReturn(t) == VGoto(t, "idle") /\ VKeep(t, 0, 0, NoNode)

-----------------------------------------------------------------------------
VoteInit ==
  /\ ClusterInit
  /\ election = NoElection
  /\ term = 0
  /\ leader = NoNode
  /\ nextId = 1
  /\ vpc = [t \in Threads |-> "idle"]
  /\ vloc = [t \in Threads |-> [id |-> 0, term |-> 0, node |-> NoNode]]
  /\ started = {}
  /\ won = {}
  /\ changes = 0 /\ setBack = FALSE

(* start_election: two fetch_adds, then the two locks *)

StartId(t) ==
  /\ vpc[t] = "idle"
  /\ nextId <= MaxElections
  /\ nextId' = nextId + 1
  /\ VKeep(t, nextId, 0, NoNode)
  /\ VGoto(t, "start_term")
  /\ UNCHANGED <<memberVars, term, trackerVars, setBack>>

StartTerm(t) ==
  /\ vpc[t] = "start_term"
  /\ term' = term + 1
  /\ VKeep(t, vloc[t].id, term + 1, NoNode)
  /\ VGoto(t, "start_set")
  /\ UNCHANGED <<memberVars, nextId, trackerVars, setBack>>

\* The previous election, decided or not, is gone.
StartSet(t) ==
  /\ vpc[t] = "start_set"
  /\ election' = [NoElection EXCEPT !.id = vloc[t].id, !.term = vloc[t].term]
  /\ started' = started \cup {<<vloc[t].id, vloc[t].term>>}
  /\ VGoto(t, "start_clear")
  /\ UNCHANGED <<memberVars, term, leader, nextId, vloc, won, setBack>>

StartClear(t) ==
  /\ vpc[t] = "start_clear"
  /\ leader' = NoNode
  /\ VReturn(t)
  /\ UNCHANGED <<memberVars, election, term, nextId, started, won, setBack>>

(* cast_vote and vote_for_self *)

\* Election::add_vote: only for this election and term, one vote per node.
AddVote(id, tm, n, c) ==
  election' =
    IF id = election.id /\ tm = election.term /\ election.votes[n] = NoNode
    THEN [election EXCEPT !.votes[n] = c] ELSE election

\* A vote another node cast in an election this node started, some time ago.
CastVote(n, c) ==
  /\ election.id # 0
  /\ \E e \in started : AddVote(e[1], e[2], n, c)
  /\ UNCHANGED <<memberVars, term, leader, nextId, vpc, vloc, started, won, setBack>>

\* vote_for_self reads the election, drops the lock and casts.
SelfVoteRead(t) ==
  /\ vpc[t] = "idle"
  /\ election.id # 0
  /\ VKeep(t, election.id, election.term, Self)
  /\ VGoto(t, "self_cast")
  /\ UNCHANGED <<memberVars, term, nextId, trackerVars, setBack>>

SelfVoteCast(t) ==
  /\ vpc[t] = "self_cast"
  /\ AddVote(vloc[t].id, vloc[t].term, Self, Self)
  /\ VReturn(t)
  /\ UNCHANGED <<memberVars, term, leader, nextId, started, won, setBack>>

(* check_election *)

Victory(c) == [id |-> election.id, leader |-> c, quorum |-> QuorumSize,
               of |-> members, voters |-> Supporters(election, c)]

Conclude(result) == election' = [election EXCEPT !.result = result]

\* The timeout is checked before the votes are counted.
CheckTimeout ==
  /\ election.id # 0 /\ election.result = "None"
  /\ Conclude("Timeout")
  /\ UNCHANGED <<memberVars, term, leader, nextId, vpc, vloc, started, won, setBack>>

\* Mutant: a plurality wins as soon as anybody has voted.
CheckPlurality(t, c) ==
  /\ vpc[t] = "idle"
  /\ election.id # 0 /\ election.result = "None"
  /\ c \in Winners(election, 1)
  /\ Conclude("Won")
  /\ won' = won \cup {Victory(c)}
  /\ VKeep(t, election.id, election.term, c)
  /\ VGoto(t, "check_leader")
  /\ UNCHANGED <<memberVars, term, leader, nextId, started, setBack>>

\* Mutant: an election that is already decided is counted again.
CheckAgain(t, c) ==
  /\ vpc[t] = "idle"
  /\ election.id # 0
  /\ c \in Winners(election, QuorumSize)
  /\ Conclude("Won")
  /\ won' = won \cup {Victory(c)}
  /\ VKeep(t, election.id, election.term, c)
  /\ VGoto(t, "check_leader")
  /\ UNCHANGED <<memberVars, term, leader, nextId, started, setBack>>

CheckWon(t, c) ==
  /\ vpc[t] = "idle"
  /\ election.id # 0 /\ election.result = "None"
  /\ c \in Winners(election, QuorumSize)
  /\ Conclude("Won")
  /\ won' = won \cup {Victory(c)}
  /\ VKeep(t, election.id, election.term, c)
  /\ VGoto(t, "check_leader")
  /\ UNCHANGED <<memberVars, term, leader, nextId, started, setBack>>

\* The election's lock is dropped before the leader's lock is taken.
CheckLeader(t) ==
  /\ vpc[t] = "check_leader"
  /\ leader' = vloc[t].node
  /\ VReturn(t)
  /\ UNCHANGED <<memberVars, election, term, nextId, started, won, setBack>>

CheckSplit ==
  /\ election.id # 0 /\ election.result = "None"
  /\ Winners(election, QuorumSize) = {}
  /\ Cardinality(VotedIn(election)) >= Cardinality(members)
  /\ Conclude("Split")
  /\ UNCHANGED <<memberVars, term, leader, nextId, vpc, vloc, started, won, setBack>>

(* accept_term: load, compare, store, clear the leader *)

AcceptLoad(t, tm) ==
  /\ vpc[t] = "idle"
  /\ tm > term
  /\ VKeep(t, 0, tm, NoNode)
  /\ VGoto(t, "accept_store")
  /\ UNCHANGED <<memberVars, term, nextId, trackerVars, setBack>>

AcceptStore(t) ==
  /\ vpc[t] = "accept_store"
  /\ term' = vloc[t].term
  /\ setBack' = (setBack \/ vloc[t].term < term)
  /\ VGoto(t, "accept_clear")
  /\ UNCHANGED <<memberVars, nextId, vloc, trackerVars>>

AcceptClear(t) ==
  /\ vpc[t] = "accept_clear"
  /\ leader' = NoNode
  /\ VReturn(t)
  /\ UNCHANGED <<memberVars, election, term, nextId, started, won, setBack>>

(* The rest of the tracker *)

Membership ==
  /\ changes < MaxChanges
  /\ changes' = changes + 1
  /\ \E n \in Nodes : \/ RegisterNode(n) \/ RemoveNode(n)
                      \/ Heartbeat(n) \/ MarkUnreachable(n)
  /\ UNCHANGED <<term, nextId, vpc, vloc, trackerVars, setBack>>

-----------------------------------------------------------------------------
VoteStep(t) ==
  \/ StartId(t) \/ StartTerm(t) \/ StartSet(t) \/ StartClear(t)
  \/ SelfVoteRead(t) \/ SelfVoteCast(t)
  \/ \E c \in Nodes : CheckWon(t, c)
  \/ CheckLeader(t)
  \/ \E tm \in RemoteTerms : AcceptLoad(t, tm)
  \/ AcceptStore(t) \/ AcceptClear(t)

VoteNext ==
  \/ \E t \in Threads : VoteStep(t)
  \/ \E n \in Voters, c \in Candidates : CastVote(n, c)
  \/ CheckTimeout
  \/ CheckSplit
  \/ Membership

VoteSpec == VoteInit /\ [][VoteNext]_voteVars

-----------------------------------------------------------------------------
(* Properties *)

Terms == 0 .. MaxElections + (CHOOSE m \in RemoteTerms \cup {0} : \A k \in RemoteTerms : k <= m)

\* Types; only members of the tracker count as reachable, whoever sends
\* heartbeats while nodes come and go, and no term exceeds what was handed out.
VoteTypeOK ==
  /\ ClusterTypeOK
  /\ election \in [id : Ids \cup {0}, term : Terms, votes : [Nodes -> Nodes \cup {NoNode}],
                   result : Results]
  /\ term \in Terms
  /\ leader \in Nodes \cup {NoNode}
  /\ nextId \in 1 .. MaxElections + 1
  /\ vloc \in [Threads -> [id : Ids \cup {0}, term : Terms, node : Nodes \cup {NoNode}]]

\* No leader by minority: whoever is leader was voted for, in one election and
\* before it was decided, by as many distinct nodes as the quorum then was; and
\* the quorums intersect: two elections that were decided while the tracker had
\* the same members, by votes of members, have a voter in common, whatever
\* happened to the membership in between.
LeaderHasQuorum ==
  /\ leader # NoNode => \E w \in won : /\ w.leader = leader
                                       /\ Cardinality(w.voters) >= w.quorum
  /\ \A v, w \in won :
       (v.of = w.of /\ v.voters \cup w.voters \subseteq v.of) => v.voters \cap w.voters # {}

\* An election names one leader: neither late votes, nor a second
\* check_election, nor a quorum that shrinks meanwhile name another.  No two
\* elections share a term (vote.rs:33 "Vote term (monotonically increasing)"), so
\* that a vote for one is never taken for the other, unless accept_term has
\* overwritten a newer term: nothing else makes a term repeat.
OneWinnerPerElection ==
  /\ \A v, w \in won : v.id = w.id => v.leader = w.leader
  /\ setBack \/ \A e, f \in started : e[2] = f[2] => e = f

\* While the current election is undecided and no call is under way, there is no
\* leader (vote.rs:321 "Clear current leader during election"): a caller of
\* can_write is not told to write under the leader of the election before.
NoLeaderDuringElection ==
  (election.id # 0 /\ election.result = "None" /\ \A t \in Threads : vpc[t] = "idle")
    => leader = NoNode
=============================================================================
