---------------------------- MODULE ClusterNodes ----------------------------
(***************************************************************************)
(* The membership half of the vote tracker (warp-store, arbiter/vote.rs):  *)
(* the nodes this node knows, which of them answer, and the quorum.  The   *)
(* elections (VoteTracker) and the split-brain detector (SplitBrain) both  *)
(* work on it.                                                             *)
(***************************************************************************)
EXTENDS Integers, FiniteSets

CONSTANTS
  Nodes,         \* node ids
  Members,       \* the nodes registered when a behaviour starts
  FixedQuorum,   \* fixed_quorum: 0 for None
  Self,          \* this node
  Candidates,    \* the nodes votes are for
  Threads        \* threads that call the arbiter's components

ASSUME ClusterConstants ==
  /\ IsFiniteSet(Nodes)
  /\ Members \subseteq Nodes
  /\ Self \in Nodes
  /\ Candidates \subseteq Nodes
  /\ FixedQuorum \in Nat

VARIABLES
  members,    \* the keys of cluster_nodes
  reachable   \* the members whose `reachable` flag is set

ClusterInit == members = Members /\ reachable = Members

ClusterTypeOK == members \subseteq Nodes /\ reachable \subseteq members

QuorumSize ==
  IF FixedQuorum # 0 THEN FixedQuorum ELSE (Cardinality(members) \div 2) + 1

HasQuorum == Cardinality(reachable) >= QuorumSize

RegisterNode(n) ==
  /\ members' = members \cup {n}
  /\ reachable' = reachable \cup {n}

RemoveNode(n) ==
  /\ members' = members \ {n}
  /\ reachable' = reachable \ {n}

\* A node that is not registered is ignored.
Heartbeat(n) ==
  /\ reachable' = reachable \cup ({n} \cap members)
  /\ UNCHANGED members

MarkUnreachable(n) ==
  /\ reachable' = reachable \ {n}
  /\ UNCHANGED members
=============================================================================
