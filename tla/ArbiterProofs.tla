---------------------------- MODULE ArbiterProofs ----------------------------
(* What the vote tracker, the split-brain detector and the witness guarantee, *)
(* for any number of nodes, threads and elections.                            *)
EXTENDS VoteTracker, SplitBrain, Witness, FiniteSetTheorems, TLAPS

-----------------------------------------------------------------------------
(* The vote tracker *)

\* with_quorum takes any number; a fixed quorum is to be a majority of all nodes.
MajorityQuorum == FixedQuorum = 0 \/ 2 * FixedQuorum > Cardinality(Nodes)

VLabels == {"idle", "start_term", "start_set", "start_clear", "self_cast", "check_leader",
            "accept_store", "accept_clear"}
VLocals == [id : Nat, term : Nat, node : Nodes \cup {NoNode}]
VElections == [id : Nat, term : Nat, votes : [Nodes -> Nodes \cup {NoNode}], result : Results]
QuorumOf(ns) == IF FixedQuorum # 0 THEN FixedQuorum ELSE (Cardinality(ns) \div 2) + 1

VTypes ==
  /\ members \subseteq Nodes
  /\ election \in VElections
  /\ term \in Nat /\ nextId \in Nat \ {0}
  /\ vpc \in [Threads -> VLabels] /\ vloc \in [Threads -> VLocals]
  /\ started \subseteq Nat \X Nat
  /\ setBack \in BOOLEAN

\* A decided election was decided by a quorum of the members it was decided among.
Victories ==
  \A w \in won : /\ w.of \subseteq Nodes /\ w.voters \subseteq Nodes
                 /\ w.quorum = QuorumOf(w.of) /\ Cardinality(w.voters) >= w.quorum

Leads(n) == \E w \in won : w.leader = n
Elected == /\ leader # NoNode => Leads(leader)
           /\ \A t \in Threads : vpc[t] = "check_leader" => Leads(vloc[t].node)

\* A thread that is about to set up an election has an id nobody else has seen.
Starting(t) == vpc[t] \in {"start_term", "start_set"}
FreshId ==
  \A t \in Threads : Starting(t) =>
    /\ vloc[t].id < nextId /\ vloc[t].id # election.id
    /\ \A w \in won : w.id # vloc[t].id
    /\ \A u \in Threads \ {t} : Starting(u) => vloc[u].id # vloc[t].id
Decided ==
  /\ election.id < nextId
  /\ \A w \in won : w.id \in Nat /\ w.id < nextId /\ (w.id = election.id => election.result # "None")
  /\ \A v, w \in won : v.id = w.id => v.leader = w.leader

\* Unless a newer term was overwritten, terms are handed out once.
FreshTerm ==
  /\ \A e \in started : e[2] <= term
  /\ \A e, f \in started : e[2] = f[2] => e = f
  /\ \A t \in Threads : vpc[t] = "start_set" =>
       /\ vloc[t].term <= term
       /\ \A e \in started : e[2] # vloc[t].term
       /\ \A u \in Threads \ {t} : vpc[u] = "start_set" => vloc[u].term # vloc[t].term

VoteInv == VTypes /\ Victories /\ Elected /\ FreshId /\ Decided /\ (~setBack => FreshTerm)

\* The empty election, and a new one.
LEMMA NoElectionFacts ==
  /\ NoElection \in VElections /\ NoElection.id = 0 /\ NoElection.term = 0 /\ NoElection.result = "None"
  /\ \A id \in Nat, tm \in Nat :
       LET e == [NoElection EXCEPT !.id = id, !.term = tm]
       IN  e \in VElections /\ e.id = id /\ e.term = tm /\ e.result = "None"
<1>1. NoElection \in VElections /\ NoElection.id = 0 /\ NoElection.term = 0 /\ NoElection.result = "None"
  BY DEF NoElection, VElections, Results
<1> QED
  BY <1>1 DEF VElections

\* No election at the start.
LEMMA VoteInitial == VoteInit => VoteInv
<1> SUFFICES ASSUME VoteInit PROVE VoteInv
  OBVIOUS
<1>1. \A t \in Threads : vpc[t] = "idle"
  BY DEF VoteInit
<1>2. VTypes
  <2>1. vloc \in [Threads -> VLocals]
    BY DEF VoteInit, VLocals
  <2>2. vpc \in [Threads -> VLabels]
    BY DEF VoteInit, VLabels
  <2>3. members = Members /\ election = NoElection /\ term = 0 /\ nextId = 1
    BY DEF VoteInit, ClusterInit
  <2>4. election \in VElections
    BY <2>3, NoElectionFacts
  <2>6. members \subseteq Nodes
    BY <2>3, ClusterConstants
  <2>7. term \in Nat /\ nextId \in Nat \ {0}
    BY <2>3
  <2>5. started = {} /\ setBack = FALSE
    BY DEF VoteInit
  <2> QED
    BY <2>1, <2>2, <2>4, <2>5, <2>6, <2>7 DEF VTypes
<1>3. won = {} /\ started = {} /\ leader = NoNode /\ election.id = 0 /\ nextId = 1
  BY NoElectionFacts DEF VoteInit
<1>4. Victories /\ Elected /\ FreshId /\ Decided /\ FreshTerm
  BY <1>1, <1>3 DEF Victories, Elected, FreshId, Decided, FreshTerm, Starting
<1> QED
  BY <1>2, <1>4 DEF VoteInv

\* A thread moves.
LEMMA VMoved ==
  ASSUME VTypes, NEW t \in Threads, NEW label \in VLabels, NEW id \in Nat, NEW tm \in Nat,
         NEW node \in Nodes \cup {NoNode}, VGoto(t, label), VKeep(t, id, tm, node)
  PROVE  /\ vpc' \in [Threads -> VLabels] /\ vloc' \in [Threads -> VLocals]
         /\ vpc'[t] = label /\ vloc'[t].id = id /\ vloc'[t].term = tm /\ vloc'[t].node = node
         /\ \A u \in Threads \ {t} : vpc'[u] = vpc[u] /\ vloc'[u] = vloc[u]
<1> DEFINE r == [id |-> id, term |-> tm, node |-> node]
<1>1. r \in VLocals /\ r.id = id /\ r.term = tm /\ r.node = node
  BY DEF VLocals
<1>2. vpc' = [vpc EXCEPT ![t] = label] /\ vloc' = [vloc EXCEPT ![t] = r]
  BY DEF VGoto, VKeep
<1> HIDE DEF r
<1> QED
  BY <1>1, <1>2 DEF VTypes

\* A thread that returns, leaving elections, ids and terms alone.
LEMMA VReturns ==
  ASSUME VoteInv, NEW t \in Threads, VReturn(t), leader' # NoNode => Leads(leader'),
         UNCHANGED <<members, term, nextId, started, setBack, won>>,
         election' \in VElections, election'.id = election.id, election'.result = election.result
  PROVE  VoteInv'
<1>0. VTypes /\ Victories /\ Elected /\ FreshId /\ Decided
  BY DEF VoteInv
<1>1. "idle" \in VLabels /\ VGoto(t, "idle") /\ VKeep(t, 0, 0, NoNode) /\ 0 \in Nat /\ NoNode \in Nodes \cup {NoNode}
  BY DEF VReturn, VLabels
<1>2. /\ vpc' \in [Threads -> VLabels] /\ vloc' \in [Threads -> VLocals] /\ vpc'[t] = "idle"
      /\ \A u \in Threads \ {t} : vpc'[u] = vpc[u] /\ vloc'[u] = vloc[u]
  BY <1>0, <1>1, VMoved
<1>3. VTypes' /\ Victories'
  BY <1>0, <1>2 DEF VTypes, Victories
<1>4. Elected'
  <2>1. leader' # NoNode => \E w \in won : w.leader = leader'
    BY DEF Leads
  <2>2. \A u \in Threads : vpc'[u] = "check_leader" => \E w \in won : w.leader = vloc'[u].node
    BY <1>0, <1>2 DEF Elected, Leads
  <2> QED
    BY <2>1, <2>2 DEF Elected, Leads
<1>5. FreshId' /\ Decided'
  BY <1>0, <1>2 DEF FreshId, Decided, Starting
<1>6. FreshTerm => FreshTerm'
  BY <1>2 DEF FreshTerm
<1> QED
  BY <1>3, <1>4, <1>5, <1>6 DEF VoteInv

\* start_election draws an id, which no election has had.
LEMMA StartIdStays == ASSUME VoteInv, NEW t \in Threads, StartId(t) PROVE VoteInv'
<1>0. VTypes /\ Victories /\ Elected /\ FreshId /\ Decided
  BY DEF VoteInv
<1>1. /\ VGoto(t, "start_term") /\ VKeep(t, nextId, 0, NoNode) /\ nextId' = nextId + 1 /\ nextId \in Nat
      /\ UNCHANGED <<members, election, leader, started, won, term, setBack>>
  BY <1>0 DEF StartId, VTypes, memberVars, trackerVars
<1>2. /\ vpc' \in [Threads -> VLabels] /\ vloc' \in [Threads -> VLocals] /\ vpc'[t] = "start_term" /\ vloc'[t].id = nextId
      /\ \A u \in Threads \ {t} : vpc'[u] = vpc[u] /\ vloc'[u] = vloc[u]
  BY <1>0, <1>1, VMoved DEF VLabels
<1>3. VTypes' /\ Victories' /\ Elected'
  BY <1>0, <1>1, <1>2 DEF VTypes, Victories, Elected, Leads
<1>4. election.id \in Nat /\ \A u \in Threads : vloc[u].id \in Nat
  BY <1>0 DEF VTypes, VElections, VLocals
<1>5. FreshId'
  <2> SUFFICES ASSUME NEW a \in Threads, Starting(a)'
               PROVE  /\ vloc'[a].id < nextId' /\ vloc'[a].id # election.id
                      /\ \A w \in won : w.id # vloc'[a].id
                      /\ \A u \in Threads \ {a} : Starting(u)' => vloc'[u].id # vloc'[a].id
    BY <1>1 DEF FreshId
  <2>1. CASE a = t
    <3>1. \A w \in won : w.id # nextId
      BY <1>0, <1>1 DEF Decided
    <3>2. \A u \in Threads \ {t} : Starting(u)' => vloc'[u].id # nextId
      BY <1>0, <1>1, <1>2, <1>4 DEF FreshId, Starting
    <3>3. nextId # election.id /\ nextId < nextId'
      BY <1>0, <1>1, <1>4 DEF Decided
    <3> QED
      BY <1>2, <2>1, <3>1, <3>2, <3>3
  <2>2. CASE a # t
    <3>1. Starting(a) /\ vloc'[a] = vloc[a]
      BY <1>2, <2>2 DEF Starting
    <3>2. vloc[a].id < nextId
      BY <1>0, <3>1 DEF FreshId
    <3>3. \A u \in Threads \ {a} : Starting(u)' => vloc'[u].id # vloc'[a].id
      BY <1>0, <1>1, <1>2, <1>4, <3>1, <3>2 DEF FreshId, Starting
    <3> QED
      BY <1>0, <1>1, <1>4, <3>1, <3>2, <3>3 DEF FreshId
  <2> QED
    BY <2>1, <2>2
<1>6. Decided'
  <2>1. election.id < nextId'
    BY <1>0, <1>1, <1>4 DEF Decided
  <2>2. \A w \in won : w.id < nextId'
    BY <1>0, <1>1 DEF Decided
  <2> QED
    BY <1>0, <1>1, <2>1, <2>2 DEF Decided
<1>7. FreshTerm => FreshTerm'
  BY <1>1, <1>2 DEF FreshTerm
<1> QED
  BY <1>1, <1>3, <1>5, <1>6, <1>7 DEF VoteInv

\* start_election advances the term.
LEMMA StartTermStays == ASSUME VoteInv, NEW t \in Threads, StartTerm(t) PROVE VoteInv'
<1>0. VTypes /\ Victories /\ Elected /\ FreshId /\ Decided
  BY DEF VoteInv
<1>1. /\ vpc[t] = "start_term" /\ VGoto(t, "start_set") /\ VKeep(t, vloc[t].id, term + 1, NoNode) /\ term' = term + 1
      /\ UNCHANGED <<members, election, leader, started, won, nextId, setBack>>
  BY DEF StartTerm, memberVars, trackerVars
<1>2. term \in Nat /\ term + 1 \in Nat /\ vloc[t].id \in Nat
  BY <1>0 DEF VTypes, VLocals
<1>3. /\ vpc' \in [Threads -> VLabels] /\ vloc' \in [Threads -> VLocals] /\ vpc'[t] = "start_set"
      /\ vloc'[t].id = vloc[t].id /\ vloc'[t].term = term + 1
      /\ \A u \in Threads \ {t} : vpc'[u] = vpc[u] /\ vloc'[u] = vloc[u]
  BY <1>0, <1>1, <1>2, VMoved DEF VLabels
<1>4. VTypes' /\ Victories' /\ Elected' /\ Decided'
  BY <1>0, <1>1, <1>2, <1>3 DEF VTypes, Victories, Elected, Leads, Decided
<1>5. FreshId'
  <2>1. \A u \in Threads : (Starting(u)' <=> Starting(u)) /\ (Starting(u) => vloc'[u].id = vloc[u].id)
    BY <1>1, <1>3 DEF Starting
  <2> QED
    BY <1>0, <1>1, <2>1 DEF FreshId
<1>6. ASSUME FreshTerm PROVE FreshTerm'
  <2>1. (\A e \in started : e[2] \in Nat) /\ \A u \in Threads : vloc[u].term \in Nat
    BY <1>0 DEF VTypes, VLocals
  <2>2. \A e \in started : e[2] <= term + 1 /\ e[2] # term + 1
    BY <1>2, <1>6, <2>1 DEF FreshTerm
  <2>3. \A u \in Threads : vpc[u] = "start_set" => vloc[u].term <= term + 1 /\ vloc[u].term # term + 1
    BY <1>2, <1>6, <2>1 DEF FreshTerm
  <2>4. \A e \in started : e[2] <= term'
    BY <1>1, <2>2
  <2>5. ASSUME NEW a \in Threads, vpc'[a] = "start_set"
        PROVE  /\ vloc'[a].term <= term'
               /\ \A e \in started : e[2] # vloc'[a].term
               /\ \A u \in Threads \ {a} : vpc'[u] = "start_set" => vloc'[u].term # vloc'[a].term
    <3>1. CASE a = t
      <4>1. vloc'[a].term = term + 1
        BY <1>3, <3>1
      <4>2. \A u \in Threads \ {a} : vpc'[u] = "start_set" => vloc'[u].term # term + 1
        BY <1>3, <2>3, <3>1
      <4> QED
        BY <1>1, <1>2, <2>2, <4>1, <4>2
    <3>2. CASE a # t
      <4>1. vpc[a] = "start_set" /\ vloc'[a] = vloc[a]
        BY <1>3, <2>5, <3>2
      <4>2. \A u \in Threads \ {a} : vpc'[u] = "start_set" => vloc'[u].term # vloc[a].term
        BY <1>3, <1>6, <2>3, <4>1 DEF FreshTerm
      <4> QED
        BY <1>1, <1>6, <2>3, <4>1, <4>2 DEF FreshTerm
    <3> QED
      BY <3>1, <3>2
  <2> QED
    BY <1>1, <1>6, <2>4, <2>5 DEF FreshTerm
<1> QED
  BY <1>1, <1>4, <1>5, <1>6 DEF VoteInv

\* start_election replaces the election; the old one keeps the winner it was
\* given.
LEMMA StartSetStays == ASSUME VoteInv, NEW t \in Threads, StartSet(t) PROVE VoteInv'
<1>0. VTypes /\ Victories /\ Elected /\ FreshId /\ Decided
  BY DEF VoteInv
<1> DEFINE e == [NoElection EXCEPT !.id = vloc[t].id, !.term = vloc[t].term]
<1>1. vloc[t].id \in Nat /\ vloc[t].term \in Nat
  BY <1>0 DEF VTypes, VLocals
<1>2. /\ vpc[t] = "start_set" /\ VGoto(t, "start_clear") /\ election' = e
      /\ started' = started \cup {<<vloc[t].id, vloc[t].term>>}
      /\ UNCHANGED <<members, term, leader, nextId, vloc, won, setBack>>
  BY DEF StartSet, memberVars
<1>3. e \in VElections /\ e.id = vloc[t].id
  BY <1>1, NoElectionFacts
<1> HIDE DEF e
<1>4. vpc' \in [Threads -> VLabels] /\ vpc'[t] = "start_clear" /\ \A u \in Threads \ {t} : vpc'[u] = vpc[u]
  BY <1>0, <1>2 DEF VTypes, VGoto, VLabels
<1>5. VTypes' /\ Victories' /\ Elected'
  BY <1>0, <1>1, <1>2, <1>3, <1>4 DEF VTypes, Victories, Elected, Leads
<1>6. vloc[t].id < nextId /\ \A w \in won : w.id # vloc[t].id
  BY <1>0, <1>2 DEF FreshId, Starting
<1>7. FreshId'
  <2> SUFFICES ASSUME NEW a \in Threads, Starting(a)'
               PROVE  /\ vloc[a].id < nextId /\ vloc[a].id # e.id
                      /\ \A w \in won : w.id # vloc[a].id
                      /\ \A u \in Threads \ {a} : Starting(u)' => vloc[u].id # vloc[a].id
    BY <1>2 DEF FreshId
  <2>1. a # t /\ Starting(a) /\ Starting(t)
    BY <1>2, <1>4 DEF Starting
  <2>2. \A u \in Threads : Starting(u)' => Starting(u)
    BY <1>2, <1>4 DEF Starting
  <2> QED
    BY <1>0, <1>3, <2>1, <2>2 DEF FreshId
<1>8. Decided'
  BY <1>0, <1>2, <1>3, <1>6 DEF Decided
<1>9. ASSUME FreshTerm PROVE FreshTerm'
  <2> DEFINE new == <<vloc[t].id, vloc[t].term>>
  <2>1. new[2] = vloc[t].term /\ vloc[t].term <= term /\ \A f \in started : f[2] # vloc[t].term
    BY <1>2, <1>9 DEF FreshTerm
  <2>2. started' = started \cup {new}
    BY <1>2
  <2> HIDE DEF new
  <2>3. \A a \in Threads : vpc'[a] = "start_set" => a # t /\ vpc[a] = "start_set"
    BY <1>4
  <2> QED
    BY <1>2, <1>9, <2>1, <2>2, <2>3 DEF FreshTerm
<1> QED
  BY <1>2, <1>5, <1>7, <1>8, <1>9 DEF VoteInv

\* Votes, and the two verdicts without a winner, name nobody.
LEMMA VerdictStays ==
  ASSUME VoteInv, election' \in VElections, election'.id = election.id,
         election'.result = election.result \/ election'.result # "None",
         UNCHANGED <<members, term, leader, nextId, vpc, vloc, started, won, setBack>>
  PROVE  VoteInv'
<1>1. VTypes' /\ Victories' /\ Elected'
  BY DEF VoteInv, VTypes, Victories, Elected, Leads
<1>2. FreshId' /\ Decided' /\ (FreshTerm => FreshTerm')
  BY DEF VoteInv, FreshId, Decided, FreshTerm, Starting
<1> QED
  BY <1>1, <1>2 DEF VoteInv

\* A vote changes neither the id of the election nor its result.
LEMMA VoteAdded ==
  ASSUME VTypes, NEW id, NEW tm, NEW n \in Nodes, NEW c \in Nodes, AddVote(id, tm, n, c)
  PROVE  election' \in VElections /\ election'.id = election.id /\ election'.result = election.result
<1>1. election \in VElections
  BY DEF VTypes
<1> DEFINE e == [election EXCEPT !.votes[n] = c]
<1>2. e \in VElections /\ e.id = election.id /\ e.result = election.result
  <2>1. e = [election EXCEPT !.votes = [election.votes EXCEPT ![n] = c]]
    BY <1>1 DEF VElections
  <2>2. [election.votes EXCEPT ![n] = c] \in [Nodes -> Nodes \cup {NoNode}]
    BY <1>1 DEF VElections
  <2> QED
    BY <1>1, <2>1, <2>2 DEF VElections
<1>3. election' = e \/ election' = election
  BY DEF AddVote
<1> HIDE DEF e
<1> QED
  BY <1>1, <1>2, <1>3

\* A conclusion changes neither the id of the election nor its votes.
LEMMA Concluded ==
  ASSUME VTypes, NEW result \in Results, Conclude(result)
  PROVE  election' \in VElections /\ election'.id = election.id /\ election'.result = result
BY DEF VTypes, VElections, Conclude

\* check_election decides under the election's lock, by the votes and the
\* quorum of that moment; the leader follows in a second step.
LEMMA CheckWonStays == ASSUME VoteInv, NEW t \in Threads, NEW c \in Nodes, CheckWon(t, c) PROVE VoteInv'
<1>0. VTypes /\ Victories /\ Elected /\ FreshId /\ Decided
  BY DEF VoteInv
<1>1. /\ vpc[t] = "idle" /\ election.result = "None" /\ c \in Winners(election, QuorumSize) /\ Conclude("Won")
      /\ won' = won \cup {Victory(c)} /\ VKeep(t, election.id, election.term, c) /\ VGoto(t, "check_leader")
      /\ UNCHANGED <<members, term, leader, nextId, started, setBack>>
  BY DEF CheckWon, memberVars
<1>2. election' \in VElections /\ election'.id = election.id /\ election'.result = "Won"
  BY <1>0, <1>1, Concluded DEF Results
<1>3. election.id \in Nat /\ election.term \in Nat
  BY <1>0 DEF VTypes, VElections
<1>4. /\ vpc' \in [Threads -> VLabels] /\ vloc' \in [Threads -> VLocals] /\ vpc'[t] = "check_leader" /\ vloc'[t].node = c
      /\ \A u \in Threads \ {t} : vpc'[u] = vpc[u] /\ vloc'[u] = vloc[u]
  BY <1>0, <1>1, <1>3, VMoved DEF VLabels
<1> DEFINE v == Victory(c)
<1>5. /\ v.id = election.id /\ v.leader = c /\ v.of = members /\ v.quorum = QuorumOf(v.of)
      /\ v.voters \subseteq Nodes /\ Cardinality(v.voters) >= v.quorum
  BY <1>1 DEF Victory, QuorumSize, QuorumOf, Winners, Supporters
<1>6. won' = won \cup {v}
  BY <1>1
<1> HIDE DEF v
<1>7. VTypes'
  BY <1>0, <1>1, <1>2, <1>4 DEF VTypes
<1>8. Victories'
  BY <1>0, <1>5, <1>6 DEF Victories, VTypes
<1>9. Elected'
  <2>1. \A n : Leads(n) \/ n = c => \E w \in won' : w.leader = n
    BY <1>5, <1>6 DEF Leads
  <2>2. leader' # NoNode => \E w \in won' : w.leader = leader'
    BY <1>0, <1>1, <2>1 DEF Elected
  <2>3. \A u \in Threads : vpc'[u] = "check_leader" => \E w \in won' : w.leader = vloc'[u].node
    BY <1>0, <1>4, <2>1 DEF Elected
  <2> QED
    BY <2>2, <2>3 DEF Elected, Leads
<1>10. FreshId'
  <2>1. \A u \in Threads : Starting(u)' => Starting(u) /\ vloc'[u] = vloc[u]
    BY <1>4 DEF Starting
  <2> QED
    BY <1>0, <1>1, <1>2, <1>5, <1>6, <2>1 DEF FreshId
<1>11. Decided'
  <2>1. \A w \in won : w.id # election.id
    BY <1>0, <1>1 DEF Decided
  <2> QED
    BY <1>0, <1>1, <1>2, <1>3, <1>5, <1>6, <2>1 DEF Decided
<1>12. FreshTerm => FreshTerm'
  BY <1>1, <1>4 DEF FreshTerm
<1> QED
  BY <1>1, <1>7, <1>8, <1>9, <1>10, <1>11, <1>12 DEF VoteInv

\* A thread goes on with a vote or a term of its own; nothing is decided.
LEMMA VQuiet ==
  ASSUME VoteInv, NEW t \in Threads, NEW label \in VLabels \ {"start_term", "start_set", "check_leader"},
         NEW id \in Nat, NEW tm \in Nat, NEW node \in Nodes \cup {NoNode}, VGoto(t, label), VKeep(t, id, tm, node),
         UNCHANGED <<members, election, leader, nextId, started, won>>, term' \in Nat, setBack' \in BOOLEAN,
         ~setBack' => ~setBack /\ term <= term'
  PROVE  VoteInv'
<1>0. VTypes /\ Victories /\ Elected /\ FreshId /\ Decided
  BY DEF VoteInv
<1>1. /\ vpc' \in [Threads -> VLabels] /\ vloc' \in [Threads -> VLocals] /\ vpc'[t] = label
      /\ \A u \in Threads \ {t} : vpc'[u] = vpc[u] /\ vloc'[u] = vloc[u]
  BY <1>0, VMoved
<1>2. VTypes' /\ Victories' /\ Elected' /\ Decided'
  BY <1>0, <1>1 DEF VTypes, Victories, Elected, Leads, Decided
<1>3. FreshId'
  <2>1. \A u \in Threads : Starting(u)' => Starting(u) /\ vloc'[u] = vloc[u]
    BY <1>1 DEF Starting
  <2> QED
    BY <1>0, <2>1 DEF FreshId
<1>4. ASSUME ~setBack' PROVE FreshTerm'
  <2>1. FreshTerm /\ term \in Nat
    BY <1>0, <1>4 DEF VoteInv, VTypes
  <2>2. (\A e \in started : e[2] \in Nat) /\ \A u \in Threads : vloc[u].term \in Nat
    BY <1>0 DEF VTypes, VLocals
  <2>3. \A u \in Threads : vpc'[u] = "start_set" => u # t /\ vpc[u] = "start_set" /\ vloc'[u] = vloc[u]
    BY <1>1
  <2>4. (\A e \in started : e[2] <= term') /\ \A u \in Threads : vpc[u] = "start_set" => vloc[u].term <= term'
    BY <1>4, <2>1, <2>2 DEF FreshTerm
  <2> QED
    BY <2>1, <2>3, <2>4 DEF FreshTerm
<1> QED
  BY <1>2, <1>3, <1>4 DEF VoteInv

\* Every step keeps the invariant, one case per action.
LEMMA VotePreserved == ASSUME VoteInv, [VoteNext]_voteVars PROVE VoteInv'
<1>0. VTypes
  BY DEF VoteInv
<1>1. CASE UNCHANGED voteVars
  <2>1. UNCHANGED <<members, election, term, leader, nextId, vpc, vloc, started, won, setBack>>
    BY <1>1 DEF voteVars, memberVars, trackerVars
  <2> QED
    BY <1>0, <2>1, VerdictStays DEF VTypes
<1>2. ASSUME NEW t \in Threads, StartClear(t) \/ AcceptClear(t) \/ CheckLeader(t) PROVE VoteInv'
  <2>1. /\ VReturn(t) /\ UNCHANGED <<members, term, nextId, started, setBack, won, election>>
        /\ leader' # NoNode => Leads(leader')
    BY <1>2 DEF StartClear, AcceptClear, CheckLeader, memberVars, VoteInv, Elected
  <2> QED
    BY <1>0, <2>1, VReturns DEF VTypes
<1>3. ASSUME NEW t \in Threads, SelfVoteCast(t) PROVE VoteInv'
  <2>1. /\ VReturn(t) /\ AddVote(vloc[t].id, vloc[t].term, Self, Self) /\ vpc[t] = "self_cast"
        /\ UNCHANGED <<members, term, leader, nextId, started, won, setBack>>
    BY <1>3 DEF SelfVoteCast, memberVars
  <2>2. election' \in VElections /\ election'.id = election.id /\ election'.result = election.result
    BY <1>0, <2>1, VoteAdded, ClusterConstants
  <2>3. leader' # NoNode => Leads(leader')
    BY <2>1 DEF VoteInv, Elected
  <2> QED
    BY <2>1, <2>2, <2>3, VReturns
<1>4. ASSUME NEW n \in Voters, NEW c \in Candidates, CastVote(n, c) PROVE VoteInv'
  <2>1. PICK e \in started : AddVote(e[1], e[2], n, c)
    BY <1>4 DEF CastVote
  <2>2. n \in Nodes /\ c \in Nodes
    BY ClusterConstants, VoteConstants
  <2>3. election' \in VElections /\ election'.id = election.id /\ election'.result = election.result
    BY <1>0, <2>1, <2>2, VoteAdded
  <2> QED
    BY <1>4, <2>3, VerdictStays DEF CastVote, memberVars
<1>5. CASE CheckTimeout \/ CheckSplit
  <2>1. PICK result \in {"Timeout", "Split"} : Conclude(result)
    BY <1>5 DEF CheckTimeout, CheckSplit
  <2>2. election' \in VElections /\ election'.id = election.id /\ election'.result = result
    BY <1>0, <2>1, Concluded DEF Results
  <2>3. UNCHANGED <<members, term, leader, nextId, vpc, vloc, started, won, setBack>>
    BY <1>5 DEF CheckTimeout, CheckSplit, memberVars
  <2> QED
    BY <2>2, <2>3, VerdictStays
<1>6. ASSUME NEW t \in Threads, SelfVoteRead(t) PROVE VoteInv'
  <2>1. election.id \in Nat /\ election.term \in Nat /\ term \in Nat /\ setBack \in BOOLEAN /\ Self \in Nodes
    BY <1>0, ClusterConstants DEF VTypes, VElections
  <2>2. /\ VGoto(t, "self_cast") /\ VKeep(t, election.id, election.term, Self)
        /\ UNCHANGED <<members, election, leader, nextId, started, won, term, setBack>>
    BY <1>6 DEF SelfVoteRead, memberVars, trackerVars
  <2>3. "self_cast" \in VLabels \ {"start_term", "start_set", "check_leader"}
    BY DEF VLabels
  <2> QED
    BY <2>1, <2>2, <2>3, VQuiet
<1>7. ASSUME NEW t \in Threads, NEW tm \in RemoteTerms, AcceptLoad(t, tm) PROVE VoteInv'
  <2>1. term \in Nat /\ setBack \in BOOLEAN /\ tm \in Nat /\ 0 \in Nat
    BY <1>0, VoteConstants DEF VTypes
  <2>2. /\ VGoto(t, "accept_store") /\ VKeep(t, 0, tm, NoNode)
        /\ UNCHANGED <<members, election, leader, nextId, started, won, term, setBack>>
    BY <1>7 DEF AcceptLoad, memberVars, trackerVars
  <2>3. "accept_store" \in VLabels \ {"start_term", "start_set", "check_leader"}
    BY DEF VLabels
  <2> QED
    BY <2>1, <2>2, <2>3, VQuiet
<1>8. ASSUME NEW t \in Threads, AcceptStore(t) PROVE VoteInv'
  <2>1. term \in Nat /\ setBack \in BOOLEAN /\ vloc[t] \in VLocals
    BY <1>0 DEF VTypes
  <2>2. /\ VGoto(t, "accept_clear") /\ UNCHANGED <<members, election, leader, nextId, started, won, vloc>>
        /\ term' = vloc[t].term /\ setBack' = (setBack \/ vloc[t].term < term)
    BY <1>8 DEF AcceptStore, memberVars, trackerVars
  <2>3. "accept_clear" \in VLabels \ {"start_term", "start_set", "check_leader"}
    BY DEF VLabels
  <2>4. vloc[t].id \in Nat /\ vloc[t].term \in Nat /\ vloc[t].node \in Nodes \cup {NoNode}
    BY <2>1 DEF VLocals
  <2>5. VKeep(t, vloc[t].id, vloc[t].term, vloc[t].node)
    <3>1. [id |-> vloc[t].id, term |-> vloc[t].term, node |-> vloc[t].node] = vloc[t]
      BY <2>1 DEF VLocals
    <3> QED
      BY <1>0, <2>2, <3>1 DEF VKeep, VTypes
  <2>6. setBack' \in BOOLEAN /\ (~setBack' => ~setBack /\ ~(vloc[t].term < term))
    BY <2>2
  <2> QED
    BY <2>1, <2>2, <2>3, <2>4, <2>5, <2>6, VQuiet
<1>9. CASE Membership
  <2>1. members' \subseteq Nodes /\ UNCHANGED <<election, term, leader, nextId, vpc, vloc, started, won, setBack>>
    BY <1>0, <1>9 DEF Membership, RegisterNode, RemoveNode, Heartbeat, MarkUnreachable, VTypes, trackerVars
  <2> QED
    BY <2>1 DEF VoteInv, VTypes, Victories, Elected, Leads, FreshId, Decided, FreshTerm, Starting
<1> QED
  BY <1>1, <1>2, <1>3, <1>4, <1>5, <1>6, <1>7, <1>8, <1>9, StartIdStays, StartTermStays, StartSetStays, CheckWonStays
  DEF VoteNext, VoteStep

\* For any number of nodes, threads and elections, while members come and go:
\* a leader was voted for by a quorum, and two elections among the same
\* members, decided by their votes, share a voter, when a fixed quorum is a
\* majority of the nodes (check_election, quorum_size).
THEOREM LeadersElected == ASSUME MajorityQuorum PROVE VoteSpec => []LeaderHasQuorum
<1>1. VoteInv => LeaderHasQuorum
  <2> SUFFICES ASSUME VoteInv PROVE LeaderHasQuorum
    OBVIOUS
  <2>0. Victories /\ Elected
    BY DEF VoteInv
  <2>1. leader # NoNode => \E w \in won : w.leader = leader /\ Cardinality(w.voters) >= w.quorum
    BY <2>0 DEF Elected, Leads, Victories
  <2>2. ASSUME NEW v \in won, NEW w \in won, v.of = w.of, v.voters \cup w.voters \subseteq v.of
        PROVE  v.voters \cap w.voters # {}
    <3>1. /\ v.of \subseteq Nodes /\ v.quorum = QuorumOf(v.of) /\ w.quorum = QuorumOf(v.of)
          /\ Cardinality(v.voters) >= v.quorum /\ Cardinality(w.voters) >= w.quorum
      BY <2>0, <2>2 DEF Victories
    <3>2. /\ IsFiniteSet(v.of) /\ Cardinality(v.of) <= Cardinality(Nodes) /\ Cardinality(v.of) \in Nat
          /\ Cardinality(Nodes) \in Nat
      BY <3>1, FS_Subset, FS_CardinalityType, ClusterConstants
    <3>3. Cardinality(v.voters) \in Nat /\ Cardinality(w.voters) \in Nat
      BY <2>2, <3>2, FS_Subset, FS_CardinalityType
    <3>4. 2 * QuorumOf(v.of) > Cardinality(v.of) /\ QuorumOf(v.of) \in Nat
      BY <3>2, ClusterConstants DEF QuorumOf, MajorityQuorum
    <3>5. Cardinality(v.voters) + Cardinality(w.voters) > Cardinality(v.of)
      BY <3>1, <3>2, <3>3, <3>4
    <3> QED
      BY <2>2, <3>2, <3>5, FS_MajoritiesIntersect
  <2> QED
    BY <2>1, <2>2 DEF LeaderHasQuorum
<1> QED
  BY <1>1, VoteInitial, VotePreserved, PTL DEF VoteSpec

\* For any number of nodes, threads and elections: an election names one
\* leader, and as long as accept_term overwrites no newer term no two
\* elections share a term (start_election, check_election, accept_term).
THEOREM WinnersUnique == VoteSpec => []OneWinnerPerElection
<1>1. VoteInv => OneWinnerPerElection
  BY DEF VoteInv, OneWinnerPerElection, Decided, FreshTerm, VTypes
<1> QED
  BY <1>1, VoteInitial, VotePreserved, PTL DEF VoteSpec

-----------------------------------------------------------------------------
(* The split-brain detector *)

BLabels == {"idle", "success_tracker", "healing", "check", "check_decide"}

BTypes ==
  /\ fails \in [Monitored -> Nat] /\ Monitored \subseteq Nodes \ {Self}
  /\ bpc \in [Threads -> BLabels] /\ bloc \in [Threads -> SUBSET Nodes]
  /\ churned \in BOOLEAN
  /\ bmembers = Members /\ breachable \subseteq Members /\ Self \in breachable

\* The write lock of partition_info is held from one pass over the records to the other.
OneDecides == \A t \in Threads : bpc[t] = "check_decide" => infoGuard = t

Checking == \E t \in Threads : bpc[t] = "check"
FoundSome == \E t \in Threads : bpc[t] = "check_decide" /\ bloc[t] # {}

\* A node with three failures in a row is known, or a check is still to come.
Noticed ==
  \A n \in Monitored : fails[n] >= ResponsiveLimit =>
    /\ info.state # "Healthy" \/ Checking \/ FoundSome
    /\ \A t \in Threads : bpc[t] = "check_decide" => n \in bloc[t] \/ Checking

DetectorInv == BTypes /\ OneDecides /\ Noticed

\* What a step of one thread leaves of the others.
LEMMA BMoved ==
  ASSUME BTypes, NEW t \in Threads, NEW label \in BLabels, NEW ns \in SUBSET Nodes, BGoto(t, label, ns)
  PROVE  /\ bpc' \in [Threads -> BLabels] /\ bloc' \in [Threads -> SUBSET Nodes]
         /\ bpc'[t] = label /\ bloc'[t] = ns
         /\ \A u \in Threads \ {t} : bpc'[u] = bpc[u] /\ bloc'[u] = bloc[u]
BY DEF BGoto, BTypes

\* No node has failed at the start.
LEMMA DetectorInitial == DetectorInit => DetectorInv
<1> SUFFICES ASSUME DetectorInit PROVE DetectorInv
  OBVIOUS
<1>1. fails = [n \in Members \ {Self} |-> 0] /\ Monitored = Members \ {Self} /\ \A n \in Monitored : fails[n] = 0
  BY DEF DetectorInit, Monitored
<1>2. bmembers = Members /\ breachable = Members /\ churned = FALSE /\ (\A t \in Threads : bpc[t] = "idle")
  BY DEF DetectorInit, Tracked!ClusterInit
<1>3. bpc \in [Threads -> BLabels] /\ bloc \in [Threads -> SUBSET Nodes]
  BY DEF DetectorInit, BLabels
<1>4. fails \in [Monitored -> Nat] /\ Monitored \subseteq Nodes \ {Self}
  BY <1>1, ClusterConstants
<1>5. BTypes
  BY <1>2, <1>3, <1>4, DetectorConstants DEF BTypes
<1> QED
  BY <1>1, <1>2, <1>5 DEF DetectorInv, OneDecides, Noticed, ResponsiveLimit

\* What a failure that is recorded leaves: the count only grows.
LEMMA FailureCounted ==
  ASSUME BTypes, NEW t \in Threads, NEW n \in Nodes \ {Self}, FailureRecord(t, n)
  PROVE  /\ n \in Monitored /\ DOMAIN fails' = Monitored /\ fails' \in [Monitored -> Nat]
         /\ \A m \in Monitored \ {n} : fails'[m] = fails[m]
         /\ fails[n] < FailureThreshold \/ fails'[n] >= FailureThreshold
         /\ \/ breachable' = breachable
            \/ breachable' = breachable \ {n} /\ fails'[n] >= FailureThreshold
         /\ bmembers' = bmembers
<1> DEFINE count == IF fails[n] < FailCap THEN fails[n] + 1 ELSE FailCap
<1>1. FailCap \in Nat /\ FailCap >= FailureThreshold /\ FailureThreshold \in Nat
  BY DetectorConstants DEF FailCap, ResponsiveLimit
<1>2. n \in Monitored /\ fails[n] \in Nat
  BY DEF FailureRecord, BTypes
<1>3. count \in Nat /\ (fails[n] >= FailureThreshold => count >= FailureThreshold)
  BY <1>1, <1>2
<1>4. /\ fails' = [fails EXCEPT ![n] = count]
      /\ IF count >= FailureThreshold THEN Tracked!MarkUnreachable(n) ELSE UNCHANGED tracked
  BY DEF FailureRecord
<1> HIDE DEF count
<1>5. fails'[n] = count /\ DOMAIN fails' = Monitored /\ fails' \in [Monitored -> Nat] /\ \A m \in Monitored \ {n} : fails'[m] = fails[m]
  BY <1>2, <1>3, <1>4 DEF BTypes, Monitored
<1> QED
  BY <1>1, <1>2, <1>3, <1>4, <1>5 DEF Tracked!MarkUnreachable, tracked

\* heartbeat_failure counts the failure and goes on to check_partition, which
\* will see it.
LEMMA FailureStays ==
  ASSUME DetectorInv, NEW t \in Threads, NEW n \in Nodes \ {Self}, FailureRecord(t, n)
  PROVE  DetectorInv'
<1>0. BTypes /\ OneDecides /\ Noticed
  BY DEF DetectorInv
<1>1. bpc[t] = "idle" /\ BGoto(t, "check", {}) /\ UNCHANGED <<churned, info, infoGuard>>
  BY DEF FailureRecord
<1>2. /\ bpc' \in [Threads -> BLabels] /\ bloc' \in [Threads -> SUBSET Nodes] /\ bpc'[t] = "check"
      /\ \A u \in Threads \ {t} : bpc'[u] = bpc[u] /\ bloc'[u] = bloc[u]
  BY <1>0, <1>1, BMoved DEF BLabels
<1>3. /\ DOMAIN fails' = Monitored /\ fails' \in [Monitored -> Nat] /\ bmembers' = bmembers
      /\ breachable' \subseteq breachable /\ (Self \in breachable => Self \in breachable')
  BY <1>0, FailureCounted
<1>4. BTypes'
  BY <1>0, <1>1, <1>2, <1>3 DEF BTypes, Monitored
<1>5. OneDecides'
  BY <1>0, <1>1, <1>2 DEF OneDecides
<1>6. Checking'
  BY <1>2 DEF Checking
<1>7. Noticed'
  BY <1>6 DEF Noticed
<1> QED
  BY <1>4, <1>5, <1>7 DEF DetectorInv

\* heartbeat_success sets the node's count of failures to zero and no other.
LEMMA SuccessRecorded ==
  ASSUME BTypes, NEW t \in Threads, NEW n \in Nodes \ {Self}, SuccessRecord(t, n)
  PROVE  /\ DOMAIN fails' = Monitored /\ fails' \in [Monitored -> Nat]
         /\ \A m \in Monitored \ {n} : fails'[m] = fails[m]
         /\ n \in Monitored => fails'[n] = 0
BY DEF SuccessRecord, BTypes, Monitored

\* heartbeat_success leaves one node less to be noticed.
LEMMA SuccessStays ==
  ASSUME DetectorInv, NEW t \in Threads, NEW n \in Nodes \ {Self}, SuccessRecord(t, n)
  PROVE  DetectorInv'
<1>0. BTypes /\ OneDecides /\ Noticed
  BY DEF DetectorInv
<1>1. bpc[t] = "idle" /\ BGoto(t, "success_tracker", {n}) /\ UNCHANGED <<bmembers, breachable, churned, info, infoGuard>>
  BY DEF SuccessRecord, tracked
<1>2. /\ bpc' \in [Threads -> BLabels] /\ bloc' \in [Threads -> SUBSET Nodes] /\ bpc'[t] = "success_tracker"
      /\ \A u \in Threads \ {t} : bpc'[u] = bpc[u] /\ bloc'[u] = bloc[u]
  BY <1>0, <1>1, BMoved DEF BLabels
<1>3. /\ Monitored' = Monitored /\ fails' \in [Monitored -> Nat] /\ (n \in Monitored => fails'[n] = 0)
      /\ \A m \in Monitored \ {n} : fails'[m] = fails[m]
  BY <1>0, SuccessRecorded DEF Monitored
<1>4. BTypes'
  BY <1>0, <1>1, <1>2, <1>3 DEF BTypes
<1>5. OneDecides'
  BY <1>0, <1>1, <1>2 DEF OneDecides
<1>6. (Checking => Checking') /\ (FoundSome => FoundSome')
  BY <1>1, <1>2 DEF Checking, FoundSome
<1>7. Noticed'
  <2> SUFFICES ASSUME NEW m \in Monitored, fails'[m] >= ResponsiveLimit
               PROVE  /\ info.state # "Healthy" \/ Checking' \/ FoundSome'
                      /\ \A u \in Threads : bpc'[u] = "check_decide" => m \in bloc'[u] \/ Checking'
    BY <1>1, <1>3 DEF Noticed
  <2>1. m # n /\ fails[m] >= ResponsiveLimit
    BY <1>3 DEF ResponsiveLimit
  <2> QED
    BY <1>0, <1>1, <1>2, <1>6, <2>1 DEF Noticed
<1> QED
  BY <1>4, <1>5, <1>7 DEF DetectorInv

\* A step of a thread between the records: it is none of the two passes.
LEMMA BQuiet ==
  ASSUME DetectorInv, NEW t \in Threads, NEW label \in BLabels \ {"check_decide"}, NEW ns \in SUBSET Nodes,
         BGoto(t, label, ns), bpc[t] \notin {"check", "check_decide"},
         UNCHANGED <<fails, churned, bmembers, infoGuard>>, breachable' \subseteq Members, Self \in breachable',
         info.state # "Healthy" => info'.state # "Healthy"
  PROVE  DetectorInv'
<1>0. BTypes /\ OneDecides /\ Noticed
  BY DEF DetectorInv
<1>1. /\ bpc' \in [Threads -> BLabels] /\ bloc' \in [Threads -> SUBSET Nodes] /\ bpc'[t] = label
      /\ \A u \in Threads \ {t} : bpc'[u] = bpc[u] /\ bloc'[u] = bloc[u]
  BY <1>0, BMoved
<1>2. BTypes' /\ OneDecides'
  BY <1>0, <1>1 DEF BTypes, OneDecides, Monitored
<1>3. (Checking => Checking') /\ (FoundSome => FoundSome')
  BY <1>1 DEF Checking, FoundSome
<1>4. Noticed'
  BY <1>0, <1>1, <1>3 DEF Noticed, Monitored
<1> QED
  BY <1>2, <1>4 DEF DetectorInv

\* check_partition takes the lock of partition_info and collects the nodes at
\* the limit.
LEMMA CollectStays == ASSUME DetectorInv, NEW t \in Threads, CheckCollect(t) PROVE DetectorInv'
<1>0. BTypes /\ OneDecides /\ Noticed
  BY DEF DetectorInv
<1> DEFINE found == Monitored \ Responsive
<1>1. /\ infoGuard = NoThread /\ infoGuard' = t /\ BGoto(t, "check_decide", found)
      /\ UNCHANGED <<bmembers, breachable, info, fails, churned>>
  BY DEF CheckCollect, tracked, recordVars
<1>2. /\ bpc' \in [Threads -> BLabels] /\ bloc' \in [Threads -> SUBSET Nodes] /\ bpc'[t] = "check_decide" /\ bloc'[t] = found
      /\ \A u \in Threads \ {t} : bpc'[u] = bpc[u] /\ bloc'[u] = bloc[u]
  <2>1. found \in SUBSET Nodes /\ "check_decide" \in BLabels
    BY <1>0 DEF BTypes, BLabels
  <2> HIDE DEF found
  <2> QED
    BY <1>0, <1>1, <2>1, BMoved
<1>3. \A u \in Threads : bpc[u] # "check_decide"
  BY <1>0, <1>1, DetectorConstants DEF OneDecides
<1>4. BTypes' /\ OneDecides'
  BY <1>0, <1>1, <1>2, <1>3 DEF BTypes, OneDecides, Monitored
<1>5. \A n \in Monitored : fails[n] >= ResponsiveLimit => n \in found
  BY <1>0 DEF Responsive, BTypes, ResponsiveLimit
<1> HIDE DEF found
<1>6. Noticed'
  <2> SUFFICES ASSUME NEW n \in Monitored, fails[n] >= ResponsiveLimit
               PROVE  FoundSome' /\ \A u \in Threads : bpc'[u] = "check_decide" => n \in bloc'[u]
    BY <1>1 DEF Noticed, Monitored
  <2> QED
    BY <1>2, <1>3, <1>5 DEF FoundSome
<1> QED
  BY <1>4, <1>6 DEF DetectorInv

\* check_partition writes what it collected and releases the lock; a failure
\* since then has a check of its own.
LEMMA DecideStays == ASSUME DetectorInv, NEW t \in Threads, CheckDecide(t) PROVE DetectorInv'
<1>0. BTypes /\ OneDecides /\ Noticed
  BY DEF DetectorInv
<1>1. /\ bpc[t] = "check_decide" /\ BGoto(t, "idle", {}) /\ UNCHANGED <<bmembers, breachable, fails, churned>>
      /\ infoGuard' = NoThread
  BY DEF CheckDecide, tracked, recordVars
<1>2. /\ bpc' \in [Threads -> BLabels] /\ bloc' \in [Threads -> SUBSET Nodes] /\ bpc'[t] = "idle"
      /\ \A u \in Threads \ {t} : bpc'[u] = bpc[u] /\ bloc'[u] = bloc[u]
  BY <1>0, <1>1, BMoved DEF BLabels
<1>3. \A u \in Threads : bpc'[u] # "check_decide"
  BY <1>0, <1>1, <1>2 DEF OneDecides
<1>4. BTypes' /\ OneDecides'
  BY <1>0, <1>1, <1>2, <1>3 DEF BTypes, OneDecides, Monitored
<1>5. Checking => Checking'
  BY <1>1, <1>2 DEF Checking
<1>6. Noticed'
  <2> SUFFICES ASSUME NEW n \in Monitored, fails[n] >= ResponsiveLimit
               PROVE  info'.state # "Healthy" \/ Checking'
    BY <1>1, <1>3 DEF Noticed, Monitored
  <2>1. CASE bloc[t] = {}
    BY <1>0, <1>1, <1>5, <2>1 DEF Noticed
  <2>2. CASE bloc[t] # {}
    BY <2>2 DEF CheckDecide, DecidePartitioned
  <2> QED
    BY <2>1, <2>2
<1> QED
  BY <1>4, <1>6 DEF DetectorInv

\* Nodes that are registered start without failures, others lose their record.
LEMMA ChurnStays ==
  ASSUME DetectorInv, NEW n \in Nodes \ {Self}, Unmonitor(n) \/ \E d \in Domains : Monitor(n, d)
  PROVE  DetectorInv' /\ churned'
<1>0. BTypes /\ OneDecides /\ Noticed
  BY DEF DetectorInv
<1>1. UNCHANGED <<bmembers, breachable, info, infoGuard, bpc, bloc>> /\ churned' = TRUE
  BY DEF Monitor, Unmonitor, tracked
<1>2. /\ fails' \in [Monitored' -> Nat] /\ Monitored' \subseteq Monitored \cup {n}
      /\ \A m \in Monitored' : fails'[m] = 0 \/ (m \in Monitored /\ fails'[m] = fails[m])
  <2>1. CASE Unmonitor(n)
    BY <1>0, <2>1 DEF Unmonitor, BTypes, Monitored
  <2>2. ASSUME NEW d \in Domains, Monitor(n, d)
        PROVE  /\ fails' \in [Monitored' -> Nat] /\ Monitored' \subseteq Monitored \cup {n}
               /\ \A m \in Monitored' : fails'[m] = 0 \/ (m \in Monitored /\ fails'[m] = fails[m])
    BY <1>0, <2>2 DEF Monitor, BTypes, Monitored
  <2> QED
    BY <2>1, <2>2
<1>3. BTypes' /\ OneDecides'
  BY <1>0, <1>1, <1>2 DEF BTypes, OneDecides
<1>4. (Checking' <=> Checking) /\ (FoundSome' <=> FoundSome)
  BY <1>1 DEF Checking, FoundSome
<1>5. Noticed'
  BY <1>0, <1>1, <1>2, <1>4 DEF Noticed, ResponsiveLimit
<1> QED
  BY <1>1, <1>3, <1>5 DEF DetectorInv

\* heartbeat_success tells the vote tracker of the node and changes nothing
\* else.
LEMMA TrackerFacts ==
  ASSUME BTypes, NEW t \in Threads, SuccessTracker(t)
  PROVE  /\ bpc[t] = "success_tracker" /\ BGoto(t, "healing", {}) /\ UNCHANGED <<bmembers, info, infoGuard, fails, churned>>
         /\ \E n \in bloc[t] : breachable' = breachable \cup ({n} \cap Members)
BY DEF SuccessTracker, Tracked!Heartbeat, recordVars, BTypes

\* Every step keeps the invariant, one case per action.
LEMMA DetectorPreserved == ASSUME DetectorInv, [DetectorNext]_detectorVars PROVE DetectorInv'
<1>0. BTypes
  BY DEF DetectorInv
<1>l. {"idle", "healing", "check"} \subseteq BLabels \ {"check_decide"} /\ {} \in SUBSET Nodes
  BY DEF BLabels
<1>1. ASSUME UNCHANGED <<bmembers, breachable, fails, churned, info, infoGuard, bpc, bloc>> PROVE DetectorInv'
  BY <1>1 DEF DetectorInv, BTypes, OneDecides, Noticed, Checking, FoundSome, Monitored
<1>2. CASE UNCHANGED detectorVars
  BY <1>1, <1>2 DEF detectorVars, tracked, recordVars
<1>3. ASSUME NEW n \in Nodes \ {Self}, FallSilent(n) PROVE DetectorInv'
  BY <1>1, <1>3 DEF FallSilent, tracked
<1>4. ASSUME NEW t \in Threads, SuccessTracker(t) PROVE DetectorInv'
  <2>1. breachable' \subseteq Members /\ Self \in breachable'
    BY <1>0, <1>4, TrackerFacts DEF BTypes
  <2> QED
    BY <1>0, <1>4, <1>l, <2>1, TrackerFacts, BQuiet
<1>5. ASSUME NEW t \in Threads, CheckHealing(t) PROVE DetectorInv'
  <2>1. /\ bpc[t] = "healing" /\ BGoto(t, "idle", {}) /\ UNCHANGED <<bmembers, breachable, infoGuard, fails, churned>>
        /\ info' = IF info.state = "Confirmed" /\ info.others \cap Responsive # {} THEN [info EXCEPT !.state = "Healing"] ELSE info
    BY <1>5 DEF CheckHealing, tracked, recordVars
  <2>2. info.state # "Healthy" => info'.state # "Healthy"
    BY <2>1
  <2> QED
    BY <1>0, <1>l, <2>1, <2>2, BQuiet DEF BTypes
<1>6. ASSUME NEW t \in Threads, CheckCall(t) PROVE DetectorInv'
  <2>1. bpc[t] = "idle" /\ BGoto(t, "check", {}) /\ UNCHANGED <<bmembers, breachable, info, infoGuard, fails, churned>>
    BY <1>6 DEF CheckCall, tracked, recordVars
  <2> QED
    BY <1>0, <1>l, <2>1, BQuiet DEF BTypes
<1> QED
  BY <1>2, <1>3, <1>4, <1>5, <1>6, SuccessStays, FailureStays, CollectStays, DecideStays, ChurnStays DEF DetectorNext, DetectorStep

\* For any number of nodes and reporting threads: when every report has been
\* handled, a node with ResponsiveLimit failures in a row leaves the detector
\* out of Healthy (heartbeat_failure, check_partition).
THEOREM PartitionsNoticed == DetectorSpec => []NoMissedPartition
<1>1. DetectorInv => NoMissedPartition
  BY DEF DetectorInv, NoMissedPartition, Noticed, Checking, FoundSome, BBusy
<1> QED
  BY <1>1, DetectorInitial, DetectorPreserved, PTL DEF DetectorSpec

-----------------------------------------------------------------------------
\* The configuration is sound: a node is unreachable for the tracker no earlier than
\* unresponsive for the detector, and the cluster can reach its fixed quorum.
SoundThresholds == FailureThreshold >= ResponsiveLimit /\ FixedQuorum <= Cardinality(Members)

\* A heartbeat of the node is on its way to the tracker.
Answered(n) == \E t \in Threads : bpc[t] = "success_tracker" /\ bloc[t] = {n}

\* The tracker only misses nodes that failed often enough or have just answered.
Missing ==
  /\ Monitored = Members \ {Self}
  /\ \A n \in Members \ breachable : fails[n] >= FailureThreshold \/ Answered(n)

\* A quorum that is lost is noticed by a check to come, or about to be regained.
Rechecked ==
  (info.quorum /\ ~Tracked!HasQuorum) =>
    Checking \/ FoundSome \/ \A n \in Members \ breachable : Answered(n)

OneAnswer == \A t \in Threads : bpc[t] = "success_tracker" => \E n : bloc[t] = {n}

QuorumInv == OneAnswer /\ (~churned => Missing /\ Rechecked)

\* Every member is reachable at the start.
LEMMA QuorumInitial == DetectorInit => QuorumInv
<1> SUFFICES ASSUME DetectorInit PROVE QuorumInv
  OBVIOUS
<1>1. Monitored = Members \ {Self} /\ breachable = Members /\ \A t \in Threads : bpc[t] = "idle"
  BY DEF DetectorInit, Tracked!ClusterInit, Monitored
<1> QED
  BY <1>1 DEF QuorumInv, OneAnswer, Missing, Rechecked

\* The quorum depends on nothing but the two sets of the tracker.
\* A majority of a nonempty cluster is no larger than the cluster.
LEMMA MajorityFits == \A c \in Nat : ((c \div 2) + 1) \in Nat /\ (c # 0 => (c \div 2) + 1 <= c)
OBVIOUS

\* The tracker counts its nodes as the detector does.
LEMMA SameCardinality == \A S : Tracked!Cardinality(S) = Cardinality(S)
BY Zenon DEF Cardinality, Tracked!Cardinality

\* The quorum is a number.
LEMMA QuorumNumber == Cardinality(bmembers) \in Nat => Tracked!QuorumSize \in Nat
<1> SUFFICES ASSUME Cardinality(bmembers) \in Nat PROVE Tracked!QuorumSize \in Nat
  OBVIOUS
<1>1. FixedQuorum \in Nat
  BY ClusterConstants
<1>2. ((Cardinality(bmembers) \div 2) + 1) \in Nat
  BY MajorityFits
<1> QED
  BY <1>1, <1>2, SameCardinality DEF Tracked!QuorumSize

\* More reachable nodes lose no quorum.
LEMMA QuorumGrows ==
  ASSUME bmembers' = bmembers, Cardinality(bmembers) \in Nat, Tracked!HasQuorum,
         Cardinality(breachable) \in Nat, Cardinality(breachable') \in Nat,
         Cardinality(breachable) <= Cardinality(breachable')
  PROVE  Tracked!HasQuorum'
<1>1. Tracked!QuorumSize' = Tracked!QuorumSize
  BY DEF Tracked!QuorumSize
<1>2. Tracked!QuorumSize \in Nat
  BY QuorumNumber
<1>3. Cardinality(breachable) >= Tracked!QuorumSize
  BY SameCardinality DEF Tracked!HasQuorum
<1>4. Cardinality(breachable') >= Tracked!QuorumSize
  BY <1>2, <1>3
<1> QED
  BY <1>1, <1>4, SameCardinality DEF Tracked!HasQuorum

\* A cluster whose members all answer has a quorum.
LEMMA FullQuorum ==
  ASSUME SoundThresholds, bmembers = Members, breachable = Members,
         Cardinality(Members) \in Nat, Cardinality(Members) # 0
  PROVE  Tracked!HasQuorum
<1>1. FixedQuorum \in Nat /\ FixedQuorum <= Cardinality(Members)
  BY ClusterConstants DEF SoundThresholds
<1>2. /\ ((Cardinality(Members) \div 2) + 1) \in Nat
      /\ (Cardinality(Members) \div 2) + 1 <= Cardinality(Members)
  BY MajorityFits
<1>3. Tracked!QuorumSize \in {FixedQuorum, (Cardinality(Members) \div 2) + 1}
  BY SameCardinality DEF Tracked!QuorumSize
<1>4. Cardinality(Members) >= Tracked!QuorumSize
  BY <1>1, <1>2, <1>3
<1> QED
  BY <1>4, SameCardinality DEF Tracked!HasQuorum

\* The quorum depends on the tracker's nodes alone.
LEMMA QuorumSame == UNCHANGED <<bmembers, breachable>> => (Tracked!HasQuorum' <=> Tracked!HasQuorum)
BY DEF Tracked!HasQuorum, Tracked!QuorumSize

\* Every step keeps what the recorded quorum claim rests on.
LEMMA QuorumPreserved ==
  ASSUME SoundThresholds, DetectorInv, QuorumInv, [DetectorNext]_detectorVars
  PROVE  QuorumInv'
<1>0. BTypes /\ OneDecides /\ OneAnswer
  BY DEF DetectorInv, QuorumInv
<1>l. {"idle", "healing", "check", "check_decide", "success_tracker"} \subseteq BLabels /\ {} \in SUBSET Nodes
  BY DEF BLabels
<1>1. ASSUME UNCHANGED <<bmembers, breachable, fails, churned, info, bpc, bloc>> PROVE QuorumInv'
  <2>1. (Checking' <=> Checking) /\ (FoundSome' <=> FoundSome) /\ (\A n : Answered(n)' <=> Answered(n))
    BY <1>1 DEF Checking, FoundSome, Answered
  <2> QED
    BY <1>1, <2>1, QuorumSame DEF QuorumInv, OneAnswer, Missing, Rechecked, Monitored
<1>2. CASE UNCHANGED detectorVars
  BY <1>1, <1>2 DEF detectorVars, tracked, recordVars
<1>3. ASSUME NEW n \in Nodes \ {Self}, FallSilent(n) PROVE QuorumInv'
  BY <1>1, <1>3 DEF FallSilent, tracked
<1>4. ASSUME NEW n \in Nodes \ {Self}, Unmonitor(n) \/ \E d \in Domains : Monitor(n, d) PROVE QuorumInv'
  <2>1. churned' /\ UNCHANGED <<bpc, bloc>>
    BY <1>4 DEF Monitor, Unmonitor
  <2> QED
    BY <1>0, <2>1 DEF QuorumInv, OneAnswer
<1>5. ASSUME NEW t \in Threads, NEW n \in Nodes \ {Self}, SuccessRecord(t, n) PROVE QuorumInv'
  <2>1. bpc[t] = "idle" /\ BGoto(t, "success_tracker", {n}) /\ UNCHANGED <<bmembers, breachable, churned, info>>
    BY <1>5 DEF SuccessRecord, tracked
  <2>2. /\ bpc'[t] = "success_tracker" /\ bloc'[t] = {n} /\ \A u \in Threads \ {t} : bpc'[u] = bpc[u] /\ bloc'[u] = bloc[u]
    BY <1>0, <1>l, <2>1, BMoved, {n} \in SUBSET Nodes
  <2>3. (Checking => Checking') /\ (FoundSome => FoundSome') /\ Answered(n)' /\ (\A m : Answered(m) => Answered(m)')
    BY <2>1, <2>2 DEF Checking, FoundSome, Answered
  <2>4. Monitored' = Monitored /\ \A m \in Monitored \ {n} : fails'[m] = fails[m]
    BY <1>0, <1>5, SuccessRecorded DEF Monitored
  <2>5. OneAnswer'
    BY <1>0, <2>2 DEF OneAnswer
  <2>6. Missing => Missing'
    <3> SUFFICES ASSUME Missing, NEW m \in Members \ breachable PROVE fails'[m] >= FailureThreshold \/ Answered(m)'
      BY <2>1, <2>4 DEF Missing
    <3>1. m \in Monitored
      BY <1>0 DEF Missing, BTypes
    <3> QED
      BY <2>3, <2>4, <3>1 DEF Missing
  <2>7. Rechecked => Rechecked'
    BY <2>1, <2>3, QuorumSame DEF Rechecked
  <2> QED
    BY <2>1, <2>5, <2>6, <2>7 DEF QuorumInv
<1>6. ASSUME NEW t \in Threads, NEW n \in Nodes \ {Self}, FailureRecord(t, n) PROVE QuorumInv'
  <2>1. bpc[t] = "idle" /\ BGoto(t, "check", {}) /\ UNCHANGED <<churned, info>>
    BY <1>6 DEF FailureRecord
  <2>2. /\ bpc'[t] = "check" /\ \A u \in Threads \ {t} : bpc'[u] = bpc[u] /\ bloc'[u] = bloc[u]
    BY <1>0, <1>l, <2>1, BMoved
  <2>3. Checking' /\ (\A m : Answered(m) => Answered(m)')
    BY <2>1, <2>2 DEF Checking, Answered
  <2>4. OneAnswer' /\ Rechecked'
    BY <1>0, <2>2, <2>3 DEF OneAnswer, Rechecked
  <2>5. Missing => Missing'
    <3> SUFFICES ASSUME Missing, NEW m \in Members \ breachable' PROVE fails'[m] >= FailureThreshold \/ Answered(m)'
      BY <1>0, <1>6, FailureCounted DEF Missing, Monitored
    <3>1. CASE m \notin breachable
      <4>1. m \in Monitored /\ (fails[m] >= FailureThreshold \/ Answered(m))
        BY <1>0, <3>1 DEF Missing, BTypes
      <4>2. fails[m] >= FailureThreshold => fails'[m] >= FailureThreshold
        BY <1>0, <1>6, <4>1, FailureCounted, DetectorConstants DEF BTypes
      <4> QED
        BY <2>3, <4>1, <4>2
    <3>2. CASE m \in breachable
      BY <1>0, <1>6, <3>2, FailureCounted
    <3> QED
      BY <3>1, <3>2
  <2> QED
    BY <2>1, <2>4, <2>5 DEF QuorumInv
<1>7. ASSUME NEW t \in Threads, SuccessTracker(t) PROVE QuorumInv'
  <2>1. bpc[t] = "success_tracker" /\ BGoto(t, "healing", {}) /\ UNCHANGED <<bmembers, info, fails, churned>>
    BY <1>0, <1>7, TrackerFacts
  <2>2. PICK n : bloc[t] = {n}
    BY <1>0, <2>1 DEF OneAnswer
  <2>3. breachable' = breachable \cup ({n} \cap Members)
    BY <1>0, <1>7, <2>2, TrackerFacts
  <2>4. /\ bpc'[t] = "healing" /\ \A u \in Threads \ {t} : bpc'[u] = bpc[u] /\ bloc'[u] = bloc[u]
    BY <1>0, <1>l, <2>1, BMoved
  <2>5. (Checking => Checking') /\ (FoundSome => FoundSome') /\ (\A m : m # n /\ Answered(m) => Answered(m)')
    BY <2>1, <2>2, <2>4 DEF Checking, FoundSome, Answered
  <2>6. OneAnswer'
    BY <1>0, <2>4 DEF OneAnswer
  <2>7. Missing => Missing'
    BY <2>1, <2>3, <2>5 DEF Missing, Monitored
  <2>8. Rechecked => Rechecked'
    <3>1. ASSUME Tracked!HasQuorum PROVE Tracked!HasQuorum'
      <4>1. IsFiniteSet(breachable') /\ breachable \subseteq breachable'
        BY <1>0, <2>3, ClusterConstants, FS_Subset DEF BTypes
      <4>2. /\ Cardinality(breachable) <= Cardinality(breachable') /\ Cardinality(breachable) \in Nat
            /\ Cardinality(breachable') \in Nat
        BY <4>1, FS_Subset, FS_CardinalityType
      <4>3. Cardinality(bmembers) \in Nat
        BY <1>0, ClusterConstants, FS_Subset, FS_CardinalityType DEF BTypes
      <4> QED
        BY <2>1, <3>1, <4>2, <4>3, QuorumGrows
    <3> QED
      BY <2>1, <2>3, <2>5, <3>1 DEF Rechecked
  <2> QED
    BY <2>1, <2>6, <2>7, <2>8 DEF QuorumInv
<1>8. ASSUME NEW t \in Threads, CheckHealing(t) PROVE QuorumInv'
  <2>1. /\ bpc[t] = "healing" /\ BGoto(t, "idle", {}) /\ UNCHANGED <<bmembers, breachable, fails, churned>>
        /\ info'.quorum = info.quorum
    BY <1>8 DEF CheckHealing, tracked, recordVars
  <2>2. /\ bpc'[t] = "idle" /\ \A u \in Threads \ {t} : bpc'[u] = bpc[u] /\ bloc'[u] = bloc[u]
    BY <1>0, <1>l, <2>1, BMoved
  <2>3. (Checking => Checking') /\ (FoundSome => FoundSome') /\ (\A m : Answered(m) => Answered(m)')
    BY <2>1, <2>2 DEF Checking, FoundSome, Answered
  <2> QED
    BY <1>0, <2>1, <2>2, <2>3, QuorumSame DEF QuorumInv, OneAnswer, Missing, Rechecked, Monitored
<1>9. ASSUME NEW t \in Threads, CheckCall(t) PROVE QuorumInv'
  <2>1. bpc[t] = "idle" /\ BGoto(t, "check", {}) /\ UNCHANGED <<bmembers, breachable, info, fails, churned>>
    BY <1>9 DEF CheckCall, tracked, recordVars
  <2>2. /\ bpc'[t] = "check" /\ \A u \in Threads \ {t} : bpc'[u] = bpc[u] /\ bloc'[u] = bloc[u]
    BY <1>0, <1>l, <2>1, BMoved
  <2>3. Checking' /\ (\A m : Answered(m) => Answered(m)')
    BY <2>1, <2>2 DEF Checking, Answered
  <2> QED
    BY <1>0, <2>1, <2>2, <2>3 DEF QuorumInv, OneAnswer, Missing, Rechecked, Monitored
<1>10. ASSUME NEW t \in Threads, CheckCollect(t) PROVE QuorumInv'
  <2> DEFINE found == Monitored \ Responsive
  <2>1. /\ bpc[t] = "check" /\ BGoto(t, "check_decide", found) /\ UNCHANGED <<bmembers, breachable, info, fails, churned>>
    BY <1>10 DEF CheckCollect, tracked, recordVars
  <2>2. found \in SUBSET Nodes /\ \A n \in Monitored : fails[n] >= ResponsiveLimit => n \in found
    BY <1>0 DEF BTypes, Responsive, ResponsiveLimit
  <2> HIDE DEF found
  <2>3. /\ bpc'[t] = "check_decide" /\ bloc'[t] = found /\ \A u \in Threads \ {t} : bpc'[u] = bpc[u] /\ bloc'[u] = bloc[u]
    BY <1>0, <1>l, <2>1, <2>2, BMoved
  <2>4. OneAnswer' /\ (\A m : Answered(m) => Answered(m)') /\ (found # {} => FoundSome')
    BY <1>0, <2>1, <2>3 DEF OneAnswer, Answered, FoundSome
  <2>5. Missing => Missing' /\ Rechecked'
    <3> SUFFICES ASSUME Missing PROVE Missing' /\ Rechecked'
      OBVIOUS
    <3>1. Missing'
      BY <2>1, <2>4 DEF Missing, Monitored
    <3>2. ASSUME found = {}, NEW n \in Members \ breachable PROVE Answered(n)'
      <4>1. n \in Monitored /\ fails[n] \in Nat
        BY <1>0 DEF Missing, BTypes
      <4>2. ~(fails[n] >= FailureThreshold)
        BY <2>2, <3>2, <4>1, DetectorConstants DEF SoundThresholds, ResponsiveLimit
      <4> QED
        BY <2>4, <4>2 DEF Missing
    <3>3. Rechecked'
      BY <2>1, <2>4, <3>2 DEF Rechecked
    <3> QED
      BY <3>1, <3>3
  <2> QED
    BY <2>1, <2>4, <2>5 DEF QuorumInv
<1>11. ASSUME NEW t \in Threads, CheckDecide(t) PROVE QuorumInv'
  <2>1. bpc[t] = "check_decide" /\ BGoto(t, "idle", {}) /\ UNCHANGED <<bmembers, breachable, fails, churned>>
    BY <1>11 DEF CheckDecide, tracked, recordVars
  <2>2. /\ bpc'[t] = "idle" /\ \A u \in Threads \ {t} : bpc'[u] = bpc[u] /\ bloc'[u] = bloc[u]
    BY <1>0, <1>l, <2>1, BMoved
  <2>3. OneAnswer' /\ (Checking => Checking') /\ (\A m : Answered(m) => Answered(m)')
    BY <1>0, <2>1, <2>2 DEF OneAnswer, Checking, Answered
  <2>4. Missing => Missing'
    BY <2>1, <2>3 DEF Missing, Monitored
  <2>5. Rechecked => Rechecked'
    <3>1. CASE bloc[t] = {}
      <4>1. info'.quorum = info.quorum
        BY <1>11, <3>1 DEF CheckDecide, DecideHealthy, HealthyInfo
      <4>2. ~FoundSome
        BY <1>0, <2>1, <3>1 DEF FoundSome, OneDecides
      <4> QED
        BY <2>1, <2>3, <4>1, <4>2, QuorumSame DEF Rechecked
    <3>2. CASE bloc[t] # {}
      <4>1. info'.quorum = Tracked!HasQuorum
        BY <1>11, <3>2 DEF CheckDecide, DecidePartitioned
      <4> QED
        BY <2>1, <4>1, QuorumSame DEF Rechecked
    <3> QED
      BY <3>1, <3>2
  <2> QED
    BY <2>1, <2>3, <2>4, <2>5 DEF QuorumInv
<1> QED
  BY <1>2, <1>3, <1>4, <1>5, <1>6, <1>7, <1>8, <1>9, <1>10, <1>11 DEF DetectorNext, DetectorStep

\* For any number of nodes and threads, when a node counts as unreachable no
\* earlier than as unresponsive and the quorum is no larger than the cluster:
\* the detector never claims a quorum that the tracker has lost
\* (check_partition, mark_unreachable).
THEOREM QuorumClaimsTrue == ASSUME SoundThresholds PROVE DetectorSpec => []NoFalseQuorumClaim
<1>1. DetectorInv /\ QuorumInv => NoFalseQuorumClaim
  <2> SUFFICES ASSUME DetectorInv, QuorumInv, BBusy = {}, ~churned, info.quorum, ~Tracked!HasQuorum PROVE FALSE
    BY DEF NoFalseQuorumClaim
  <2>1. breachable = Members /\ bmembers = Members
    BY DEF DetectorInv, BTypes, QuorumInv, Rechecked, Checking, FoundSome, Answered, BBusy
  <2>2. Cardinality(Members) \in Nat /\ Cardinality(Members) # 0
    BY ClusterConstants, DetectorConstants, FS_Subset, FS_CardinalityType, FS_EmptySet
  <2> QED
    BY <2>1, <2>2, FullQuorum
<1> QED
  BY <1>1, DetectorInitial, DetectorPreserved, QuorumInitial, QuorumPreserved, PTL DEF DetectorSpec

\* For any number of nodes and threads, whatever the reports: the states of
\* the partition follow each other in the documented order (check_partition,
\* check_healing).
THEOREM StatesInOrder == DetectorSpec => StateOrder
<1> DEFINE Step == \/ info'.state \in {info.state, "Healthy"}
                   \/ info.state = "Healthy"   /\ info'.state = "Suspected"
                   \/ info.state = "Suspected" /\ info'.state = "Confirmed"
                   \/ info.state = "Confirmed" /\ info'.state = "Healing"
<1>1. ASSUME [DetectorNext]_detectorVars PROVE [Step]_detectorVars
  <2>1. ASSUME NEW t \in Threads, CheckDecide(t) PROVE Step
    <3>1. CASE bloc[t] = {}
      BY <2>1, <3>1 DEF CheckDecide, DecideHealthy, HealthyInfo
    <3>2. CASE bloc[t] # {}
      BY <2>1, <3>2 DEF CheckDecide, DecidePartitioned
    <3> QED
      BY <3>1, <3>2
  <2>2. ASSUME NEW t \in Threads, CheckHealing(t) PROVE Step
    BY <2>2 DEF CheckHealing
  <2>3. ASSUME info' = info PROVE Step
    BY <2>3
  <2>4. ASSUME NEW t \in Threads, NEW n \in Nodes \ {Self}, SuccessRecord(t, n) \/ FailureRecord(t, n) PROVE info' = info
    BY <2>4 DEF SuccessRecord, FailureRecord
  <2>5. ASSUME NEW t \in Threads, SuccessTracker(t) \/ CheckCall(t) \/ CheckCollect(t) PROVE info' = info
    BY <2>5 DEF SuccessTracker, CheckCall, CheckCollect
  <2>6. ASSUME NEW n \in Nodes \ {Self}, FallSilent(n) \/ Unmonitor(n) \/ \E d \in Domains : Monitor(n, d) PROVE info' = info
    BY <2>6 DEF FallSilent, Unmonitor, Monitor
  <2> HIDE DEF Step
  <2> QED
    BY <1>1, <2>1, <2>2, <2>3, <2>4, <2>5, <2>6 DEF DetectorNext, DetectorStep
<1> QED
  BY <1>1, PTL DEF DetectorSpec, StateOrder

-----------------------------------------------------------------------------
(* The witness *)

WLabels == {"idle", "start_register", "start_spawn", "stop_send", "stop_done", "peer_register",
            "peer_remove", "peer_heartbeat", "join_insert", "join_state", "cast_submit", "leave_check",
            "leave_state"}
QuietLabels == {"idle", "cast_submit"}
PeerLabels == {"peer_register", "peer_remove", "peer_heartbeat"}
WTasks == [node : Nodes, election : Elections \cup {"none"}, cast : Nat]
WVotes == [election : Elections, candidate : Candidates, term : VoteTerms]

WInHand ==
  \A t \in Threads : /\ wpc[t] = "join_insert" => wloc[t].election \in Elections
                     /\ wpc[t] \in PeerLabels => wloc[t].node \in Peers

WTypes ==
  /\ wpc \in [Threads -> WLabels] /\ wloc \in [Threads -> WTasks]
  /\ part \in [Elections -> {"out", "open"} \cup Candidates]
  /\ votes \in Seq(WVotes)
  /\ peer \in [Peers -> {"absent", "heard", "silent"}]
  /\ copy \in [Loops -> [Peers -> {"absent", "fresh", "behind", "late", "marked"}]]
  /\ starts \in Nat
  /\ witnessOverlapped \in BOOLEAN
  /\ WInHand

\* A vote on its way to the tracker is the last one in its election, and the only
\* one on its way: cast_vote holds the guard of the participation.
OnTheirWay ==
  \A t \in Casting :
    /\ wloc[t].cast \in 1 .. Len(votes)
    /\ votes[wloc[t].cast].election = wloc[t].election
    /\ \A j \in 1 .. Len(votes) : j > wloc[t].cast => votes[j].election # wloc[t].election
    /\ \A u \in Casting : wloc[u].election = wloc[t].election => u = t

Ballots ==
  /\ ballot \in [id : Elections \cup {"none"}, term : VoteTerms \cup {0}, vote : Nat]
  /\ since \in 0 .. Len(votes)
  /\ OnTheirWay
  /\ FirstVoteCounts

WAlone == ~witnessOverlapped => \A t, u \in WBusy : t = u

\* A thread is between the peer map and the vote tracker, about peer n.
Under(n, label) == \E t \in Threads : wpc[t] = label /\ wloc[t].node = n

Unlooped(n) == \A i \in Loops : copy[i][n] = "absent"

\* The vote tracker agrees with the peer map about n, or a call will see to it.
FollowsPeer(n) ==
  /\ Under(n, "peer_register") \/ Under(n, "peer_remove") \/ (n \in wmembers <=> peer[n] # "absent")
  /\ Under(n, "peer_register") => peer[n] # "absent"
  /\ Under(n, "peer_remove") => peer[n] = "absent"
  /\ (peer[n] = "heard" /\ Unlooped(n)) =>
       n \in wreachable \/ Under(n, "peer_register") \/ Under(n, "peer_heartbeat")

Followed == ~witnessOverlapped => (wmembers \subseteq Peers \cup {Self} /\ \A n \in Peers : FollowsPeer(n))

WitnessInv == WTypes /\ Ballots /\ WAlone /\ Followed

-----------------------------------------------------------------------------
\* The witness is stopped and has no peers.
LEMMA WitnessInitial == WitnessInit => WitnessInv
<1> SUFFICES ASSUME WitnessInit PROVE WitnessInv
  OBVIOUS
<1>1. /\ wmembers = {} /\ wreachable = {} /\ votes = <<>> /\ since = 0
      /\ ballot = [id |-> "none", term |-> 0, vote |-> 0]
      /\ witnessOverlapped = FALSE /\ starts = 0
  BY DEF WitnessInit, Tracker!ClusterInit
<1>2. (\A t \in Threads : wpc[t] = "idle") /\ (\A e \in Elections : part[e] = "out") /\ (\A n \in Peers : peer[n] = "absent")
  BY DEF WitnessInit
<1>3. WNoWork \in WTasks
  BY ClusterConstants DEF WNoWork, WTasks
<1>c. Casting = {} /\ votes \in Seq(WVotes) /\ Len(votes) = 0
  BY <1>1, <1>2 DEF Casting
<1>4. wpc \in [Threads -> WLabels] /\ wloc \in [Threads -> WTasks]
  BY <1>3 DEF WitnessInit, WLabels
<1>5. /\ part \in [Elections -> {"out", "open"} \cup Candidates]
      /\ peer \in [Peers -> {"absent", "heard", "silent"}]
      /\ copy \in [Loops -> [Peers -> {"absent", "fresh", "behind", "late", "marked"}]]
  BY DEF WitnessInit
<1>6. WTypes
  BY <1>1, <1>2, <1>4, <1>5, <1>c DEF WTypes, WInHand, PeerLabels
<1>7. Ballots
  BY <1>1, <1>c DEF Ballots, OnTheirWay, FirstVoteCounts
<1>8. WAlone
  BY <1>2 DEF WAlone, WBusy
<1>9. Followed
  BY <1>1, <1>2 DEF Followed, FollowsPeer, Under
<1> QED
  BY <1>6, <1>7, <1>8, <1>9 DEF WitnessInv

\* What a step of one thread leaves of the others; calls that meet are
\* recorded.
LEMMA WMoved ==
  ASSUME WTypes, WAlone, NEW t \in Threads, NEW label \in WLabels \ {"cast_submit"}, NEW work \in WTasks,
         wpc[t] # "cast_submit", WGoto(t, label, work)
  PROVE  /\ wpc' \in [Threads -> WLabels] /\ wloc' \in [Threads -> WTasks] /\ witnessOverlapped' \in BOOLEAN
         /\ wpc'[t] = label /\ wloc'[t] = work
         /\ \A u \in Threads \ {t} : wpc'[u] = wpc[u] /\ wloc'[u] = wloc[u]
         /\ witnessOverlapped => witnessOverlapped'
         /\ (~witnessOverlapped' /\ (label # "idle" \/ wpc[t] # "idle")) => \A u \in Threads \ {t} : wpc[u] \in QuietLabels
         /\ WAlone'
<1>1. /\ wpc' \in [Threads -> WLabels] /\ wloc' \in [Threads -> WTasks]
      /\ wpc'[t] = label /\ wloc'[t] = work
      /\ \A u \in Threads \ {t} : wpc'[u] = wpc[u] /\ wloc'[u] = wloc[u]
  BY DEF WGoto, WTypes
<1>2. witnessOverlapped' \in BOOLEAN /\ (witnessOverlapped => witnessOverlapped')
  BY Zenon DEF WGoto, WTypes
<1>b. WBusy = {u \in Threads : wpc[u] \notin QuietLabels}
  BY DEF WBusy, Casting, QuietLabels
<1>3. (~witnessOverlapped' /\ label # "idle") => \A u \in Threads \ {t} : wpc[u] \in QuietLabels
  BY <1>b DEF WGoto
<1>4. (~witnessOverlapped' /\ wpc[t] # "idle") => \A u \in Threads \ {t} : wpc[u] \in QuietLabels
  BY <1>2, <1>b DEF WAlone, QuietLabels
<1>5. WAlone'
  <2> SUFFICES ASSUME ~witnessOverlapped', NEW u \in Threads, NEW v \in Threads,
                      wpc'[u] \notin QuietLabels, wpc'[v] \notin QuietLabels
               PROVE u = v
    BY DEF WAlone, WBusy, Casting, QuietLabels
  <2>1. ASSUME u # t, v # t PROVE u = v
    BY <1>1, <1>2, <1>b, <2>1 DEF WAlone
  <2> QED
    BY <1>1, <1>3, <2>1 DEF QuietLabels
<1> QED
  BY <1>1, <1>2, <1>3, <1>4, <1>5

\* Steps of other calls leave the votes and the tracker's count alone.
LEMMA BallotsSame ==
  ASSUME Ballots, UNCHANGED <<votes, ballot, since>>, Casting' = Casting, \A t \in Casting : wloc'[t] = wloc[t]
  PROVE  Ballots'
BY DEF Ballots, OnTheirWay, FirstVoteCounts, ForBallot

LEMMA BallotsKept ==
  ASSUME WTypes, WAlone, Ballots, NEW t \in Threads, NEW label \in WLabels \ {"cast_submit"}, NEW work \in WTasks,
         wpc[t] # "cast_submit", WGoto(t, label, work), UNCHANGED <<votes, ballot, since>>
  PROVE  Ballots'
<1>1. Casting' = Casting /\ \A u \in Casting : wloc'[u] = wloc[u]
  BY WMoved DEF Casting
<1> QED
  BY <1>1, BallotsSame

\* A step that leaves the peers alone, of a thread that is about no peer.
LEMMA FollowsStill ==
  ASSUME WTypes, Followed, WAlone, NEW t \in Threads, NEW label \in WLabels \ (PeerLabels \cup {"cast_submit"}),
         NEW work \in WTasks, wpc[t] \notin PeerLabels, wpc[t] # "cast_submit", WGoto(t, label, work), UNCHANGED <<peer, copy>>,
         wmembers' \in {wmembers, wmembers \cup {Self}}, wreachable' \in {wreachable, wreachable \cup {Self}}
  PROVE  Followed'
<1>1. \A n, l : l \in PeerLabels => (Under(n, l)' <=> Under(n, l))
  BY WMoved DEF Under
<1>2. witnessOverlapped => witnessOverlapped'
  BY WMoved
<1>3. \A n \in Peers : (n \in wmembers' <=> n \in wmembers) /\ (n \in wreachable' <=> n \in wreachable) /\ Unlooped(n)' = Unlooped(n)
  BY WitnessConstants DEF Unlooped
<1>4. ASSUME NEW n \in Peers, FollowsPeer(n) PROVE FollowsPeer(n)'
  BY <1>1, <1>3, <1>4 DEF FollowsPeer, PeerLabels
<1> QED
  BY <1>2, <1>4 DEF Followed

\* The threads' locals keep the types their place asks for.
LEMMA WCarried ==
  ASSUME WTypes, WAlone, NEW t \in Threads, NEW label \in WLabels \ {"cast_submit"}, NEW work \in WTasks,
         wpc[t] # "cast_submit", WGoto(t, label, work),
         label = "join_insert" => work.election \in Elections, label \in PeerLabels => work.node \in Peers
  PROVE  WInHand'
<1> SUFFICES ASSUME NEW u \in Threads
             PROVE  /\ wpc'[u] = "join_insert" => wloc'[u].election \in Elections
                    /\ wpc'[u] \in PeerLabels => wloc'[u].node \in Peers
  BY DEF WInHand
<1>1. CASE u = t
  BY <1>1, WMoved
<1>2. CASE u # t
  BY <1>2, WMoved DEF WTypes, WInHand
<1> QED
  BY <1>1, <1>2

\* A step that changes neither the peers nor the participations.
LEMMA WPlain ==
  ASSUME WitnessInv, NEW t \in Threads, NEW label \in WLabels \ (PeerLabels \cup {"cast_submit"}),
         NEW work \in WTasks, wpc[t] \notin PeerLabels, wpc[t] # "cast_submit", WGoto(t, label, work), UNCHANGED <<peer, copy, starts, joinVars>>,
         label = "join_insert" => work.election \in Elections,
         wmembers' \in {wmembers, wmembers \cup {Self}}, wreachable' \in {wreachable, wreachable \cup {Self}}
  PROVE  WitnessInv'
<1>0. WTypes /\ Ballots /\ WAlone /\ Followed
  BY DEF WitnessInv
<1>1. Followed'
  BY <1>0, FollowsStill
<1>2. WInHand'
  BY <1>0, WCarried
<1>3. WTypes' /\ WAlone'
  BY <1>0, <1>2, WMoved DEF WTypes, joinVars
<1>4. Ballots'
  BY <1>0, BallotsKept DEF joinVars, ballotVars
<1> QED
  BY <1>1, <1>3, <1>4 DEF WitnessInv

\* The locals that the calls store.
LEMMA WIdleWork == WNoWork \in WTasks /\ (\A e \in Elections : [WNoWork EXCEPT !.election = e] \in WTasks /\ [WNoWork EXCEPT !.election = e].election = e)
                   /\ (\A n \in Peers : [WNoWork EXCEPT !.node = n] \in WTasks /\ [WNoWork EXCEPT !.node = n].node = n)
BY ClusterConstants, WitnessConstants DEF WNoWork, WTasks

\* The steps that touch neither the participations nor the peers.
LEMMA PlainSteps ==
  ASSUME WitnessInv, NEW t \in Threads,
         \/ Start(t) \/ StartRegister(t) \/ Stop(t) \/ StopSend(t) \/ StopDone(t)
         \/ JoinState(t) \/ LeaveCheck(t) \/ LeaveState(t) \/ \E e \in Elections : Join(t, e)
  PROVE  WitnessInv'
<1>l. {"idle", "start_register", "start_spawn", "stop_send", "stop_done", "join_insert", "join_state", "leave_check", "leave_state"}
        \subseteq WLabels \ (PeerLabels \cup {"cast_submit"})
  BY DEF WLabels, PeerLabels
<1>w. WNoWork \in WTasks
  BY WIdleWork
<1>1. CASE Start(t)
  BY <1>l, <1>w, <1>1, WPlain DEF Start, peerVars, witnessClusterVars
<1>2. CASE StartRegister(t)
  BY <1>l, <1>w, <1>2, WPlain DEF StartRegister, peerVars, Tracker!RegisterNode
<1>3. CASE Stop(t)
  BY <1>l, <1>w, <1>3, WPlain DEF Stop, peerVars, witnessClusterVars
<1>4. CASE StopSend(t)
  BY <1>l, <1>w, <1>4, WPlain DEF StopSend, peerVars, witnessClusterVars
<1>5. CASE StopDone(t)
  BY <1>l, <1>w, <1>5, WPlain DEF StopDone, WReturn, peerVars, witnessClusterVars
<1>6. CASE JoinState(t)
  BY <1>l, <1>w, <1>6, WPlain DEF JoinState, WReturn, peerVars, witnessClusterVars
<1>7. CASE LeaveCheck(t)
  <2>1. PICK label \in {"leave_state", "idle"} : WGoto(t, label, WNoWork)
    BY <1>7 DEF LeaveCheck
  <2> QED
    BY <1>l, <1>w, <1>7, <2>1, WPlain DEF LeaveCheck, peerVars, witnessClusterVars
<1>8. CASE LeaveState(t)
  BY <1>l, <1>w, <1>8, WPlain DEF LeaveState, WReturn, peerVars, witnessClusterVars
<1>9. ASSUME NEW e \in Elections, Join(t, e) PROVE WitnessInv'
  <2> DEFINE work == [WNoWork EXCEPT !.election = e]
  <2>1. work \in WTasks /\ work.election = e
    BY WIdleWork
  <2>2. /\ wpc[t] = "idle" /\ WGoto(t, "join_insert", work)
        /\ UNCHANGED <<witnessClusterVars, peerVars, joinVars>>
    BY <1>9 DEF Join
  <2> HIDE DEF work
  <2> QED
    BY <1>l, <2>1, <2>2, WPlain DEF peerVars, witnessClusterVars
<1> QED
  BY <1>1, <1>2, <1>3, <1>4, <1>5, <1>6, <1>7, <1>8, <1>9

\* join_election opens a participation without a vote.
LEMMA JoinInserted ==
  ASSUME WitnessInv, NEW t \in Threads, JoinInsert(t)
  PROVE  WitnessInv'
<1>0. WTypes /\ Ballots /\ WAlone /\ Followed
  BY DEF WitnessInv
<1> DEFINE e == wloc[t].election
<1>1. /\ wpc[t] = "join_insert" /\ part' = [part EXCEPT ![e] = "open"] /\ WGoto(t, "join_state", WNoWork)
      /\ UNCHANGED <<wmembers, wreachable, peer, copy, starts, votes, ballot, since>>
  BY DEF JoinInsert, peerVars, ballotVars, witnessClusterVars
<1>2. e \in Elections
  BY <1>0, <1>1 DEF WTypes, WInHand
<1> HIDE DEF e
<1>3. Followed'
  BY <1>0, <1>1, WIdleWork, FollowsStill DEF WLabels, PeerLabels
<1>4. WInHand'
  BY <1>0, <1>1, WIdleWork, WCarried DEF WLabels, PeerLabels
<1>5. WTypes' /\ WAlone'
  BY <1>0, <1>1, <1>2, <1>4, WIdleWork, WMoved DEF WTypes, WLabels
<1>7. Ballots'
  BY <1>0, <1>1, WIdleWork, BallotsKept DEF WLabels
<1> QED
  BY <1>3, <1>5, <1>7 DEF WitnessInv

\* leave_election removes the participation and its vote.
LEMMA LeaveRemoved ==
  ASSUME WitnessInv, NEW t \in Threads, NEW e \in Elections, LeaveRemove(t, e)
  PROVE  WitnessInv'
<1>0. WTypes /\ Ballots /\ WAlone /\ Followed
  BY DEF WitnessInv
<1>1. /\ wpc[t] = "idle" /\ part' = [part EXCEPT ![e] = "out"] /\ WGoto(t, "leave_check", WNoWork)
      /\ UNCHANGED <<wmembers, wreachable, peer, copy, starts, votes, ballot, since>>
  BY DEF LeaveRemove, peerVars, ballotVars, witnessClusterVars
<1>3. Followed'
  BY <1>0, <1>1, WIdleWork, FollowsStill DEF WLabels, PeerLabels
<1>4. WInHand'
  BY <1>0, <1>1, WIdleWork, WCarried DEF WLabels, PeerLabels
<1>5. WTypes' /\ WAlone'
  BY <1>0, <1>1, <1>4, WIdleWork, WMoved DEF WTypes, WLabels
<1>7. Ballots'
  BY <1>0, <1>1, WIdleWork, BallotsKept DEF WLabels
<1> QED
  BY <1>3, <1>5, <1>7 DEF WitnessInv

\* A step of cast_vote leaves everybody else alone.
LEMMA CastMoved ==
  ASSUME WTypes, WAlone, Followed, NEW t \in Threads, NEW label \in QuietLabels, NEW work \in WTasks,
         wpc[t] \in QuietLabels, CastGoto(t, label, work), UNCHANGED <<wmembers, wreachable, peer, copy>>
  PROVE  /\ wpc' \in [Threads -> WLabels] /\ wloc' \in [Threads -> WTasks]
         /\ wpc'[t] = label /\ wloc'[t] = work
         /\ \A u \in Threads \ {t} : wpc'[u] = wpc[u] /\ wloc'[u] = wloc[u]
         /\ WInHand' /\ WAlone' /\ Followed'
<1>1. /\ wpc' \in [Threads -> WLabels] /\ wloc' \in [Threads -> WTasks]
      /\ wpc'[t] = label /\ wloc'[t] = work
      /\ \A u \in Threads \ {t} : wpc'[u] = wpc[u] /\ wloc'[u] = wloc[u]
  BY DEF CastGoto, WTypes, QuietLabels, WLabels
<1>2. WInHand'
  BY <1>1 DEF WTypes, WInHand, QuietLabels, PeerLabels
<1>3. WAlone'
  <2>1. WBusy' = WBusy
    BY <1>1 DEF WBusy, Casting, QuietLabels
  <2> QED
    BY <2>1 DEF WAlone, CastGoto
<1>4. \A n, l : l \in PeerLabels => (Under(n, l)' <=> Under(n, l))
  BY <1>1 DEF Under, QuietLabels, PeerLabels
<1>5. ASSUME NEW n \in Peers, FollowsPeer(n) PROVE FollowsPeer(n)'
  BY <1>4, <1>5 DEF FollowsPeer, PeerLabels, Unlooped
<1>6. Followed'
  BY <1>5 DEF Followed, CastGoto
<1> QED
  BY <1>1, <1>2, <1>3, <1>6

\* The locals of cast_vote.
LEMMA CastWork ==
  ASSUME NEW e \in Elections, NEW k \in Nat
  PROVE  LET work == [WNoWork EXCEPT !.election = e, !.cast = k]
         IN  work \in WTasks /\ work.election = e /\ work.cast = k
BY ClusterConstants DEF WNoWork, WTasks

\* cast_vote records the vote in the participation it found open.
LEMMA VoteCast ==
  ASSUME WitnessInv, NEW t \in Threads, NEW e \in Elections, NEW c \in Candidates, NEW tm \in VoteTerms,
         WitnessCastVote(t, e, c, tm)
  PROVE  WitnessInv'
<1>0. WTypes /\ Ballots /\ WAlone /\ Followed
  BY DEF WitnessInv
<1> DEFINE work == [WNoWork EXCEPT !.election = e, !.cast = Len(votes) + 1]
           vote == [election |-> e, candidate |-> c, term |-> tm]
<1>1. /\ wpc[t] = "idle" /\ ~Guarded(e) /\ part' = [part EXCEPT ![e] = c] /\ votes' = Append(votes, vote)
      /\ CastGoto(t, "cast_submit", work)
      /\ UNCHANGED <<wmembers, wreachable, peer, copy, starts, ballot, since, witnessOverlapped>>
  BY DEF WitnessCastVote, peerVars, ballotVars, witnessClusterVars, CastGoto
<1>2. /\ vote \in WVotes /\ vote.election = e
      /\ votes \in Seq(WVotes) /\ Len(votes) \in Nat
  BY <1>0 DEF WVotes, WTypes
<1>3. work \in WTasks /\ work.election = e /\ work.cast = Len(votes) + 1
  <2>1. Len(votes) + 1 \in Nat
    BY <1>2
  <2> QED
    BY <2>1, CastWork
<1> HIDE DEF work, vote
<1>4. /\ votes' \in Seq(WVotes) /\ Len(votes') = Len(votes) + 1 /\ votes'[Len(votes) + 1] = vote
      /\ \A j \in 1 .. Len(votes) : votes'[j] = votes[j]
  BY <1>1, <1>2
<1>5. /\ wpc' \in [Threads -> WLabels] /\ wloc' \in [Threads -> WTasks]
      /\ wpc'[t] = "cast_submit" /\ wloc'[t] = work
      /\ \A u \in Threads \ {t} : wpc'[u] = wpc[u] /\ wloc'[u] = wloc[u]
      /\ WInHand' /\ WAlone' /\ Followed'
  BY <1>0, <1>1, <1>3, CastMoved DEF QuietLabels
<1>6. WTypes'
  BY <1>0, <1>1, <1>4, <1>5 DEF WTypes
<1>7. Casting' = Casting \cup {t} /\ t \notin Casting /\ \A u \in Casting : wloc'[u] = wloc[u] /\ u # t /\ wloc[u].election # e
  BY <1>1, <1>5 DEF Casting, Guarded
<1>8. OnTheirWay'
  <2> SUFFICES ASSUME NEW u \in Casting'
               PROVE  /\ wloc'[u].cast \in 1 .. Len(votes')
                      /\ votes'[wloc'[u].cast].election = wloc'[u].election
                      /\ \A j \in 1 .. Len(votes') : j > wloc'[u].cast => votes'[j].election # wloc'[u].election
                      /\ \A v \in Casting' : wloc'[v].election = wloc'[u].election => v = u
    BY DEF OnTheirWay
  <2>1. CASE u = t
    <3>1. wloc'[u].cast = Len(votes) + 1 /\ wloc'[u].election = e
      BY <1>3, <1>5, <2>1
    <3>2. \A v \in Casting' : wloc'[v].election = e => v = u
      BY <1>7, <2>1
    <3> QED
      BY <1>2, <1>4, <3>1, <3>2
  <2>2. CASE u # t
    <3>1. u \in Casting /\ wloc'[u] = wloc[u] /\ wloc[u].election # e
      BY <1>7, <2>2
    <3>2. /\ wloc[u].cast \in 1 .. Len(votes)
          /\ votes[wloc[u].cast].election = wloc[u].election
          /\ \A j \in 1 .. Len(votes) : j > wloc[u].cast => votes[j].election # wloc[u].election
          /\ \A v \in Casting : wloc[v].election = wloc[u].election => v = u
      BY <1>0, <3>1 DEF Ballots, OnTheirWay
    <3>3. \A v \in Casting' : wloc'[v].election = wloc'[u].election => v = u
      BY <1>3, <1>5, <1>7, <3>1, <3>2
    <3>4. \A j \in 1 .. Len(votes') : j > wloc[u].cast => votes'[j].election # wloc[u].election
      <4> SUFFICES ASSUME NEW j \in 1 .. Len(votes'), j > wloc[u].cast PROVE votes'[j].election # wloc[u].election
        OBVIOUS
      <4>1. j \in 1 .. Len(votes) \/ j = Len(votes) + 1
        BY <1>2, <1>4
      <4> QED
        BY <1>2, <1>4, <3>1, <3>2, <4>1
    <3>5. wloc[u].cast \in 1 .. Len(votes')
      BY <1>2, <1>4, <3>2
    <3> QED
      BY <1>4, <3>1, <3>2, <3>3, <3>4, <3>5
  <2> QED
    BY <2>1, <2>2
<1>9. FirstVoteCounts'
  <2>0. FirstVoteCounts /\ since \in Nat /\ ballot.vote \in Nat
    BY <1>0, <1>2 DEF Ballots
  <2>1. \A j \in 1 .. Len(votes) : ForBallot(j)' <=> ForBallot(j)
    BY <1>1, <1>4 DEF ForBallot
  <2>2. ballot'.vote # 0 => (ballot'.vote \in 1 .. Len(votes') /\ ForBallot(ballot.vote)')
    BY <1>1, <1>2, <1>4, <2>0, <2>1 DEF FirstVoteCounts
  <2>3. ASSUME NEW i \in since + 1 .. Len(votes'), ForBallot(i)', \A u \in Casting' : wloc'[u].cast # i
        PROVE  ballot.vote \in 1 .. i
    <3>1. i # Len(votes) + 1
      BY <1>3, <1>5, <1>7, <2>3
    <3>2. i \in since + 1 .. Len(votes) /\ i \in 1 .. Len(votes)
      BY <1>2, <1>4, <2>0, <3>1
    <3>3. ForBallot(i) /\ \A u \in Casting : wloc[u].cast # i
      BY <1>7, <2>1, <2>3, <3>2
    <3> QED
      BY <2>0, <3>2, <3>3 DEF FirstVoteCounts
  <2> QED
    BY <1>1, <2>2, <2>3 DEF FirstVoteCounts, ForBallot
<1>10. since' \in 0 .. Len(votes')
  BY <1>0, <1>1, <1>2, <1>4 DEF Ballots
<1> QED
  BY <1>0, <1>1, <1>5, <1>6, <1>8, <1>9, <1>10 DEF WitnessInv, Ballots

\* The vote reaches the tracker: it counts when it is for the current election and
\* term and none is counted, and it is the last one in its election then.
LEMMA VoteSubmitted ==
  ASSUME WitnessInv, NEW t \in Threads, CastSubmit(t)
  PROVE  WitnessInv'
<1>0. WTypes /\ Ballots /\ WAlone /\ Followed
  BY DEF WitnessInv
<1>1. /\ wpc[t] = "cast_submit" /\ CountVote(wloc[t].cast) /\ CastGoto(t, "idle", WNoWork)
      /\ UNCHANGED <<wmembers, wreachable, peer, copy, starts, part, votes, since, witnessOverlapped>>
  BY DEF CastSubmit, peerVars, witnessClusterVars, CastGoto
<1>5. /\ wpc' \in [Threads -> WLabels] /\ wloc' \in [Threads -> WTasks]
      /\ wpc'[t] = "idle" /\ wloc'[t] = WNoWork
      /\ \A u \in Threads \ {t} : wpc'[u] = wpc[u] /\ wloc'[u] = wloc[u]
      /\ WInHand' /\ WAlone' /\ Followed'
  BY <1>0, <1>1, WIdleWork, CastMoved DEF QuietLabels
<1>6. WTypes'
  BY <1>0, <1>1, <1>5 DEF WTypes
<1>7. t \in Casting /\ Casting' = Casting \ {t} /\ \A u \in Casting \ {t} : wloc'[u] = wloc[u]
  BY <1>1, <1>5 DEF Casting
<1>8. OnTheirWay'
  BY <1>0, <1>1, <1>7 DEF Ballots, OnTheirWay
<1>2. PICK k \in 1 .. Len(votes) : k = wloc[t].cast
  BY <1>0, <1>7 DEF Ballots, OnTheirWay
<1>3. /\ ballot \in [id : Elections \cup {"none"}, term : VoteTerms \cup {0}, vote : Nat]
      /\ since \in Nat /\ ballot.vote \in Nat /\ Len(votes) \in Nat
      /\ \A j \in 1 .. Len(votes) : j > k => votes[j].election # votes[k].election
      /\ FirstVoteCounts
  BY <1>0, <1>2, <1>7 DEF Ballots, OnTheirWay, WTypes
<1>4. /\ ballot' \in [id : Elections \cup {"none"}, term : VoteTerms \cup {0}, vote : Nat]
      /\ ballot'.id = ballot.id /\ ballot'.term = ballot.term
      /\ ballot'.vote = IF ForBallot(k) /\ ballot.vote = 0 THEN k ELSE ballot.vote
  BY <1>1, <1>2, <1>3 DEF CountVote
<1>f. \A j \in 1 .. Len(votes) : ForBallot(j)' <=> ForBallot(j)
  BY <1>1, <1>4 DEF ForBallot
<1>9. FirstVoteCounts'
  <2>2. ballot'.vote # 0 => (ballot'.vote \in 1 .. Len(votes) /\ ForBallot(ballot'.vote))
    BY <1>3, <1>4 DEF FirstVoteCounts
  <2>3. ASSUME NEW i \in since + 1 .. Len(votes), ForBallot(i), \A u \in Casting' : wloc'[u].cast # i
        PROVE  ballot'.vote \in 1 .. i
    <3>1. i \in 1 .. Len(votes)
      BY <1>3
    <3>2. CASE i = k
      <4>1. CASE ballot.vote = 0
        BY <1>4, <2>3, <3>1, <3>2, <4>1
      <4>2. CASE ballot.vote # 0
        <5>1. ballot.vote \in 1 .. Len(votes) /\ ForBallot(ballot.vote) /\ ballot'.vote = ballot.vote
          BY <1>3, <1>4, <4>2 DEF FirstVoteCounts
        <5>2. votes[ballot.vote].election = votes[k].election
          BY <2>3, <3>2, <5>1 DEF ForBallot
        <5>3. ~(ballot.vote > k)
          BY <1>3, <5>1, <5>2
        <5> QED
          BY <1>3, <3>1, <3>2, <5>1, <5>3
      <4> QED
        BY <4>1, <4>2
    <3>3. CASE i # k
      <4>1. \A u \in Casting : wloc[u].cast # i
        BY <1>2, <1>7, <2>3, <3>3
      <4>2. ballot.vote \in 1 .. i
        BY <1>3, <2>3, <4>1 DEF FirstVoteCounts
      <4> QED
        BY <1>3, <1>4, <3>1, <4>2
    <3> QED
      BY <3>2, <3>3
  <2>4. ballot'.vote \in 1 .. Len(votes) => (ForBallot(ballot'.vote) <=> ForBallot(ballot.vote)')
    BY <1>1, <1>4 DEF ForBallot
  <2> QED
    BY <1>1, <1>3, <1>f, <2>2, <2>3, <2>4 DEF FirstVoteCounts
<1>10. since' \in 0 .. Len(votes')
  BY <1>0, <1>1 DEF Ballots
<1> QED
  BY <1>4, <1>5, <1>6, <1>8, <1>9, <1>10 DEF WitnessInv, Ballots

\* A new election in the tracker counts no vote yet.
LEMMA BallotStarted ==
  ASSUME WitnessInv, NEW e \in Elections, NEW tm \in VoteTerms, StartBallot(e, tm)
  PROVE  WitnessInv'
<1>0. WTypes /\ Ballots /\ WAlone /\ Followed
  BY DEF WitnessInv
<1>1. /\ ballot' = [id |-> e, term |-> tm, vote |-> 0] /\ since' = Len(votes)
      /\ UNCHANGED <<wmembers, wreachable, peer, copy, starts, part, votes, wpc, wloc, witnessOverlapped>>
  BY DEF StartBallot, peerVars, witnessClusterVars
<1>2. WTypes'
  BY <1>0, <1>1 DEF WTypes, WInHand
<1>3. WAlone' /\ Casting' = Casting
  BY <1>0, <1>1 DEF WAlone, WBusy, Casting
<1>4. Followed'
  BY <1>0, <1>1 DEF Followed, FollowsPeer, Under, Unlooped
<1>5. OnTheirWay'
  BY <1>0, <1>1, <1>3 DEF Ballots, OnTheirWay
<1>6. Len(votes) \in Nat
  BY <1>0 DEF WTypes
<1>7. Ballots'
  BY <1>1, <1>5, <1>6 DEF Ballots, FirstVoteCounts
<1> QED
  BY <1>2, <1>3, <1>4, <1>7 DEF WitnessInv

\* start spawns the heartbeat loop with a copy of the peers.
LEMMA LoopSpawned ==
  ASSUME WitnessInv, NEW t \in Threads, StartSpawn(t)
  PROVE  WitnessInv'
<1>0. WTypes /\ Ballots /\ WAlone /\ Followed
  BY DEF WitnessInv
<1> DEFINE clone == [n \in Peers |-> CASE peer[n] = "heard"  -> "fresh"
                                      [] peer[n] = "silent" -> "late"
                                      [] OTHER -> "absent"]
           i == starts + 1
<1>1. /\ wpc[t] = "start_spawn" /\ starts < MaxStarts /\ starts' = i /\ copy' = [copy EXCEPT ![i] = clone]
      /\ WGoto(t, "idle", WNoWork) /\ UNCHANGED <<wmembers, wreachable, peer, joinVars>>
  BY DEF StartSpawn, WReturn, witnessClusterVars
<1>2. starts \in Nat /\ MaxStarts \in Nat
  BY <1>0, WitnessConstants DEF WTypes
<1>3. i \in Loops /\ i \in Nat
  BY <1>1, <1>2 DEF Loops
<1>4. clone \in [Peers -> {"absent", "fresh", "behind", "late", "marked"}] /\ \A n \in Peers : peer[n] = "heard" => clone[n] # "absent"
  OBVIOUS
<1> HIDE DEF clone, i
<1>5. /\ copy'[i] = clone /\ copy' \in [Loops -> [Peers -> {"absent", "fresh", "behind", "late", "marked"}]]
  BY <1>0, <1>1, <1>3, <1>4 DEF WTypes
<1>6. WInHand'
  BY <1>0, <1>1, WIdleWork, WCarried DEF WLabels, PeerLabels
<1>7. WTypes' /\ WAlone' /\ (witnessOverlapped => witnessOverlapped')
  BY <1>0, <1>1, <1>3, <1>5, <1>6, WIdleWork, WMoved DEF WTypes, WLabels, joinVars
<1>8. \A n, l : l \in PeerLabels => (Under(n, l)' <=> Under(n, l))
  BY <1>0, <1>1, WIdleWork, WMoved DEF Under, WLabels, PeerLabels
<1>9. ASSUME NEW n \in Peers, FollowsPeer(n) PROVE FollowsPeer(n)'
  <2>1. peer[n] = "heard" => ~Unlooped(n)'
    BY <1>3, <1>4, <1>5 DEF Unlooped
  <2> QED
    BY <1>1, <1>8, <1>9, <2>1 DEF FollowsPeer, PeerLabels
<1>10. Followed'
  BY <1>0, <1>1, <1>7, <1>9 DEF Followed
<1>11. Ballots'
  BY <1>0, <1>1, WIdleWork, BallotsKept DEF WLabels, joinVars, ballotVars
<1> QED
  BY <1>7, <1>10, <1>11 DEF WitnessInv

\* The peer map is written first; the call goes on to the vote tracker.
LEMMA PeerWritten ==
  ASSUME WitnessInv, NEW t \in Threads, NEW n \in Peers, NEW label \in PeerLabels,
         NEW status \in {"absent", "heard"}, PeerStep(t, n, label, status),
         label = "peer_register" => status = "heard", label = "peer_remove" => status = "absent",
         label = "peer_heartbeat" => (status = "absent" <=> peer[n] = "absent")
  PROVE  WitnessInv'
<1>0. WTypes /\ Ballots /\ WAlone /\ Followed
  BY DEF WitnessInv
<1> DEFINE work == [WNoWork EXCEPT !.node = n]
<1>1. /\ wpc[t] = "idle" /\ peer' = [peer EXCEPT ![n] = status] /\ WGoto(t, label, work)
      /\ copy' = [i \in Loops |-> [copy[i] EXCEPT ![n] = IF @ = "fresh" THEN "behind" ELSE @]]
      /\ UNCHANGED <<wmembers, wreachable, starts, joinVars>>
  BY DEF PeerStep, witnessClusterVars
<1>2. work \in WTasks /\ work.node = n
  BY WIdleWork
<1>l. label \in WLabels \ {"cast_submit"} /\ label # "join_insert" /\ label # "idle"
  BY DEF WLabels, PeerLabels
<1> HIDE DEF work
<1>3. /\ wpc' \in [Threads -> WLabels] /\ wloc' \in [Threads -> WTasks] /\ witnessOverlapped' \in BOOLEAN
      /\ wpc'[t] = label /\ wloc'[t] = work /\ (witnessOverlapped => witnessOverlapped')
      /\ \A u \in Threads \ {t} : wpc'[u] = wpc[u] /\ wloc'[u] = wloc[u]
      /\ (~witnessOverlapped' => \A u \in Threads \ {t} : wpc[u] \in QuietLabels)
      /\ WAlone'
  BY <1>0, <1>1, <1>2, <1>l, WMoved
<1>4. /\ copy' \in [Loops -> [Peers -> {"absent", "fresh", "behind", "late", "marked"}]]
      /\ \A i \in Loops, m \in Peers : copy'[i][m] = "absent" <=> copy[i][m] = "absent"
  BY <1>0, <1>1 DEF WTypes
<1>5. peer' \in [Peers -> {"absent", "heard", "silent"}] /\ peer'[n] = status /\ \A m \in Peers \ {n} : peer'[m] = peer[m]
  BY <1>0, <1>1 DEF WTypes
<1>6. WInHand'
  BY <1>0, <1>1, <1>2, <1>l, WCarried
<1>7. WTypes'
  BY <1>0, <1>1, <1>3, <1>4, <1>5, <1>6 DEF WTypes, joinVars
<1>8. \A m \in Peers : Unlooped(m)' <=> Unlooped(m)
  BY <1>4 DEF Unlooped
<1>9. ASSUME NEW m \in Peers \ {n}, NEW l \in PeerLabels PROVE Under(m, l)' <=> Under(m, l)
  BY <1>1, <1>2, <1>3 DEF Under, PeerLabels
<1>10. ASSUME NEW m \in Peers \ {n}, FollowsPeer(m) PROVE FollowsPeer(m)'
  BY <1>1, <1>5, <1>8, <1>9, <1>10 DEF FollowsPeer, PeerLabels
<1>11. ASSUME ~witnessOverlapped' PROVE FollowsPeer(n)'
  <2>1. FollowsPeer(n)
    BY <1>0, <1>3, <1>11 DEF Followed
  <2>2. \A l \in PeerLabels : ~Under(n, l) /\ (Under(n, l)' <=> l = label)
    BY <1>1, <1>2, <1>3, <1>11 DEF Under, PeerLabels, QuietLabels
  <2>3. CASE label = "peer_register"
    BY <1>5, <2>2, <2>3 DEF FollowsPeer, PeerLabels
  <2>4. CASE label = "peer_remove"
    BY <1>5, <2>2, <2>4 DEF FollowsPeer, PeerLabels
  <2>5. CASE label = "peer_heartbeat"
    BY <1>1, <1>5, <2>1, <2>2, <2>5 DEF FollowsPeer, PeerLabels
  <2> QED
    BY <2>3, <2>4, <2>5 DEF PeerLabels
<1>12. Followed'
  BY <1>0, <1>1, <1>3, <1>10, <1>11 DEF Followed
<1>13. Ballots'
  BY <1>0, <1>1, <1>2, <1>l, BallotsKept DEF joinVars, ballotVars
<1> QED
  BY <1>3, <1>7, <1>12, <1>13 DEF WitnessInv

\* The vote tracker follows: the call about n returns.
LEMMA TrackerWritten ==
  ASSUME WitnessInv, NEW t \in Threads, TrackerRegister(t) \/ TrackerRemove(t) \/ TrackerHeartbeat(t)
  PROVE  WitnessInv'
<1>0. WTypes /\ Ballots /\ WAlone /\ Followed
  BY DEF WitnessInv
<1>p. wpc[t] \in PeerLabels
  BY DEF TrackerRegister, TrackerRemove, TrackerHeartbeat, PeerLabels
<1>2. PICK n \in Peers : n = wloc[t].node
  BY <1>0, <1>p DEF WTypes, WInHand
<1>1. /\ wpc[t] \in PeerLabels /\ WGoto(t, "idle", WNoWork) /\ UNCHANGED <<peer, copy, starts, joinVars>>
      /\ wpc[t] = "peer_register" => (wmembers' = wmembers \cup {n} /\ wreachable' = wreachable \cup {n})
      /\ wpc[t] = "peer_remove" => (wmembers' = wmembers \ {n} /\ wreachable' = wreachable \ {n})
      /\ wpc[t] = "peer_heartbeat" => (wmembers' = wmembers /\ wreachable' = wreachable \cup ({n} \cap wmembers))
  BY <1>2 DEF TrackerRegister, TrackerRemove, TrackerHeartbeat, Tracker!RegisterNode, Tracker!RemoveNode, Tracker!Heartbeat,
         WReturn, peerVars, PeerLabels
<1>u. Under(n, wpc[t])
  BY <1>2 DEF Under
<1>3. /\ wpc'[t] = "idle" /\ (witnessOverlapped => witnessOverlapped') /\ WAlone'
      /\ \A u \in Threads \ {t} : wpc'[u] = wpc[u] /\ wloc'[u] = wloc[u]
      /\ (~witnessOverlapped' => \A u \in Threads \ {t} : wpc[u] \in QuietLabels)
  BY <1>0, <1>1, WIdleWork, WMoved DEF WLabels, PeerLabels
<1>4. WInHand'
  BY <1>0, <1>1, WIdleWork, WCarried DEF WLabels, PeerLabels
<1>5. WTypes'
  BY <1>0, <1>1, <1>4, WIdleWork, WMoved DEF WTypes, WLabels, PeerLabels, joinVars
<1>6. ASSUME ~witnessOverlapped' PROVE wmembers' \subseteq Peers \cup {Self} /\ \A m \in Peers : FollowsPeer(m)'
  <2>1. wmembers \subseteq Peers \cup {Self} /\ \A m \in Peers : FollowsPeer(m)
    BY <1>0, <1>3, <1>6 DEF Followed
  <2>2. wmembers' \subseteq Peers \cup {Self}
    BY <1>1, <1>2, <2>1 DEF PeerLabels
  <2>3. \A m \in Peers, l \in PeerLabels : ~Under(m, l)' /\ (Under(m, l) => (m = wloc[t].node /\ l = wpc[t]))
    BY <1>3, <1>6 DEF Under, PeerLabels, QuietLabels
  <2>4. \A m \in Peers, l \in PeerLabels : Under(m, l) => (m = n /\ l = wpc[t])
    BY <1>2, <2>3
  <2>5. \A m \in Peers : Unlooped(m)' <=> Unlooped(m)
    BY <1>1 DEF Unlooped
  <2>6. ASSUME NEW m \in Peers \ {n} PROVE FollowsPeer(m)'
    <3>1. (m \in wmembers' <=> m \in wmembers) /\ (m \in wreachable' <=> m \in wreachable)
      BY <1>1 DEF PeerLabels
    <3> QED
      BY <1>1, <2>1, <2>3, <2>4, <2>5, <3>1 DEF FollowsPeer, PeerLabels
  <2>7. FollowsPeer(n)'
    <3>0. FollowsPeer(n)
      BY <1>2, <2>1
    <3>1. CASE wpc[t] = "peer_register"
      BY <1>1, <1>2, <1>u, <2>3, <3>0, <3>1 DEF FollowsPeer, PeerLabels
    <3>2. CASE wpc[t] = "peer_remove"
      BY <1>1, <1>2, <1>u, <2>3, <3>0, <3>2 DEF FollowsPeer, PeerLabels
    <3>3. CASE wpc[t] = "peer_heartbeat"
      <4>1. n \in wmembers <=> peer[n] # "absent"
        BY <1>2, <2>4, <3>0, <3>3 DEF FollowsPeer, PeerLabels
      <4> QED
        BY <1>1, <1>2, <2>3, <3>3, <4>1 DEF FollowsPeer, PeerLabels
    <3> QED
      BY <1>1, <3>1, <3>2, <3>3 DEF PeerLabels
  <2> QED
    BY <2>2, <2>6, <2>7
<1>7. Followed'
  BY <1>6 DEF Followed
<1>8. Ballots'
  BY <1>0, <1>1, WIdleWork, BallotsKept DEF WLabels, PeerLabels, joinVars, ballotVars
<1> QED
  BY <1>3, <1>5, <1>7, <1>8 DEF WitnessInv

\* Time passes, or a heartbeat loop acts on its copy.
LEMMA TimePassed ==
  ASSUME WitnessInv,
         \/ \E n \in Peers : PeerTimesOut(n)
         \/ \E i \in Loops : LoopEnds(i) \/ \E n \in Peers : CopyTimesOut(i, n) \/ Tick(i, n)
         \/ UNCHANGED witnessVars
  PROVE  WitnessInv'
<1>0. WTypes /\ Ballots /\ WAlone /\ Followed
  BY DEF WitnessInv
<1>1. UNCHANGED <<starts, joinVars, wpc, wloc, witnessOverlapped, wmembers>>
  BY DEF PeerTimesOut, LoopEnds, CopyTimesOut, Tick, witnessVars, witnessClusterVars, peerVars, Tracker!MarkUnreachable
<1>2. /\ copy' \in [Loops -> [Peers -> {"absent", "fresh", "behind", "late", "marked"}]]
      /\ \A j \in Loops, m \in Peers : copy'[j][m] = "absent" <=> copy[j][m] = "absent"
  <2>1. ASSUME NEW n \in Peers, PeerTimesOut(n) PROVE <1>2!1 /\ <1>2!2
    BY <1>0, <2>1 DEF PeerTimesOut, WTypes
  <2>2. ASSUME NEW i \in Loops, NEW n \in Peers, CopyTimesOut(i, n) \/ Tick(i, n) PROVE <1>2!1 /\ <1>2!2
    <3>1. PICK time \in {"late", "marked"} : copy' = [copy EXCEPT ![i][n] = time]
      BY <2>2 DEF CopyTimesOut, Tick
    <3>2. copy[i][n] # "absent"
      BY <2>2 DEF CopyTimesOut, Tick
    <3> QED
      BY <1>0, <3>1, <3>2 DEF WTypes
  <2>3. ASSUME UNCHANGED copy PROVE <1>2!1 /\ <1>2!2
    BY <1>0, <2>3 DEF WTypes
  <2> QED
    BY <2>1, <2>2, <2>3 DEF LoopEnds, witnessVars, peerVars
<1>3. /\ peer' \in [Peers -> {"absent", "heard", "silent"}]
      /\ \A m \in Peers : \/ peer'[m] = peer[m]
                          \/ peer'[m] = "silent" /\ peer[m] = "heard"
  <2>1. ASSUME NEW n \in Peers, PeerTimesOut(n) PROVE <1>3!1 /\ <1>3!2
    BY <1>0, <2>1 DEF PeerTimesOut, WTypes
  <2>2. ASSUME UNCHANGED peer PROVE <1>3!1 /\ <1>3!2
    BY <1>0, <2>2 DEF WTypes
  <2> QED
    BY <2>1, <2>2 DEF LoopEnds, CopyTimesOut, Tick, witnessVars, peerVars
<1>4. \A m \in Peers : (m \in wreachable /\ Unlooped(m)) => m \in wreachable'
  <2>1. ASSUME NEW i \in Loops, NEW n \in Peers, Tick(i, n) PROVE <1>4
    BY <2>1 DEF Tick, Tracker!MarkUnreachable, Unlooped
  <2>2. ASSUME UNCHANGED wreachable PROVE <1>4
    BY <2>2
  <2> QED
    BY <2>1, <2>2 DEF LoopEnds, CopyTimesOut, PeerTimesOut, witnessVars, witnessClusterVars
<1>5. \A m \in Peers : (Unlooped(m)' <=> Unlooped(m)) /\ \A l : Under(m, l)' <=> Under(m, l)
  BY <1>1, <1>2 DEF Unlooped, Under
<1>6. ASSUME NEW m \in Peers, FollowsPeer(m) PROVE FollowsPeer(m)'
  <2>1. CASE peer'[m] = peer[m]
    BY <1>1, <1>4, <1>5, <1>6, <2>1 DEF FollowsPeer
  <2>2. CASE peer'[m] = "silent" /\ peer[m] = "heard"
    BY <1>1, <1>5, <1>6, <2>2 DEF FollowsPeer
  <2> QED
    BY <1>3, <2>1, <2>2
<1>7. Followed'
  BY <1>0, <1>1, <1>6 DEF Followed
<1>8. WTypes'
  BY <1>0, <1>1, <1>2, <1>3 DEF WTypes, WInHand, joinVars
<1>9. WAlone' /\ Casting' = Casting
  BY <1>0, <1>1 DEF WAlone, WBusy, Casting
<1>10. Ballots'
  BY <1>0, <1>1, <1>9, BallotsSame DEF joinVars, ballotVars
<1> QED
  BY <1>7, <1>8, <1>9, <1>10 DEF WitnessInv

\* Every step keeps the invariant, one case per action.
LEMMA WitnessPreserved == WitnessInv /\ [WitnessNext]_witnessVars => WitnessInv'
<1> SUFFICES ASSUME WitnessInv, [WitnessNext]_witnessVars PROVE WitnessInv'
  OBVIOUS
<1>1. ASSUME NEW t \in Threads, NEW n \in Peers, RegisterPeer(t, n) \/ RemovePeer(t, n) \/ ReceiveHeartbeat(t, n)
      PROVE  WitnessInv'
  <2>1. CASE RegisterPeer(t, n)
    BY <2>1, PeerWritten DEF RegisterPeer, PeerLabels
  <2>2. CASE RemovePeer(t, n)
    BY <2>2, PeerWritten DEF RemovePeer, PeerLabels
  <2>3. CASE ReceiveHeartbeat(t, n)
    <3> DEFINE status == IF peer[n] = "absent" THEN "absent" ELSE "heard"
    <3>1. PeerStep(t, n, "peer_heartbeat", status)
      BY <2>3 DEF ReceiveHeartbeat
    <3>2. status \in {"absent", "heard"} /\ (status = "absent" <=> peer[n] = "absent")
      OBVIOUS
    <3> HIDE DEF status
    <3> QED
      BY <3>1, <3>2, PeerWritten DEF PeerLabels
  <2> QED
    BY <1>1, <2>1, <2>2, <2>3
<1>2. ASSUME NEW t \in Threads, WitnessCall(t) PROVE WitnessInv'
  BY <1>1, <1>2, PlainSteps, LeaveRemoved, VoteCast DEF WitnessCall
<1>3. ASSUME NEW t \in Threads, WitnessContinue(t) PROVE WitnessInv'
  BY <1>3, PlainSteps, LoopSpawned, TrackerWritten, JoinInserted, VoteSubmitted DEF WitnessContinue
<1> QED
  BY <1>2, <1>3, TimePassed, BallotStarted DEF WitnessNext, HeartbeatLoop

\* For any number of threads, elections, terms and candidates: however often the
\* witness joins an election again and votes again, the first of the votes it
\* casts once the election is the tracker's is the one that counts
\* (join_election, cast_vote, leave_election; add_vote and start_election).
THEOREM FirstVote == WitnessSpec => []FirstVoteCounts
<1>1. WitnessInv => FirstVoteCounts
  BY DEF WitnessInv, Ballots
<1> QED
  BY <1>1, WitnessInitial, WitnessPreserved, PTL DEF WitnessSpec

\* For any number of peers, calls and heartbeat loops: when calls come one
\* after the other, the members of the vote tracker are the peers, and a peer
\* that is heard from is reachable unless a loop has it in its copy
\* (register_peer, remove_peer, receive_heartbeat).
THEOREM TrackerFollows == WitnessSpec => []TrackerFollowsPeers
<1>1. WitnessInv => TrackerFollowsPeers
  <2> SUFFICES ASSUME WitnessInv, ~witnessOverlapped, WBusy = {}
               PROVE  /\ wmembers \ {Self} = {n \in Peers : peer[n] # "absent"}
                      /\ \A n \in Peers : (peer[n] = "heard" /\ Unlooped(n)) => n \in wreachable
    BY DEF TrackerFollowsPeers, Unlooped
  <2>1. wmembers \subseteq Peers \cup {Self} /\ \A n \in Peers : FollowsPeer(n)
    BY DEF WitnessInv, Followed
  <2>2. \A n, l : l \in PeerLabels => ~Under(n, l)
    BY DEF Under, WBusy, Casting, PeerLabels
  <2>3. \A n \in Peers : n # Self /\ (n \in wmembers <=> peer[n] # "absent")
    BY <2>1, <2>2, WitnessConstants DEF FollowsPeer, PeerLabels
  <2>4. \A n \in Peers : (peer[n] = "heard" /\ Unlooped(n)) => n \in wreachable
    BY <2>1, <2>2 DEF FollowsPeer, PeerLabels
  <2> QED
    BY <2>1, <2>3, <2>4
<1> QED
  BY <1>1, WitnessInitial, WitnessPreserved, PTL DEF WitnessSpec
=============================================================================
