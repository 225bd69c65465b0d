------------------------------- MODULE Witness -------------------------------
(***************************************************************************)
(* The witness node (warp-store, arbiter/witness.rs), on the membership    *)
(* half of its vote tracker and its current election: its life cycle, its  *)
(* peers and their heartbeats, and the votes it casts and submits to the   *)
(* tracker, which other components may share with it.                      *)
(*                                                                         *)
(* The heartbeat loop works on a clone of the peer map that is taken when  *)
(* it is spawned.  A thread makes one call at a time; every access to a    *)
(* map or to the state is a step of its own.                               *)
(***************************************************************************)
EXTENDS ClusterNodes, Sequences

CONSTANTS
  Peers,         \* the nodes that register with the witness
  Elections,     \* election ids
  VoteTerms,     \* terms of elections and of votes
  MaxJoined,     \* WitnessConfig::max_elections
  MaxStarts,     \* bound: calls of start
  MaxVotes       \* bound: votes the witness casts

ASSUME WitnessConstants ==
  /\ Peers \subseteq Nodes \ {Self}
  /\ MaxJoined \in Nat /\ MaxStarts \in Nat /\ MaxVotes \in Nat
  /\ {"out", "open"} \cap Candidates = {}
  /\ "none" \notin Elections

Loops == 1 .. MaxStarts

VARIABLES
  wmembers, wreachable,   \* the membership of its own vote tracker
  wstate,    \* state
  peer,      \* peers: "absent", "heard" from within peer_timeout, or "silent"
  loop,      \* heartbeat loops: "none", "running", "signalled" or "ended"
  copy,      \* each loop's clone of peers: "absent"; "fresh" or "behind", its time
             \* being that of the peer's last heartbeat or an earlier one; "late"
             \* when peer_timeout is over; "marked" as unreachable
  starts,    \* loops spawned so far
  part,      \* active_elections: "out", "open", or the candidate voted for
  votes,     \* votes_cast
  ballot,    \* the tracker's current election, and which of the votes it counts
  begun,     \* elections started so far: next_election_id gives each id once
  since,     \* history: how many votes were cast before the current election started
  wpc, wloc,   \* where each thread is, and its locals
  witnessOverlapped \* history: two calls have been under way at the same time

witnessClusterVars  == <<wmembers, wreachable>>
peerVars     == <<peer, loop, copy, starts>>
ballotVars   == <<ballot, begun, since>>
joinVars     == <<part, votes, ballotVars>>
witnessVars  == <<witnessClusterVars, wstate, peerVars, joinVars, wpc, wloc, witnessOverlapped>>

\* The vote tracker of the witness, which knows nobody when it is created.
Tracker == INSTANCE ClusterNodes WITH
  Members <- {}, members <- wmembers, reachable <- wreachable

WNoWork == [node |-> Self, election |-> "none", cast |-> 0]

\* Threads in cast_vote hold the guard of the election they vote in.
Casting == {t \in Threads : wpc[t] = "cast_submit"}
Guarded(e) == \E t \in Casting : wloc[t].election = e

WBusy  == {t \in Threads : wpc[t] # "idle"} \ Casting
Active == {e \in Elections : part[e] # "out"}

WGoto(t, label, work) ==
  /\ wpc' = [wpc EXCEPT ![t] = label]
  /\ wloc' = [wloc EXCEPT ![t] = work]
  /\ witnessOverlapped' = (witnessOverlapped \/ (label # "idle" /\ WBusy \ {t} # {}))

WReturn(t) == WGoto(t, "idle", WNoWork)

\* cast_vote touches neither the peers nor the members.
CastGoto(t, label, work) ==
  /\ wpc' = [wpc EXCEPT ![t] = label]
  /\ wloc' = [wloc EXCEPT ![t] = work]
  /\ UNCHANGED witnessOverlapped

-----------------------------------------------------------------------------
WitnessInit ==
  /\ Tracker!ClusterInit
  /\ wstate = "Starting"
  /\ peer = [n \in Peers |-> "absent"]
  /\ loop = [i \in Loops |-> "none"]
  /\ copy = [i \in Loops |-> [n \in Peers |-> "absent"]]
  /\ starts = 0
  /\ part = [e \in Elections |-> "out"]
  /\ votes = <<>>
  /\ ballot = [id |-> "none", term |-> 0, vote |-> 0]
  /\ begun = {} /\ since = 0
  /\ witnessOverlapped = FALSE
  /\ wpc = [t \in Threads |-> "idle"]
  /\ wloc = [t \in Threads |-> WNoWork]

(* start and stop *)

Start(t) ==
  /\ wpc[t] = "idle"
  /\ starts < MaxStarts
  /\ wstate \in {"Starting", "Stopped"}
  /\ wstate' = "Active"
  /\ WGoto(t, "start_register", WNoWork)
  /\ UNCHANGED <<witnessClusterVars, peerVars, joinVars>>

StartRegister(t) ==
  /\ wpc[t] = "start_register"
  /\ Tracker!RegisterNode(Self)
  /\ WGoto(t, "start_spawn", WNoWork)
  /\ UNCHANGED <<wstate, peerVars, joinVars>>

\* The loop gets its own copy of the peers, with the times of their last
\* heartbeats.
StartSpawn(t) ==
  /\ wpc[t] = "start_spawn"
  /\ starts < MaxStarts
  /\ starts' = starts + 1
  /\ loop' = [loop EXCEPT ![starts + 1] = "running"]
  /\ copy' = [copy EXCEPT ![starts + 1] =
                [n \in Peers |-> CASE peer[n] = "heard"  -> "fresh"
                                   [] peer[n] = "silent" -> "late"
                                   [] OTHER -> "absent"]]
  /\ WReturn(t)
  /\ UNCHANGED <<witnessClusterVars, wstate, peer, joinVars>>

Stop(t) ==
  /\ wpc[t] = "idle"
  /\ wstate # "Stopped"
  /\ wstate' = "ShuttingDown"
  /\ WGoto(t, "stop_send", WNoWork)
  /\ UNCHANGED <<witnessClusterVars, peerVars, joinVars>>

StopSend(t) ==
  /\ wpc[t] = "stop_send"
  /\ loop' = [i \in Loops |-> IF loop[i] = "running" THEN "signalled" ELSE loop[i]]
  /\ WGoto(t, "stop_done", WNoWork)
  /\ UNCHANGED <<witnessClusterVars, wstate, peer, copy, starts, joinVars>>

StopDone(t) ==
  /\ wpc[t] = "stop_done"
  /\ wstate' = "Stopped"
  /\ WReturn(t)
  /\ UNCHANGED <<witnessClusterVars, peerVars, joinVars>>

(* register_peer, remove_peer and receive_heartbeat *)

\* The peer map first, then the vote tracker; the clones keep their times.
PeerStep(t, n, label, status) ==
  /\ wpc[t] = "idle"
  /\ peer' = [peer EXCEPT ![n] = status]
  /\ copy' = [i \in Loops |-> [copy[i] EXCEPT ![n] = IF @ = "fresh" THEN "behind" ELSE @]]
  /\ WGoto(t, label, [WNoWork EXCEPT !.node = n])
  /\ UNCHANGED <<witnessClusterVars, wstate, loop, starts, joinVars>>

RegisterPeer(t, n) == PeerStep(t, n, "peer_register", "heard")
RemovePeer(t, n)   == PeerStep(t, n, "peer_remove", "absent")
ReceiveHeartbeat(t, n) ==
  PeerStep(t, n, "peer_heartbeat", IF peer[n] = "absent" THEN "absent" ELSE "heard")

TrackerRegister(t) ==
  /\ wpc[t] = "peer_register"
  /\ Tracker!RegisterNode(wloc[t].node)
  /\ WReturn(t)
  /\ UNCHANGED <<wstate, peerVars, joinVars>>

\* Mutant: the vote tracker only hears that the peer does not answer.
TrackerUnreachable(t) ==
  /\ wpc[t] = "peer_remove"
  /\ Tracker!MarkUnreachable(wloc[t].node)
  /\ WReturn(t)
  /\ UNCHANGED <<wstate, peerVars, joinVars>>

TrackerRemove(t) ==
  /\ wpc[t] = "peer_remove"
  /\ Tracker!RemoveNode(wloc[t].node)
  /\ WReturn(t)
  /\ UNCHANGED <<wstate, peerVars, joinVars>>

TrackerHeartbeat(t) ==
  /\ wpc[t] = "peer_heartbeat"
  /\ Tracker!Heartbeat(wloc[t].node)
  /\ WReturn(t)
  /\ UNCHANGED <<wstate, peerVars, joinVars>>

(* the heartbeat loop *)

\* peer_timeout passes since the last heartbeat of a peer: its times in the
\* clones are no later.
PeerTimesOut(n) ==
  /\ peer[n] = "heard"
  /\ peer' = [peer EXCEPT ![n] = "silent"]
  /\ copy' = [i \in Loops |-> [copy[i] EXCEPT ![n] = IF @ \in {"fresh", "behind"} THEN "late" ELSE @]]
  /\ UNCHANGED <<witnessClusterVars, wstate, loop, starts, joinVars, wpc, wloc, witnessOverlapped>>

\* peer_timeout passes since the time in the clone; the peer was heard from since.
CopyTimesOut(i, n) ==
  /\ copy[i][n] = "behind"
  /\ copy' = [copy EXCEPT ![i][n] = "late"]
  /\ UNCHANGED <<witnessClusterVars, wstate, peer, loop, starts, joinVars, wpc, wloc, witnessOverlapped>>

Tick(i, n) ==
  /\ loop[i] \in {"running", "signalled"}
  /\ copy[i][n] = "late"
  /\ copy' = [copy EXCEPT ![i][n] = "marked"]
  /\ Tracker!MarkUnreachable(n)
  /\ UNCHANGED <<wstate, peer, loop, starts, joinVars, wpc, wloc, witnessOverlapped>>

LoopEnds(i) ==
  /\ loop[i] = "signalled"
  /\ loop' = [loop EXCEPT ![i] = "ended"]
  /\ UNCHANGED <<witnessClusterVars, wstate, peer, copy, starts, joinVars, wpc, wloc, witnessOverlapped>>

(* join_election, cast_vote and leave_election *)

\* len waits for the guards that are held.
Join(t, e) ==
  /\ wpc[t] = "idle"
  /\ Casting = {}
  /\ Cardinality(Active) < MaxJoined
  /\ WGoto(t, "join_insert", [WNoWork EXCEPT !.election = e])
  /\ UNCHANGED <<witnessClusterVars, wstate, peerVars, joinVars>>

\* A new participation, over one that is there.
JoinInsert(t) ==
  /\ wpc[t] = "join_insert"
  /\ ~Guarded(wloc[t].election)
  /\ part' = [part EXCEPT ![wloc[t].election] = "open"]
  /\ WGoto(t, "join_state", WNoWork)
  /\ UNCHANGED <<witnessClusterVars, wstate, peerVars, votes, ballotVars>>

JoinState(t) ==
  /\ wpc[t] = "join_state"
  /\ wstate' = "Voting"
  /\ WReturn(t)
  /\ UNCHANGED <<witnessClusterVars, peerVars, joinVars>>

\* The vote is recorded under the guard of the participation, which is held until
\* the tracker has it; a witness that has voted returns its vote.
WitnessCastVote(t, e, c, term) ==
  /\ wpc[t] = "idle"
  /\ Len(votes) < MaxVotes
  /\ ~Guarded(e)
  /\ part[e] = "open"
  /\ part' = [part EXCEPT ![e] = c]
  /\ votes' = Append(votes, [election |-> e, candidate |-> c, term |-> term])
  /\ CastGoto(t, "cast_submit", [WNoWork EXCEPT !.election = e, !.cast = Len(votes) + 1])
  /\ UNCHANGED <<witnessClusterVars, wstate, peerVars, ballotVars>>

\* Only votes for the current election and its term count.
ForBallot(i) == votes[i].election = ballot.id /\ votes[i].term = ballot.term

\* Mutant: a later vote replaces the one that is there.
CountLatest(i) ==
  ballot' = IF ForBallot(i) THEN [ballot EXCEPT !.vote = i] ELSE ballot

\* add_vote: only one vote per node.
CountVote(i) ==
  ballot' = IF ForBallot(i) /\ ballot.vote = 0 THEN [ballot EXCEPT !.vote = i] ELSE ballot

CastSubmit(t) ==
  /\ wpc[t] = "cast_submit"
  /\ CountVote(wloc[t].cast)
  /\ CastGoto(t, "idle", WNoWork)
  /\ UNCHANGED <<witnessClusterVars, wstate, peerVars, part, votes, begun, since>>

\* start_election on the tracker, by a component that shares it.
StartBallot(e, term) ==
  /\ e \notin begun
  /\ begun' = begun \cup {e}
  /\ ballot' = [id |-> e, term |-> term, vote |-> 0]
  /\ since' = Len(votes)
  /\ UNCHANGED <<witnessClusterVars, wstate, peerVars, part, votes, wpc, wloc, witnessOverlapped>>

LeaveRemove(t, e) ==
  /\ wpc[t] = "idle"
  /\ ~Guarded(e)
  /\ part[e] # "out"
  /\ part' = [part EXCEPT ![e] = "out"]
  /\ WGoto(t, "leave_check", WNoWork)
  /\ UNCHANGED <<witnessClusterVars, wstate, peerVars, votes, ballotVars>>

\* is_empty waits for the guards that are held.
LeaveCheck(t) ==
  /\ wpc[t] = "leave_check"
  /\ Casting = {}
  /\ WGoto(t, IF Active = {} THEN "leave_state" ELSE "idle", WNoWork)
  /\ UNCHANGED <<witnessClusterVars, wstate, peerVars, joinVars>>

LeaveState(t) ==
  /\ wpc[t] = "leave_state"
  /\ wstate' = "Active"
  /\ WReturn(t)
  /\ UNCHANGED <<witnessClusterVars, peerVars, joinVars>>

-----------------------------------------------------------------------------
WitnessCall(t) ==
  \/ Start(t) \/ Stop(t)
  \/ \E n \in Peers : RegisterPeer(t, n) \/ RemovePeer(t, n) \/ ReceiveHeartbeat(t, n)
  \/ \E e \in Elections :
       \/ Join(t, e) \/ LeaveRemove(t, e)
       \/ \E c \in Candidates, term \in VoteTerms : WitnessCastVote(t, e, c, term)

WitnessContinue(t) ==
  \/ StartRegister(t) \/ StartSpawn(t) \/ StopSend(t) \/ StopDone(t)
  \/ TrackerRegister(t) \/ TrackerRemove(t) \/ TrackerHeartbeat(t)
  \/ JoinInsert(t) \/ JoinState(t) \/ CastSubmit(t) \/ LeaveCheck(t) \/ LeaveState(t)

HeartbeatLoop(i) == LoopEnds(i) \/ \E n \in Peers : Tick(i, n)

WitnessNext ==
  \/ \E t \in Threads : WitnessCall(t) \/ WitnessContinue(t)
  \/ \E i \in Loops : HeartbeatLoop(i) \/ \E n \in Peers : CopyTimesOut(i, n)
  \/ \E n \in Peers : PeerTimesOut(n)
  \/ \E e \in Elections, term \in VoteTerms : StartBallot(e, term)

WitnessSpec == WitnessInit /\ [][WitnessNext]_witnessVars

-----------------------------------------------------------------------------
(* Properties *)

\* Types; only registered nodes count as reachable, whoever sends heartbeats
\* and however late the loop acts on its copy.
WitnessTypeOK ==
  /\ Tracker!ClusterTypeOK
  /\ wstate \in {"Starting", "Active", "Voting", "ShuttingDown", "Stopped"}
  /\ peer \in [Peers -> {"absent", "heard", "silent"}]
  /\ copy \in [Loops -> [Peers -> {"absent", "fresh", "behind", "late", "marked"}]]
  /\ part \in [Elections -> {"out", "open"} \cup Candidates]

\* However often the witness leaves an election, joins it again and votes again,
\* from several threads at once: of the votes it casts once the election is the
\* tracker's current one, the first for that election and term is the one that is
\* counted, unless one cast before is; and only a vote for that election and term is.
\* (witness.rs:385 "Only vote once" holds of what counts, not of votes_cast:
\* joining again forgets the vote.)
FirstVoteCounts ==
  /\ ballot.vote # 0 => (ballot.vote \in 1 .. Len(votes) /\ ForBallot(ballot.vote))
  /\ \A i \in since + 1 .. Len(votes) :
       (ForBallot(i) /\ \A t \in Casting : wloc[t].cast # i)
         => ballot.vote \in 1 .. i

\* As long as calls come one after the other, the vote tracker follows the peers.
\* Its members are the witness itself and its peers: otherwise the quorum would be
\* counted over the wrong set.  A peer that is heard from counts as reachable
\* (vote.rs:221 "Is node currently reachable?") unless a heartbeat loop has it in
\* its copy, where it is never heard from.
TrackerFollowsPeers ==
  (~witnessOverlapped /\ WBusy = {}) =>
    /\ wmembers \ {Self} = {n \in Peers : peer[n] # "absent"}
    /\ \A n \in Peers : (peer[n] = "heard" /\ \A i \in Loops : copy[i][n] = "absent")
                         => n \in wreachable
=============================================================================
