------------------------------ MODULE MCArbiter ------------------------------
(* The vote tracker, the split-brain detector and the witness on small        *)
(* clusters.  Each is used by a node of its own, so a behaviour is one of one *)
(* of them.                                                                   *)
EXTENDS VoteTracker, SplitBrain, Witness, TLC

VARIABLE arbiter

Init ==
  /\ arbiter \in {"votes", "detector", "witness", "ballots"}
  /\ VoteInit /\ DetectorInit /\ WitnessInit

Votes    == arbiter = "votes" /\ VoteNext /\ UNCHANGED <<detectorVars, witnessVars>>
Detector == arbiter = "detector" /\ DetectorNext /\ UNCHANGED <<voteVars, witnessVars>>

\* The witness with its peers but no votes, and with its votes but neither peers
\* nor a start or stop: no step of an election reads what those change.
Standby == /\ arbiter = "witness" /\ WitnessNext
           /\ UNCHANGED <<votes, ballotVars, voteVars, detectorVars>>
Ballots == /\ arbiter = "ballots" /\ WitnessNext
           /\ \A t \in Threads : wpc'[t] \notin {"start_register", "stop_send"}
           /\ UNCHANGED <<peerVars, witnessClusterVars, voteVars, detectorVars>>

Next == (Votes \/ Detector \/ Standby \/ Ballots) /\ UNCHANGED arbiter
Spec == Init /\ [][Next]_<<arbiter, voteVars, detectorVars, witnessVars>>

Symmetric == Permutations(Threads)
=============================================================================
