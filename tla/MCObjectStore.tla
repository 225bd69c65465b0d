---------------------------- MODULE MCObjectStore ----------------------------
(* Parts of the object store on small instances: the CRDT store's registers   *)
(* and counters, the persistent Raft log, the replicated metadata and, for    *)
(* what follows a partition, the fencing manager and the recovery             *)
(* coordinator.  A behaviour is one of one of the first four, or of the last  *)
(* two: the others share no state.                                            *)
EXTENDS CrdtRegister, CrdtCounters, RaftLog, MetadataStore, Recovery, TLC

\* bound: puts, deltas applied and restarts of registers, together
CONSTANT MaxCalls

VARIABLE part

Parts == {"register", "g_counters", "pn_counters", "log", "metadata", "fencing", "recovery"}

Init ==
  /\ part \in Parts
  /\ RegisterInit /\ CounterInit /\ RaftLogInit /\ MetadataInit /\ FailoverInit
  \* One initial state of the components that do not move.
  /\ part # "register" => \A n \in Replicas : hlc[n] = <<0, 0>>
  /\ part # "metadata" => raftLeader = NoWrite.node

Registers  == /\ part = "register" /\ RegisterNext
              /\ Len(puts') + applies' + restarts' <= MaxCalls
              /\ UNCHANGED <<counterVars, raftVars, metadataVars, failoverVars>>
\* An operation on one kind of counter leaves the other kind alone.  Fewer counts
\* are followed on PN-counters, whose deltas make the totals grow by themselves.
Counters   == /\ CounterNext
              /\ \/ part = "g_counters" /\ UNCHANGED pn
                 \/ part = "pn_counters" /\ UNCHANGED gc /\ Asked' < MaxCounts
              /\ UNCHANGED <<registerVars, raftVars, metadataVars, failoverVars>>
LogOnDisk  == /\ part = "log" /\ RaftLogNext
              /\ UNCHANGED <<registerVars, counterVars, metadataVars, failoverVars>>
Replicated == /\ part = "metadata" /\ MetadataNext
              /\ UNCHANGED <<registerVars, counterVars, raftVars, failoverVars>>

\* The fencing manager with all its threads, or the coordinator's threads beside
\* one that fences one node.
Fencer == CHOOSE t \in Fencers : TRUE
Target == CHOOSE n \in FenceNodes : TRUE

FencingOnly  == /\ part = "fencing" /\ FencingNext
                /\ UNCHANGED recoveryVars
BesideFencer == /\ part = "recovery"
                /\ \/ \E t \in Recoverers : RecoveryStep(t)
                   \/ /\ FencingStep(Fencer)
                      /\ floc'[Fencer].node \in {Target, NoFenceNode}
                      /\ UNCHANGED recoveryVars
Failover     == /\ FencingOnly \/ BesideFencer
                /\ UNCHANGED <<registerVars, counterVars, raftVars, metadataVars>>

Next == /\ Registers \/ Counters \/ LogOnDisk \/ Replicated \/ Failover
        /\ UNCHANGED part
Spec == /\ Init
        /\ [][Next]_<<part, registerVars, counterVars, raftVars, metadataVars,
                      failoverVars>>

\* The threads that recover or write are interchangeable, and so are the fence
\* agents.
Symmetric == Permutations(Recoverers) \cup Permutations(Agents)
=============================================================================
