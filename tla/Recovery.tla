------------------------------ MODULE Recovery ------------------------------
(***************************************************************************)
(* The recovery coordinator (warp-store, arbiter/recovery.rs), composed    *)
(* with the fencing manager whose fences it releases.                      *)
(*                                                                         *)
(* start_recovery makes a plan, execute_plan works on a copy of it step by *)
(* step, cancel resets the coordinator; all of them may run at once, and   *)
(* so may the fencing manager.                                             *)
(***************************************************************************)
EXTENDS Fencing, Sequences

CONSTANTS
  Recoverers,     \* threads that use the coordinator
  Keys,           \* object keys that may be in conflict
  Clashes,        \* pairs of modification times; 0 stands for a deleted version
  Strategy,       \* conflict_strategy
  VerifyChecksums,\* verify_checksums
  MaxPlans        \* bound: recoveries that are started

ASSUME RecoveryConstants ==
  /\ Clashes \subseteq Nat \X Nat
  /\ Strategy \in {"LastWriteWins", "KeepBoth", "MajorityWins", "Manual", "VectorClock"}
  /\ VerifyChecksums \in BOOLEAN
  /\ MaxPlans \in Nat

VARIABLES
  state,      \* state
  plan,       \* current_plan: a record, NoPlan for None
  nextPlan,   \* the static NEXT_ID, which numbers the plans
  quiesced,   \* quiesced_nodes
  conflicts,  \* conflicts
  rpc, rloc,  \* where each thread is, and its copy of the plan
  overlapped  \* history: two calls on the coordinator have been under way at once

recoveryVars == <<state, plan, nextPlan, quiesced, conflicts, rpc, rloc, overlapped>>
failoverVars == <<fencingVars, recoveryVars>>

States == {"Idle", "Assessing", "Reconciling", "Replaying", "Complete", "Failed"}

NoPlan     == [ours |-> {}, sync |-> {}, steps |-> <<>>, todo |-> {}]
NoConflict == [a |-> 0, b |-> 0, winner |-> "absent"]

\* Mutant: the data is synced before the writes are quiesced.
BuildStepsSyncFirst(sync) ==
  (IF sync = {} THEN <<>> ELSE <<"ReleaseFences">>)
  \o <<"CollectEpochs", "CompareVersions", "ResolveConflicts",
       "SyncData", "QuiesceWrites", "ResumeWrites", "Cleanup">>

\* Mutant: fences are released after the writes have been quiesced.
BuildStepsReleaseLate(sync) ==
  <<"QuiesceWrites">> \o (IF sync = {} THEN <<>> ELSE <<"ReleaseFences">>)
  \o <<"CollectEpochs", "CompareVersions", "ResolveConflicts",
       "SyncData", "ResumeWrites", "Cleanup">>

BuildSteps(sync) ==
  (IF sync = {} THEN <<>> ELSE <<"ReleaseFences">>)
  \o <<"QuiesceWrites", "CollectEpochs", "CompareVersions", "ResolveConflicts",
       "SyncData">>
  \o (IF VerifyChecksums THEN <<"VerifyChecksums">> ELSE <<>>)
  \o <<"ResumeWrites", "Cleanup">>

RGoto(t, label, p) ==
  /\ rpc' = [rpc EXCEPT ![t] = label] /\ rloc' = [rloc EXCEPT ![t] = p]
  /\ overlapped' = (overlapped \/ \E u \in Recoverers \ {t} : rpc[u] # "idle")

Running(t) == rpc[t] \in {"next", "release", "quiesce", "sync", "resume", "cleanup",
                          "complete"}

-----------------------------------------------------------------------------
RecoveryInit ==
  /\ state = "Idle"
  /\ plan = NoPlan
  /\ nextPlan = 1
  /\ quiesced = {}
  /\ conflicts = [k \in Keys |-> NoConflict]
  /\ rpc = [t \in Recoverers |-> "idle"]
  /\ rloc = [t \in Recoverers |-> NoPlan]
  /\ overlapped = FALSE

FailoverInit == FencingInit /\ RecoveryInit

(* start_recovery: refused unless the state is Idle *)

StartRecovery(t, ours, others) ==
  /\ rpc[t] = "idle"
  /\ nextPlan <= MaxPlans
  /\ state = "Idle"
  /\ state' = "Assessing"
  /\ nextPlan' = nextPlan + 1
  /\ RGoto(t, "store", [ours |-> ours, sync |-> others,
                        steps |-> BuildSteps(others), todo |-> {}])
  /\ UNCHANGED <<plan, quiesced, conflicts, fencingVars>>

StartStore(t) ==
  /\ rpc[t] = "store"
  /\ plan' = rloc[t]
  /\ RGoto(t, "idle", NoPlan)
  /\ UNCHANGED <<state, nextPlan, quiesced, conflicts, fencingVars>>

(* execute_plan *)

ExecutePlan(t) ==
  /\ rpc[t] = "idle"
  /\ plan # NoPlan
  /\ RGoto(t, "next", plan)
  /\ UNCHANGED <<state, plan, nextPlan, quiesced, conflicts,
                 fencingVars>>

\* The targets of a step that works through nodes.
StepBegins(t, step, label, targets) ==
  /\ rpc[t] = "next"
  /\ rloc[t].steps # <<>>
  /\ Head(rloc[t].steps) = step
  /\ RGoto(t, label, [rloc[t] EXCEPT !.steps = Tail(@), !.todo = targets])

\* Steps that this version only logs.
LogStep(t) ==
  /\ \E step \in {"CollectEpochs", "CompareVersions", "VerifyChecksums"} :
       StepBegins(t, step, "next", {})
  /\ UNCHANGED <<state, plan, nextPlan, quiesced, conflicts,
                 fencingVars>>

LoopStep(t) ==
  /\ \/ StepBegins(t, "ReleaseFences", "release", rloc[t].sync) /\ UNCHANGED state
     \/ StepBegins(t, "QuiesceWrites", "quiesce", rloc[t].ours) /\ UNCHANGED state
     \/ StepBegins(t, "SyncData", "sync", rloc[t].sync) /\ state' = "Replaying"
     \/ StepBegins(t, "ResumeWrites", "resume", rloc[t].ours) /\ UNCHANGED state
  /\ UNCHANGED <<plan, nextPlan, quiesced, conflicts, fencingVars>>

\* Mutant: the loop over the nodes starts again after every node.
VisitAgain(t, label, n) ==
  /\ rpc[t] = label
  /\ n \in rloc[t].todo
  /\ RGoto(t, label, [rloc[t] EXCEPT !.todo = {n} \cup (rloc[t].ours \ @)])

Visit(t, label, n) ==
  /\ rpc[t] = label
  /\ n \in rloc[t].todo
  /\ RGoto(t, label, [rloc[t] EXCEPT !.todo = @ \ {n}])

\* release_node ends in an error for a node without a record, or when an agent
\* fails; the whole recovery is then recorded as failed.
ReleaseFence(t, n) ==
  /\ Visit(t, "release", n)
  /\ ReleaseNode(n)
  /\ fence'[n] = "Released"
  /\ UNCHANGED <<state, plan, nextPlan, quiesced, conflicts,
                 pending, fpc, floc, accepted>>

ReleaseFails(t, n) ==
  /\ rpc[t] = "release"
  /\ n \in rloc[t].todo
  /\ \/ fence[n] = "None" /\ UNCHANGED <<fence, holds, interfered>>
     \/ ReleaseNode(n) /\ Held(n)' /\ UNCHANGED fence
  /\ state' = "Failed"
  /\ RGoto(t, "idle", NoPlan)
  /\ UNCHANGED <<plan, nextPlan, quiesced, conflicts,
                 pending, fpc, floc, accepted>>

QuiesceNode(t, n) ==
  /\ Visit(t, "quiesce", n)
  /\ quiesced' = quiesced \cup {n}
  /\ UNCHANGED <<state, plan, nextPlan, conflicts, fencingVars>>

SyncToNode(t, n) ==
  /\ Visit(t, "sync", n)
  /\ UNCHANGED <<state, plan, nextPlan, quiesced, conflicts,
                 fencingVars>>

ResumeNode(t, n) ==
  /\ Visit(t, "resume", n)
  /\ quiesced' = quiesced \ {n}
  /\ UNCHANGED <<state, plan, nextPlan, conflicts, fencingVars>>

\* A loop over nodes ends; after the last quiesce the state moves on.
NodeLoopEnds(t) ==
  /\ rpc[t] \in {"release", "quiesce", "sync", "resume"}
  /\ rloc[t].todo = {}
  /\ state' = IF rpc[t] = "quiesce" THEN "Reconciling" ELSE state
  /\ RGoto(t, "next", rloc[t])
  /\ UNCHANGED <<plan, nextPlan, quiesced, conflicts, fencingVars>>

\* resolve_conflict; a tie goes to b.
Winner(c) ==
  IF Strategy = "KeepBoth" THEN "both"
  ELSE IF c.a = 0 /\ c.b = 0 THEN "none"
  ELSE IF c.a > c.b THEN "a" ELSE "b"

\* The other strategies call resolve_conflict again with the same strategy: the
\* call never comes back.
Overflows == /\ Strategy \notin {"LastWriteWins", "KeepBoth"}
             /\ \E k \in Keys : conflicts[k].winner = "open"

ResolveConflicts(t) ==
  /\ StepBegins(t, "ResolveConflicts", IF Overflows THEN "overflow" ELSE "next", {})
  /\ conflicts' = IF Overflows THEN conflicts
                  ELSE [k \in Keys |-> IF conflicts[k].winner = "open"
                                       THEN [conflicts[k] EXCEPT !.winner = Winner(conflicts[k])]
                                       ELSE conflicts[k]]
  /\ UNCHANGED <<state, plan, nextPlan, quiesced, fencingVars>>

\* The two maps are cleared one after the other.
Cleanup(t) ==
  /\ StepBegins(t, "Cleanup", "cleanup", {})
  /\ conflicts' = [k \in Keys |-> NoConflict]
  /\ UNCHANGED <<state, plan, nextPlan, quiesced, fencingVars>>

CleanupQuiesced(t) ==
  /\ rpc[t] = "cleanup"
  /\ quiesced' = {}
  /\ RGoto(t, "next", rloc[t])
  /\ UNCHANGED <<state, plan, nextPlan, conflicts, fencingVars>>

PlanDone(t) ==
  /\ rpc[t] = "next"
  /\ rloc[t].steps = <<>>
  /\ state' = "Complete"
  /\ RGoto(t, "complete", rloc[t])
  /\ UNCHANGED <<plan, nextPlan, quiesced, conflicts, fencingVars>>

PlanCleared(t) ==
  /\ rpc[t] = "complete"
  /\ plan' = NoPlan
  /\ RGoto(t, "idle", NoPlan)
  /\ UNCHANGED <<state, nextPlan, quiesced, conflicts, fencingVars>>

(* cancel and add_conflict *)

CancelState(t) ==
  /\ rpc[t] = "idle"
  /\ state' = "Idle"
  /\ RGoto(t, "cancel_plan", NoPlan)
  /\ UNCHANGED <<plan, nextPlan, quiesced, conflicts, fencingVars>>

CancelPlan(t) ==
  /\ rpc[t] = "cancel_plan"
  /\ plan' = NoPlan
  /\ RGoto(t, "cancel_quiesced", NoPlan)
  /\ UNCHANGED <<state, nextPlan, quiesced, conflicts, fencingVars>>

CancelQuiesced(t) ==
  /\ rpc[t] = "cancel_quiesced"
  /\ quiesced' = {}
  /\ RGoto(t, "idle", NoPlan)
  /\ UNCHANGED <<state, plan, nextPlan, conflicts, fencingVars>>

AddConflict(k, pair) ==
  /\ conflicts' = [conflicts EXCEPT ![k] = [a |-> pair[1], b |-> pair[2], winner |-> "open"]]
  /\ UNCHANGED <<state, plan, nextPlan, quiesced, rpc, rloc, overlapped, fencingVars>>

-----------------------------------------------------------------------------
Work(t) ==
  \/ StartStore(t)
  \/ LogStep(t) \/ LoopStep(t) \/ NodeLoopEnds(t)
  \/ \E n \in FenceNodes : \/ ReleaseFence(t, n) \/ ReleaseFails(t, n)
                      \/ QuiesceNode(t, n) \/ SyncToNode(t, n) \/ ResumeNode(t, n)
  \/ ResolveConflicts(t) \/ Cleanup(t) \/ CleanupQuiesced(t)
  \/ PlanDone(t) \/ PlanCleared(t)
  \/ CancelPlan(t) \/ CancelQuiesced(t)

RecoveryStep(t) ==
  \/ \E ours, others \in SUBSET FenceNodes : /\ ours # {} /\ ours \cap others = {}
                                        /\ StartRecovery(t, ours, others)
  \/ ExecutePlan(t)
  \/ CancelState(t)
  \/ Work(t)

FailoverNext ==
  \/ \E t \in Recoverers : RecoveryStep(t)
  \/ \E k \in Keys, pair \in Clashes : AddConflict(k, pair)
  \/ FencingNext /\ UNCHANGED recoveryVars

FailoverSpec == FailoverInit /\ [][FailoverNext]_failoverVars

\* A thread inside start_recovery, execute_plan or cancel, or inside the fencing
\* manager's execute, keeps running.
Fairness ==
  /\ \A t \in Recoverers : WF_failoverVars(Work(t))
  /\ \A t \in Fencers : WF_failoverVars(Execute(t) /\ UNCHANGED recoveryVars)

FairFailoverSpec == FailoverSpec /\ Fairness

-----------------------------------------------------------------------------
(* Properties *)

\* The types; every conflict that is resolved has one of the outcomes that
\* resolve_conflict knows, whatever the versions look like.
RecoveryTypeOK ==
  /\ FencingTypeOK
  /\ state \in States
  /\ plan.ours \subseteq FenceNodes /\ plan.sync \subseteq FenceNodes
  /\ quiesced \subseteq FenceNodes
  /\ \A k \in Keys : conflicts[k].winner \in
                     {"absent", "open", "none", "a", "b", "both"}

\* Writes never stay quiesced: whenever nobody is executing a plan or about to
\* clear the set, no node is quiesced, after failures, cancellations and
\* recoveries that ran at the same time.
NoNodeLeftQuiesced ==
  (\A t \in Recoverers : ~Running(t) /\ rpc[t] # "cancel_quiesced") => quiesced = {}

\* Data is synced only while our partition's writes are stopped, across
\* recoveries that fail, are cancelled and start again, as long as the calls on
\* the coordinator come one after the other.
SyncOnlyQuiesced ==
  ~overlapped => \A t \in Recoverers : rpc[t] = "sync" => rloc[t].ours \subseteq quiesced

\* execute_plan, start_recovery and cancel return, through conflicts that are
\* resolved, fences that cannot be released and overlapping calls, under the two
\* strategies that resolve_conflict has a rule for.  Under the three others it
\* does not hold (ResolvesByDefault).
RecoveryEnds ==
  Strategy \in {"LastWriteWins", "KeepBoth"} =>
    \A t \in Recoverers : (rpc[t] # "idle") ~> (rpc[t] = "idle")

Resolving(t) == /\ rpc[t] = "next" /\ rloc[t].steps # <<>>
                /\ Head(rloc[t].steps) = "ResolveConflicts"

\* A conflict that execute_plan comes to is resolved under every strategy
\* (recovery.rs:731: "Default to last write wins for other strategies").
ResolvesByDefault ==
  \A t \in Recoverers, k \in Keys :
    (Resolving(t) /\ conflicts[k].winner = "open") ~> (conflicts[k].winner # "open")
=============================================================================
