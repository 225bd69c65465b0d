----------------------------- MODULE MCLiveness -----------------------------
(* What has to happen in the end: the calls of the lock manager and, on other *)
(* machines, of the fencing manager and the recovery coordinator.  The lock   *)
(* manager runs on its own, the fencing manager on its own with all its       *)
(* threads, and the coordinator beside one of them.                           *)
EXTENDS MCLockManager, MCRecovery

VARIABLE scope

Init == LockInit /\ FailoverInit /\ scope \in {"locks", "fencing", "recovery"}

Fencer == CHOOSE t \in Fencers : TRUE

Locking      == scope = "locks" /\ LockNext /\ UNCHANGED failoverVars
FencingOnly  == scope = "fencing" /\ FencingNext /\ UNCHANGED <<recoveryVars, lockVars>>
BesideFencer == /\ scope = "recovery"
                /\ \/ \E t \in Recoverers : RecoveryStep(t)
                   \/ \E k \in Keys, pair \in Clashes : AddConflict(k, pair)
                   \/ FencingStep(Fencer) /\ UNCHANGED recoveryVars
                /\ UNCHANGED lockVars

Next == (Locking \/ FencingOnly \/ BesideFencer) /\ UNCHANGED scope

Spec == Init /\ [][Next]_<<lockVars, failoverVars, scope>> /\ LockFairness /\ Fairness
=============================================================================
