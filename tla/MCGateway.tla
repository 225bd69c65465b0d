------------------------------ MODULE MCGateway ------------------------------
(* The lock, delegation, session and lease managers on small instances.  They *)
(* share nothing but their callers, so a behaviour is one of one of them.     *)
EXTENDS LockManager, Delegation, Session, Lease, TLC

VARIABLE manager

\* Every token in a shard of its own.
ShardPerToken == [k \in 1 .. MaxTokens |-> k]

Init ==
  /\ manager \in {"locks", "delegations", "sessions", "leases"}
  /\ LockInit /\ DelegationInit /\ SessionInit /\ LeaseInit

Locking    == /\ manager = "locks" /\ LockNext
              /\ UNCHANGED <<delegationVars, sessionVars, leaseVars>>
Delegating == /\ manager = "delegations" /\ DelegationNext
              /\ UNCHANGED <<lockVars, sessionVars, leaseVars>>
InSessions == /\ manager = "sessions" /\ SessionNext
              /\ UNCHANGED <<lockVars, delegationVars, leaseVars>>
Leasing    == /\ manager = "leases" /\ LeaseNext
              /\ UNCHANGED <<lockVars, delegationVars, sessionVars>>

Next == (Locking \/ Delegating \/ InSessions \/ Leasing) /\ UNCHANGED manager
Spec == Init /\ [][Next]_<<manager, lockVars, delegationVars, sessionVars, leaseVars>>

Symmetric == Permutations(Threads) \cup Permutations(Files) \cup Permutations(Clients)
=============================================================================
