---------------------------- MODULE MCLockManager ----------------------------
(* LockManager on a small instance; clients are interchangeable. *)
EXTENDS LockManager, TLC

\* All tokens in one shard.
OneShard == [k \in 1 .. MaxTokens |-> 1]

Symmetric == Permutations(Clients)
=============================================================================
