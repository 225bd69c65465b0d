----------------------------- MODULE MCRecovery -----------------------------
(* Recovery with the fencing manager on a small instance. *)
EXTENDS Recovery

\* A deletion against a write.
Deletion == {<<0, 1>>}
=============================================================================
