-------------------------- MODULE ReplicatedVersion --------------------------
(***************************************************************************)
(* What a replicated last-write-wins value promises, without clocks or     *)
(* messages: a replica holds a version of a totally ordered set; a local   *)
(* write moves it up to a version of its own, a synchronisation moves it   *)
(* up to a version somebody issued, and only a restart moves it down.      *)
(***************************************************************************)
CONSTANTS
  Sites,          \* the replicas
  Versions,       \* the versions
  None,           \* no version yet
  Newer(_, _)     \* the order of the versions

VARIABLES
  version,   \* the version each site holds
  issued     \* the versions that were written

Above(v, u) == u = None \/ Newer(v, u)

VersionInit == version = [s \in Sites |-> None] /\ issued = {}

\* A write moves its site up; it may also be passed on under an earlier version u
\* than the one it is held under.
Write(s) ==
  /\ version'[s] \in Versions
  /\ Above(version'[s], version[s])
  /\ version' = [version EXCEPT ![s] = version'[s]]
  /\ \E u \in issued' :
       /\ Above(u, version[s])
       /\ u = version'[s] \/ Newer(version'[s], u)
       /\ issued' = issued \cup {u, version'[s]}

Synchronise(s) ==
  \E v \in issued :
    /\ Above(v, version[s])
    /\ version' = [version EXCEPT ![s] = v]
    /\ UNCHANGED issued

Forget(s) ==
  /\ version' = [version EXCEPT ![s] = None]
  /\ UNCHANGED issued

VersionNext == \E s \in Sites : Write(s) \/ Synchronise(s) \/ Forget(s)

VersionSpec == VersionInit /\ [][VersionNext]_<<version, issued>>
=============================================================================
