-------------------------------- MODULE Lease --------------------------------
(***************************************************************************)
(* The lease manager of the gateways (warp-gateway-common, lease.rs).      *)
(*                                                                         *)
(* request goes through the leases on its files, breaks those in its way   *)
(* and then stores its own; release, expire_leases and release_client take *)
(* leases away.  request keeps a guard of the by_file entry it goes        *)
(* through; all other accesses of the maps are steps of their own.         *)
(***************************************************************************)
EXTENDS GatewayClients

CONSTANTS
  KeysPerClient,  \* bound: lease keys of a client
  Wanted,         \* the lease states that are asked for
  MaxRequests     \* bound: calls of request

ASSUME LeaseConstants ==
  /\ KeysPerClient \in Nat /\ MaxRequests \in Nat /\ "none" \notin Files
  /\ Wanted \subseteq SUBSET {"READ", "WRITE", "HANDLE"}

\* LeaseKey::from_client
Keys == Clients \X (1 .. KeysPerClient)
Owner(k) == k[1]
NoKey == <<"none", 0>>

VARIABLES
  lease,      \* leases, NoLease for a key without one
  byClient,   \* by_client: the keys of each client
  byFile,     \* by_file: the keys of each file
  lpc, lloc,    \* where each thread is, and its locals
  requests,   \* the number of requests so far
  refiled,    \* history: keys updated for other files than those of their lease
  leaseOverlapped  \* history: two calls have been under way at the same time

leaseVars == <<lease, byClient, byFile, lpc, lloc, requests, refiled, leaseOverlapped>>

NoLease == [live |-> FALSE, state |-> {}, files |-> {}, pending |-> FALSE,
            breakTo |-> {}, expired |-> FALSE]
LNoWork  == [key |-> NoKey, want |-> {}, granted |-> {}, files |-> {},
            todo |-> {}, file |-> "none", keys |-> {}, other |-> NoKey, breakTo |-> {}]

LBusy == {t \in Threads : lpc[t] # "idle"}

LGoto(t, label, work) ==
  /\ lpc' = [lpc EXCEPT ![t] = label]
  /\ lloc' = [lloc EXCEPT ![t] = work]
  /\ leaseOverlapped' = (leaseOverlapped \/ (label # "idle" /\ LBusy \ {t} # {}))

LReturn(t) == LGoto(t, "idle", LNoWork)

-----------------------------------------------------------------------------
(* LeaseState *)

LConflictsWith(a, b) ==
  \/ "WRITE" \in a /\ b \cap {"READ", "WRITE"} # {}
  \/ "WRITE" \in b /\ a \cap {"READ", "WRITE"} # {}

BreakTo(a, requested) ==
  IF LConflictsWith(a, requested) /\ ("WRITE" \in requested \/ "WRITE" \in a)
  THEN a \ {"WRITE"} ELSE a

-----------------------------------------------------------------------------
LeaseInit ==
  /\ lease = [k \in Keys |-> NoLease]
  /\ byClient = [c \in Clients |-> {}]
  /\ byFile = [f \in Files |-> {}]
  /\ lpc = [t \in Threads |-> "idle"]
  /\ lloc = [t \in Threads |-> LNoWork]
  /\ requests = 0 /\ refiled = {} /\ leaseOverlapped = FALSE

(* request *)

Request(t, k, want, files) ==
  /\ lpc[t] = "idle"
  /\ requests < MaxRequests
  /\ requests' = requests + 1
  /\ LGoto(t, "files", [LNoWork EXCEPT !.key = k, !.want = want, !.granted = want,
                                     !.files = files, !.todo = files])
  /\ UNCHANGED <<lease, byClient, byFile, refiled>>

\* The guard of the next file's entry is taken, if there is one.
RequestFile(t, f) ==
  /\ lpc[t] = "files"
  /\ f \in lloc[t].todo
  /\ LGoto(t, "keys", [lloc[t] EXCEPT !.todo = @ \ {f}, !.file = f,
                                    !.keys = byFile[f] \ {lloc[t].key}])
  /\ UNCHANGED <<lease, byClient, byFile, requests, refiled>>

\* One of the leases on the file: if it is in the way, the break is worked out
\* and the request does without write caching.
RequestKey(t, k) ==
  /\ lpc[t] = "keys"
  /\ k \in lloc[t].keys
  /\ IF lease[k].live /\ LConflictsWith(lease[k].state, lloc[t].want)
     THEN LGoto(t, "break", [lloc[t] EXCEPT !.keys = @ \ {k}, !.granted = @ \ {"WRITE"},
                            !.other = k, !.breakTo = BreakTo(lease[k].state, lloc[t].want)])
     ELSE LGoto(t, "keys", [lloc[t] EXCEPT !.keys = @ \ {k}])
  /\ UNCHANGED <<lease, byClient, byFile, requests, refiled>>

RequestBreak(t) ==
  LET k == lloc[t].other
  IN  /\ lpc[t] = "break"
      /\ lease' = IF lease[k].live
                  THEN [lease EXCEPT ![k].pending = TRUE, ![k].breakTo = lloc[t].breakTo]
                  ELSE lease
      /\ LGoto(t, "keys", [lloc[t] EXCEPT !.other = NoKey, !.breakTo = {}])
      /\ UNCHANGED <<byClient, byFile, requests, refiled>>

\* Mutant: the guard of the file is kept for the rest of the call.
RequestFileKept(t) ==
  /\ lpc[t] = "keys"
  /\ lloc[t].keys = {}
  /\ LGoto(t, "files", lloc[t])
  /\ UNCHANGED <<lease, byClient, byFile, requests, refiled>>

RequestFileDone(t) ==
  /\ lpc[t] = "keys"
  /\ lloc[t].keys = {}
  /\ LGoto(t, "files", [lloc[t] EXCEPT !.file = "none"])
  /\ UNCHANGED <<lease, byClient, byFile, requests, refiled>>

\* A lease that exists is updated in place; its new files are not indexed.
RequestUpdate(t) ==
  /\ lpc[t] = "files"
  /\ lloc[t].todo = {}
  /\ lease[lloc[t].key].live
  /\ lease' = [lease EXCEPT ![lloc[t].key].state = @ \cup lloc[t].granted,
                            ![lloc[t].key].files = @ \cup lloc[t].files,
                            ![lloc[t].key].expired = FALSE]
  /\ refiled' = refiled \cup {k \in {lloc[t].key} : lease[k].files # lloc[t].files}
  /\ LReturn(t)
  /\ UNCHANGED <<byClient, byFile, requests>>

RequestNew(t) ==
  /\ lpc[t] = "files"
  /\ lloc[t].todo = {}
  /\ ~lease[lloc[t].key].live
  /\ LGoto(t, "insert", lloc[t])
  /\ UNCHANGED <<lease, byClient, byFile, requests, refiled>>

\* Mutant: the new lease gets what was asked for.
InsertWanted(t) ==
  /\ lpc[t] = "insert"
  /\ lease' = [lease EXCEPT ![lloc[t].key] =
                 [NoLease EXCEPT !.live = TRUE, !.state = lloc[t].want, !.files = lloc[t].files]]
  /\ LGoto(t, "index_client", lloc[t])
  /\ UNCHANGED <<byClient, byFile, requests, refiled>>

RequestInsert(t) ==
  /\ lpc[t] = "insert"
  /\ lease' = [lease EXCEPT ![lloc[t].key] =
                 [NoLease EXCEPT !.live = TRUE, !.state = lloc[t].granted, !.files = lloc[t].files]]
  /\ LGoto(t, "index_client", lloc[t])
  /\ UNCHANGED <<byClient, byFile, requests, refiled>>

RequestIndexClient(t) ==
  /\ lpc[t] = "index_client"
  /\ byClient' = [byClient EXCEPT ![Owner(lloc[t].key)] = @ \cup {lloc[t].key}]
  /\ LGoto(t, "index_files", [lloc[t] EXCEPT !.todo = lloc[t].files])
  /\ UNCHANGED <<lease, byFile, requests, refiled>>

\* An entry of by_file is written only while no request goes through it.
LUnguarded(f) == \A u \in Threads : lloc[u].file # f

RequestIndexFile(t, f) ==
  /\ lpc[t] = "index_files"
  /\ f \in lloc[t].todo
  /\ LUnguarded(f)
  /\ byFile' = [byFile EXCEPT ![f] = @ \cup {lloc[t].key}]
  /\ LGoto(t, "index_files", [lloc[t] EXCEPT !.todo = @ \ {f}])
  /\ UNCHANGED <<lease, byClient, requests, refiled>>

RequestDone(t) ==
  /\ lpc[t] = "index_files"
  /\ lloc[t].todo = {}
  /\ LReturn(t)
  /\ UNCHANGED <<lease, byClient, byFile, requests, refiled>>

(* renew, and the passing of lease_duration *)

Renew(t, k) ==
  /\ lpc[t] = "idle"
  /\ lease[k].live
  /\ lease' = [lease EXCEPT ![k].expired = FALSE]
  /\ UNCHANGED <<byClient, byFile, lpc, lloc, requests, refiled, leaseOverlapped>>

LeaseExpires(k) ==
  /\ lease[k].live /\ ~lease[k].expired
  /\ lease' = [lease EXCEPT ![k].expired = TRUE]
  /\ UNCHANGED <<byClient, byFile, lpc, lloc, requests, refiled, leaseOverlapped>>

(* release, expire_leases and release_client *)

Release(t, k) ==
  /\ lpc[t] = "idle"
  /\ lease[k].live
  /\ LGoto(t, "release", [LNoWork EXCEPT !.keys = {k}])
  /\ UNCHANGED <<lease, byClient, byFile, requests, refiled>>

ExpireLeases(t) ==
  LET ks == {k \in Keys : lease[k].live /\ lease[k].expired}
  IN  /\ lpc[t] = "idle"
      /\ ks # {}
      /\ LGoto(t, "release", [LNoWork EXCEPT !.keys = ks])
      /\ UNCHANGED <<lease, byClient, byFile, requests, refiled>>

ReleaseClient(t, c) ==
  /\ lpc[t] = "idle"
  /\ byClient[c] # {}
  /\ byClient' = [byClient EXCEPT ![c] = {}]
  /\ LGoto(t, "release", [LNoWork EXCEPT !.keys = byClient[c]])
  /\ UNCHANGED <<lease, byFile, requests, refiled>>

ReleaseRemove(t, k) ==
  /\ lpc[t] = "release"
  /\ k \in lloc[t].keys
  /\ lease' = [lease EXCEPT ![k] = NoLease]
  /\ LGoto(t, IF lease[k].live THEN "unindex_client" ELSE "release",
          [lloc[t] EXCEPT !.keys = @ \ {k}, !.key = k, !.todo = lease[k].files])
  /\ UNCHANGED <<byClient, byFile, requests, refiled>>

ReleaseUnindexClient(t) ==
  /\ lpc[t] = "unindex_client"
  /\ byClient' = [byClient EXCEPT ![Owner(lloc[t].key)] = @ \ {lloc[t].key}]
  /\ LGoto(t, "unindex_files", lloc[t])
  /\ UNCHANGED <<lease, byFile, requests, refiled>>

ReleaseUnindexFile(t, f) ==
  /\ lpc[t] = "unindex_files"
  /\ f \in lloc[t].todo
  /\ LUnguarded(f)
  /\ byFile' = [byFile EXCEPT ![f] = @ \ {lloc[t].key}]
  /\ LGoto(t, "unindex_files", [lloc[t] EXCEPT !.todo = @ \ {f}])
  /\ UNCHANGED <<lease, byClient, requests, refiled>>

ReleaseNext(t) ==
  /\ lpc[t] = "unindex_files"
  /\ lloc[t].todo = {}
  /\ LGoto(t, "release", [lloc[t] EXCEPT !.key = NoKey])
  /\ UNCHANGED <<lease, byClient, byFile, requests, refiled>>

ReleaseDone(t) ==
  /\ lpc[t] = "release"
  /\ lloc[t].keys = {}
  /\ LReturn(t)
  /\ UNCHANGED <<lease, byClient, byFile, requests, refiled>>

-----------------------------------------------------------------------------
LeaseCall(t) ==
  \/ \E k \in Keys :
       \/ \E want \in Wanted, files \in SUBSET Files \ {{}} : Request(t, k, want, files)
       \/ Renew(t, k) \/ Release(t, k)
  \/ ExpireLeases(t)
  \/ \E c \in Clients : ReleaseClient(t, c)

LeaseContinue(t) ==
  \/ \E f \in Files : RequestFile(t, f) \/ RequestIndexFile(t, f) \/ ReleaseUnindexFile(t, f)
  \/ \E k \in Keys : RequestKey(t, k) \/ ReleaseRemove(t, k)
  \/ RequestBreak(t) \/ RequestFileDone(t)
  \/ RequestUpdate(t) \/ RequestNew(t) \/ RequestInsert(t)
  \/ RequestIndexClient(t) \/ RequestDone(t)
  \/ ReleaseUnindexClient(t) \/ ReleaseNext(t) \/ ReleaseDone(t)

LeaseNext ==
  \/ \E t \in Threads : LeaseCall(t) \/ LeaseContinue(t)
  \/ \E k \in Keys : LeaseExpires(k)

LeaseSpec == LeaseInit /\ [][LeaseNext]_leaseVars

-----------------------------------------------------------------------------
(* Properties *)

\* The types; a key without a lease keeps nothing of an old one, also when the
\* lease is released while a request is about to break it.
LeaseTypeOK ==
  /\ \A k \in Keys :
       /\ lease[k].state \subseteq {"READ", "WRITE", "HANDLE"}
       /\ lease[k].files \subseteq Files
       /\ ~lease[k].live => lease[k] = NoLease
  /\ byClient \in [Clients -> SUBSET Keys]
  /\ byFile \in [Files -> SUBSET Keys]
  /\ \A t \in Threads : lloc[t].granted \subseteq lloc[t].want

Sharing(j, k) == j # k /\ lease[j].files \cap lease[k].files # {}

\* As long as requests come one after the other and name the files of their
\* lease, two leases on a file conflict only while one of them has been told to
\* give up its write caching (lease.rs:243 "Check for conflicts with existing
\* leases on these files").
NoUnbrokenConflict ==
  (~leaseOverlapped /\ LBusy = {}) => \A j, k \in Keys \ refiled :
    (Sharing(j, k) /\ LConflictsWith(lease[j].state, lease[k].state))
      => \/ lease[j].pending /\ ~LConflictsWith(lease[j].breakTo, lease[k].state)
         \/ lease[k].pending /\ ~LConflictsWith(lease[j].state, lease[k].breakTo)

\* The guards of by_file never block all callers: while calls are under way, one
\* of them can go on, although request keeps the guard of an entry while it
\* takes others and release waits for entries in any order.
NoGuardDeadlock == LBusy # {} => \E t \in LBusy : ENABLED LeaseContinue(t)
=============================================================================
