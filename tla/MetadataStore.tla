---------------------------- MODULE MetadataStore ----------------------------
(***************************************************************************)
(* The replicated metadata of the Raft store (warp-store,                  *)
(* consistency/mod.rs and state_machine.rs) for one bucket and one object  *)
(* of it.  The Raft library is external: it puts requests into one order   *)
(* and has every node apply them in that order.  Reads are answered from   *)
(* a cache, a second state machine, that a write updates once the Raft     *)
(* library has answered.  Everything but the Raft log is lost in a restart.*)
(***************************************************************************)
EXTENDS Integers, Sequences

CONSTANTS
  StoreNodes, Writers,
  Metadata,      \* metadata entries of the object
  NoMetadata,
  MaxSubmits,  \* bound: requests that are submitted
  MaxDisturbances \* bound: changes of the leader, and restarts

ASSUME MetadataAssumption ==
  /\ NoMetadata \notin Metadata
  /\ MaxSubmits \in Nat /\ MaxDisturbances \in Nat

VARIABLES
  raftLog,       \* external: the requests in the order of the Raft log
  raftLeader,    \* external: the leader
  applied,       \* last_applied_log of each node
  machine,       \* the state machine of each node
  cache,         \* metadata_cache of each node
  mpc, mloc,     \* where each writer is, and its node, request and log index
  disturbances,  \* the number of changes of the leader and of restarts
  raced          \* history: two writes have been under way at the same time

metadataVars == <<raftLog, raftLeader, applied, machine, cache, mpc, mloc,
                  disturbances, raced>>

Empty == [bucket |-> FALSE, object |-> NoMetadata]
Requests == [op : {"CreateBucket", "DeleteBucket", "DeleteObjectMeta"}, meta : {NoMetadata}]
            \cup [op : {"PutObjectMeta"}, meta : Metadata]
NoWrite == [node |-> CHOOSE n \in StoreNodes : TRUE,
            request |-> [op |-> "none", meta |-> NoMetadata], index |-> 0]

\* MetadataStateMachine::apply; a request that is refused changes nothing.  Nobody
\* submits UpdateBucketConfig.
ApplyRequest(s, r) ==
  CASE r.op = "CreateBucket" -> [s EXCEPT !.bucket = TRUE]
    [] r.op = "DeleteBucket" -> IF s.bucket THEN Empty ELSE s
    [] r.op = "PutObjectMeta" -> IF s.bucket THEN [s EXCEPT !.object = r.meta] ELSE s
    [] r.op = "DeleteObjectMeta" -> [s EXCEPT !.object = NoMetadata]

MetadataInit ==
  /\ raftLog = <<>>
  /\ raftLeader \in StoreNodes
  /\ applied = [n \in StoreNodes |-> 0]
  /\ machine = [n \in StoreNodes |-> Empty]
  /\ cache = [n \in StoreNodes |-> Empty]
  /\ mpc = [w \in Writers |-> "idle"]
  /\ mloc = [w \in Writers |-> NoWrite]
  /\ disturbances = 0
  /\ raced = FALSE

MGoto(w, label, work) ==
  /\ mpc' = [mpc EXCEPT ![w] = label]
  /\ mloc' = [mloc EXCEPT ![w] = work]

\* create_bucket, delete_bucket, put_object_metadata and delete_object_metadata up
\* to client_write, which only the leader accepts.
Submit(w, r) ==
  /\ mpc[w] = "idle"
  /\ Len(raftLog) < MaxSubmits
  /\ raftLog' = Append(raftLog, r)
  /\ MGoto(w, "raft", [node |-> raftLeader, request |-> r, index |-> Len(raftLog) + 1])
  /\ raced' = (raced \/ \E u \in Writers \ {w} : mpc[u] # "idle")
  /\ UNCHANGED <<raftLeader, applied, machine, cache, disturbances>>

ApplyEntry(n) ==
  /\ applied[n] < Len(raftLog)
  /\ applied' = [applied EXCEPT ![n] = @ + 1]
  /\ machine' = [machine EXCEPT ![n] = ApplyRequest(@, raftLog[applied[n] + 1])]
  /\ UNCHANGED <<raftLog, raftLeader, cache, mpc, mloc, disturbances, raced>>

\* client_write returns once the leader has applied the request.
Answered(w) ==
  /\ mpc[w] = "raft"
  /\ applied[mloc[w].node] >= mloc[w].index
  /\ MGoto(w, "cache", mloc[w])
  /\ UNCHANGED <<raftLog, raftLeader, applied, machine, cache, disturbances, raced>>

\* client_write fails because its node does not lead any more; the request stays
\* in the log.
WriteFails(w) ==
  /\ mpc[w] = "raft"
  /\ raftLeader # mloc[w].node
  /\ MGoto(w, "idle", NoWrite)
  /\ UNCHANGED <<raftLog, raftLeader, applied, machine, cache, disturbances, raced>>

\* Mutant: the cache is only told of new objects.
UpdateCacheOfPuts(w) ==
  /\ mpc[w] = "cache"
  /\ cache' = IF mloc[w].request.op = "DeleteObjectMeta" THEN cache
              ELSE [cache EXCEPT ![mloc[w].node] = ApplyRequest(@, mloc[w].request)]
  /\ MGoto(w, "idle", NoWrite)
  /\ UNCHANGED <<raftLog, raftLeader, applied, machine, disturbances, raced>>

UpdateCache(w) ==
  /\ mpc[w] = "cache"
  /\ cache' = [cache EXCEPT ![mloc[w].node] = ApplyRequest(@, mloc[w].request)]
  /\ MGoto(w, "idle", NoWrite)
  /\ UNCHANGED <<raftLog, raftLeader, applied, machine, disturbances, raced>>

LeaderChanges(n) ==
  /\ disturbances < MaxDisturbances
  /\ n # raftLeader
  /\ raftLeader' = n
  /\ disturbances' = disturbances + 1
  /\ UNCHANGED <<raftLog, applied, machine, cache, mpc, mloc, raced>>

\* with_persistent_storage: an empty state machine and an empty cache.
RestartNode(n) ==
  /\ disturbances < MaxDisturbances
  /\ disturbances' = disturbances + 1
  /\ applied' = [applied EXCEPT ![n] = 0]
  /\ machine' = [machine EXCEPT ![n] = Empty]
  /\ cache' = [cache EXCEPT ![n] = Empty]
  /\ mpc' = [w \in Writers |-> IF mloc[w].node = n THEN "idle" ELSE mpc[w]]
  /\ mloc' = [w \in Writers |-> IF mloc[w].node = n THEN NoWrite ELSE mloc[w]]
  /\ UNCHANGED <<raftLog, raftLeader, raced>>

WriterStep(w) == Answered(w) \/ UpdateCache(w)

MetadataNext ==
  \/ \E w \in Writers : (\E r \in Requests : Submit(w, r)) \/ WriterStep(w) \/ WriteFails(w)
  \/ \E n \in StoreNodes : ApplyEntry(n) \/ LeaderChanges(n) \/ RestartNode(n)

MetadataSpec == MetadataInit /\ [][MetadataNext]_metadataVars

-----------------------------------------------------------------------------

\* As long as writes come one after the other, the leader does not change and
\* nothing restarts, what a client reads on the leader between two writes is what
\* the replicated state machine holds (create_bucket ... update the cache after
\* client_write has returned).
CacheIsMachine ==
  (~raced /\ disturbances = 0 /\ \A w \in Writers : mpc[w] = "idle")
    => cache[raftLeader] = machine[raftLeader]
=============================================================================
