------------------------------- MODULE Healer -------------------------------
(***************************************************************************)
(* Self-healing of an erasure-coded object (warp-store): the repair queue  *)
(* (healer/queue.rs), the workers and the scan (healer/worker.rs,          *)
(* healer/daemon.rs), the scrubber (scrub/daemon.rs) and the part of the   *)
(* shard manager they use (replication/shards.rs).                         *)
(*                                                                         *)
(* One object; every shard has the one location that was registered for    *)
(* it.  The queue's heap and its set of keys are two structures and every  *)
(* access to one of them is a step.                                        *)
(***************************************************************************)
EXTENDS Integers, FiniteSets, Bags

CONSTANTS
  Healers,             \* tasks: workers, scans, scrubs
  Shards, Domains,
  LocalDomain,
  Home,                \* the domain of the location that was registered for a shard
  DataShards,          \* shards that are enough to rebuild the others
  RepairBelow,         \* repair_threshold, in shards
  MaxRepairsPerCycle,
  MaxRetries,
  Reports,             \* the health states update_shard_health is called with
  MaxFaults,           \* bound: shards damaged and domains that go offline
  MaxJobs              \* bound: jobs in the heap

ASSUME HealerAssumption ==
  /\ IsFiniteSet(Shards) /\ IsFiniteSet(Domains) /\ LocalDomain \in Domains
  /\ Home \in [Shards -> Domains]
  /\ DataShards \in 1 .. Cardinality(Shards) /\ MaxRetries \in Nat \ {0}
  /\ Reports \subseteq {"Healthy", "Repairing", "Degraded", "Lost", "Unknown"}
  /\ {RepairBelow, MaxRepairsPerCycle, MaxFaults, MaxJobs} \subseteq Nat

VARIABLES
  health,        \* the health status of a shard's location
  places,        \* where intact data is: <<shard, domain, path>>
  online,        \* domains with a node that is up
  heap,          \* RepairQueue::heap, a bag of jobs
  inQueue,       \* RepairQueue::in_queue
  quarantined,
  hpc, hloc,     \* where each task is, and its locals
  faults

shardVars  == <<health, places, online>>
queueVars  == <<heap, inQueue>>
healerVars == <<shardVars, queueVars, quarantined, hpc, hloc, faults>>

Job(s) == [shard |-> s, retries |-> 0]
\* task: what goes on once a push is over; todo: the shards left to visit.
Resting == [task |-> "idle", job |-> Job("none"), todo |-> {}, queued |-> 0, target |-> "none"]

Registered(s) == <<s, Home[s], "registered">>
Reachable(s)  == Home[s] \in online \cup {LocalDomain}
Healthy == {s \in Shards : health[s] = "Healthy"}

HealerInit ==
  /\ health = [s \in Shards |-> "Healthy"]
  /\ places = {Registered(s) : s \in Shards}
  /\ online = Domains
  /\ heap = EmptyBag /\ inQueue = {}
  /\ quarantined = {}
  /\ hpc = [t \in Healers |-> "idle"]
  /\ hloc = [t \in Healers |-> Resting]
  /\ faults = 0

HGoto(t, label, locals) ==
  /\ hpc' = [hpc EXCEPT ![t] = label]
  /\ hloc' = [hloc EXCEPT ![t] = locals]

\* Back to the scan or the scrub this call belongs to.
HReturn(t, locals) ==
  IF locals.todo = {} THEN HGoto(t, "idle", Resting) ELSE HGoto(t, locals.task, locals)

-----------------------------------------------------------------------------
(* The environment *)

Damage(s) ==
  /\ faults < MaxFaults /\ faults' = faults + 1
  /\ places' = {p \in places : p[1] # s}
  /\ places' # places
  /\ UNCHANGED <<health, online, queueVars, quarantined, hpc, hloc>>

GoesOffline(d) ==
  /\ faults < MaxFaults /\ faults' = faults + 1
  /\ d \in online /\ online' = online \ {d}
  /\ UNCHANGED <<health, places, queueVars, quarantined, hpc, hloc>>

\* update_shard_health by whoever watches the shards and reports what is so.  It
\* waits for the repairs that hold the distribution's read lock.
ReadLocked == \E t \in Healers : hpc[t] = "write"

UpdateShardHealth(s, h) ==
  /\ ~ReadLocked
  /\ health[s] # h
  /\ h = "Healthy" <=> Registered(s) \in places /\ Reachable(s)
  /\ health' = [health EXCEPT ![s] = h]
  /\ UNCHANGED <<places, online, queueVars, quarantined, hpc, hloc, faults>>

\* release, mark_failed, cleanup_expired
LeavesQuarantine(s) ==
  /\ s \in quarantined
  /\ quarantined' = quarantined \ {s}
  /\ UNCHANGED <<shardVars, queueVars, hpc, hloc, faults>>

-----------------------------------------------------------------------------
(* The queue *)

\* push: the key first.  A key that is there already ends the call.
PushKey(t) ==
  /\ hpc[t] = "push"
  /\ IF hloc[t].job.shard \in inQueue
     THEN HReturn(t, hloc[t]) /\ UNCHANGED inQueue
     ELSE /\ HGoto(t, "push_heap", hloc[t])
          /\ inQueue' = inQueue \cup {hloc[t].job.shard}
  /\ UNCHANGED <<shardVars, heap, quarantined, faults>>

PushHeap(t) ==
  /\ hpc[t] = "push_heap"
  /\ BagCardinality(heap) < MaxJobs
  /\ heap' = heap (+) SetToBag({hloc[t].job})
  /\ HReturn(t, hloc[t])
  /\ UNCHANGED <<shardVars, inQueue, quarantined, faults>>

\* pop: a job, then its key.  The priorities decide which job is the first; here
\* it may be any.
PopJob(t, job) ==
  /\ hpc[t] = "idle"
  /\ heap' = heap (-) SetToBag({job})
  /\ HGoto(t, "popped", [Resting EXCEPT !.job = job])
  /\ UNCHANGED <<shardVars, inQueue, quarantined, faults>>

ForgetKey(t) ==
  /\ hpc[t] = "popped"
  /\ inQueue' = inQueue \ {hloc[t].job.shard}
  /\ HGoto(t, "repair", hloc[t])
  /\ UNCHANGED <<shardVars, heap, quarantined, faults>>

\* Mutant: clear empties the set of keys before the heap.
ClearKeysFirst(t) ==
  /\ hpc[t] \in {"idle", "clear"}
  /\ IF hpc[t] = "idle"
     THEN /\ inQueue # {} /\ inQueue' = {} /\ HGoto(t, "clear", Resting) /\ UNCHANGED heap
     ELSE /\ heap' = EmptyBag /\ HGoto(t, "idle", Resting) /\ UNCHANGED inQueue
  /\ UNCHANGED <<shardVars, quarantined, faults>>

\* clear: the heap, then the keys.
Clear(t) ==
  /\ hpc[t] \in {"idle", "clear"}
  /\ IF hpc[t] = "idle"
     THEN /\ inQueue # {} /\ heap' = EmptyBag /\ HGoto(t, "clear", Resting) /\ UNCHANGED inQueue
     ELSE /\ inQueue' = {} /\ HGoto(t, "idle", Resting) /\ UNCHANGED heap
  /\ UNCHANGED <<shardVars, quarantined, faults>>

-----------------------------------------------------------------------------
(* A worker: do_repair *)

\* Reading stops at the first DataShards shards that can be read, and tries one
\* more than that at most.
ReadShards(t) ==
  /\ hpc[t] = "repair"
  /\ \E tried \in SUBSET Healthy :
       /\ Cardinality(tried) <= DataShards + 1
       /\ Cardinality({s \in tried : Registered(s) \in places /\ Reachable(s)}) = DataShards
  /\ HGoto(t, "write", hloc[t])
  /\ UNCHANGED <<shardVars, queueVars, quarantined, faults>>

\* select_repair_target: a domain that does not have the shard outweighs the local
\* one, and that outweighs capacity and latency, which are left open.
Targets(s) ==
  LET fresh == online \ {d \in {Home[s]} : health[s] = "Healthy"}
      pool  == IF fresh # {} THEN fresh ELSE online
  IN  IF LocalDomain \in pool THEN {LocalDomain} ELSE pool

\* write_shard, to the path select_repair_target made up.
WriteShard(t, d) ==
  /\ hpc[t] = "write"
  /\ d \in Targets(hloc[t].job.shard)
  /\ places' = places \cup {<<hloc[t].job.shard, d, "repair">>}
  /\ HGoto(t, "mark", [hloc[t] EXCEPT !.target = d])
  /\ UNCHANGED <<health, online, queueVars, quarantined, faults>>

\* update_shard_health changes the locations in the target's domain, if any.
MarkHealthy(t) ==
  LET s == hloc[t].job.shard IN
  /\ hpc[t] = "mark"
  /\ ~ReadLocked
  /\ IF Home[s] = hloc[t].target
     THEN health' = [health EXCEPT ![s] = "Healthy"]
     ELSE UNCHANGED health
  /\ HGoto(t, "idle", Resting)
  /\ UNCHANGED <<places, online, queueVars, quarantined, faults>>

\* requeue after an error at any point of do_repair or its timeout, until the
\* retries are used up.
Requeue(t) ==
  /\ hpc[t] \in {"repair", "write", "mark"}
  /\ IF hloc[t].job.retries + 1 < MaxRetries
     THEN HGoto(t, "push", [Resting EXCEPT !.job = [hloc[t].job EXCEPT !.retries = @ + 1]])
     ELSE HGoto(t, "idle", Resting)
  /\ UNCHANGED <<shardVars, queueVars, quarantined, faults>>

\* stop: the worker leaves do_repair where it waits, and the job is gone.
WorkerStops(t) ==
  /\ hpc[t] \in {"repair", "write", "mark"}
  /\ HGoto(t, "idle", Resting)
  /\ UNCHANGED <<shardVars, queueVars, quarantined, faults>>

-----------------------------------------------------------------------------
(* Scan and scrub work through a copy of the distribution *)

Scan(t) ==
  /\ hpc[t] = "idle"
  /\ Cardinality(Healthy) < RepairBelow
  /\ HReturn(t, [Resting EXCEPT !.task = "scan",
                  !.todo = {s \in Shards : health[s] \in {"Lost", "Degraded", "Unknown"}}])
  /\ UNCHANGED <<shardVars, queueVars, quarantined, faults>>

\* A light scrub queues what was unhealthy in the copy.
LightScrub(t) ==
  /\ hpc[t] = "idle"
  /\ HReturn(t, [Resting EXCEPT !.task = "light", !.todo = Shards \ Healthy])
  /\ UNCHANGED <<shardVars, queueVars, quarantined, faults>>

\* A deep scrub looks at every shard's data when it gets to it.
DeepScrub(t) ==
  /\ hpc[t] = "idle"
  /\ HReturn(t, [Resting EXCEPT !.task = "deep", !.todo = Shards])
  /\ UNCHANGED <<shardVars, queueVars, quarantined, faults>>

Rest(t, s)   == [hloc[t] EXCEPT !.todo = @ \ {s}]
AskRepair(t, s) == HGoto(t, "push", [Rest(t, s) EXCEPT !.job = Job(s)])

\* A shard that is queued already is passed over; the scan ends with the job that
\* uses up the cycle.
ScanVisit(t, s) ==
  /\ hpc[t] = "scan"
  /\ s \in hloc[t].todo
  /\ IF s \in inQueue
     THEN HReturn(t, Rest(t, s))
     ELSE HGoto(t, "push",
            [Rest(t, s) EXCEPT !.job = Job(s), !.queued = @ + 1,
               !.todo = IF hloc[t].queued + 1 >= MaxRepairsPerCycle THEN {} ELSE @])
  /\ UNCHANGED <<shardVars, queueVars, quarantined, faults>>

\* The shard is in quarantine, or its data verifies.
ScrubSkips(t, s) ==
  /\ hpc[t] \in {"light", "deep"}
  /\ s \in hloc[t].todo
  /\ \/ s \in quarantined
     \/ hpc[t] = "deep" /\ Registered(s) \in places /\ Reachable(s)
  /\ HReturn(t, Rest(t, s))
  /\ UNCHANGED <<shardVars, queueVars, quarantined, faults>>

\* A shard that is unhealthy or fails verification gets a job; a deep scrub that
\* cannot reach the domain quarantines the shard and asks for no repair.
ScrubFinds(t, s) ==
  /\ hpc[t] \in {"light", "deep"}
  /\ s \in hloc[t].todo \ quarantined
  /\ quarantined' = quarantined \cup {s}
  /\ \/ /\ hpc[t] = "deep" /\ ~Reachable(s)
        /\ HReturn(t, Rest(t, s))
     \/ /\ hpc[t] = "deep" => Reachable(s) /\ Registered(s) \notin places
        /\ AskRepair(t, s)
  /\ UNCHANGED <<shardVars, queueVars, faults>>

\* queue_repair
QueueRepair(t, s) ==
  /\ hpc[t] = "idle"
  /\ HGoto(t, "push", [Resting EXCEPT !.job = Job(s)])
  /\ UNCHANGED <<shardVars, queueVars, quarantined, faults>>

-----------------------------------------------------------------------------
HealerStep(t) ==
  \/ PushKey(t) \/ PushHeap(t) \/ ForgetKey(t) \/ Clear(t)
  \/ ReadShards(t) \/ MarkHealthy(t) \/ Requeue(t) \/ WorkerStops(t)
  \/ Scan(t) \/ LightScrub(t) \/ DeepScrub(t)
  \/ \E d \in Domains : WriteShard(t, d)
  \/ \E s \in Shards : QueueRepair(t, s)
  \/ \E job \in BagToSet(heap) : PopJob(t, job)
  \/ \E s \in hloc[t].todo : ScanVisit(t, s) \/ ScrubSkips(t, s) \/ ScrubFinds(t, s)

HealerNext ==
  \/ \E t \in Healers : HealerStep(t)
  \/ \E s \in Shards : Damage(s) \/ LeavesQuarantine(s) \/ \E h \in Reports : UpdateShardHealth(s, h)
  \/ \E d \in Domains : GoesOffline(d)

HealerSpec == HealerInit /\ [][HealerNext]_healerVars

-----------------------------------------------------------------------------

\* A key that counts as queued has a job, or a call that is about to add the job
\* or to remove the key: otherwise push would drop every later job for the shard,
\* and it would never be repaired again.  This rests on the order in which push,
\* pop and clear touch the heap and the set of keys (queue.rs).
NoStuckShard ==
  \A s \in inQueue :
    \/ \E job \in BagToSet(heap) : job.shard = s
    \/ \E t \in Healers : \/ hpc[t] \in {"push_heap", "popped"} /\ hloc[t].job.shard = s
                          \/ hpc[t] = "clear"

\* shards.rs:90 says of Healthy: "Shard is healthy and accessible".  So when a
\* shard becomes healthy, and its data is anywhere, it is where its location says.
HealthyIsAccessible ==
  [][\A s \in Shards :
       (health[s] # "Healthy" /\ health'[s] = "Healthy" /\ \E p \in places : p[1] = s)
         => Registered(s) \in places]_healerVars
=============================================================================
