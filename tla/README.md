# Warp: TLA+ models of the coordination and storage layers

Warp is a Rust workspace for bulk transfer and storage. This directory holds
TLA+ models of the parts in which several threads, tasks or nodes share state,
or in which state has to survive failures: the state library of the NFS and SMB
gateways (`warp-gateway-common`), the split-brain arbiter, the consistency
layer, the healer and the copy-on-write blocks of the object store
(`warp-store`), the CRDTs (`warp-crdt`), thin volumes (`warp-block`), the
deduplication registry with its garbage collector (`warp-chonkers`) and the
connection pool of the transfer orchestrator (`warp-orch`).

`PROJECT.json` maps every definition to the lines it models and lists the
components, the runs, the hazards and the theorems.

To check: `tlc -config Gateway.cfg MCGateway` (and so on, one
line of `runs` each) and `tlapm LockManagerProofs.tla` (and the other modules
whose name ends in `Proofs`; up to three minutes each).

## 1. Inventory

### Modelled

| Component | Code | State | Operations | Used by | What is hard |
|---|---|---|---|---|---|
| Byte-range locks (`LockManager`) | `warp-gateway-common/src/lock.rs` | per file a `BTreeMap` offset → lock, `token_index`, `owner_index`, `next_token` | acquire, release, upgrade, downgrade, release_all, expire_locks | NFS and SMB handlers, a periodic sweep | three concurrent maps updated one after the other, guards kept across map accesses, ranges at the end of u64 |
| Delegations (`Delegation`) | `.../delegation.rs` | `by_file`, `by_client`, id counter | grant, recall, return_delegation, revoke, revoke_all, cleanup_expired_recalls | NFS handlers, timeouts | check and insert are two accesses; lists of file ids go stale |
| Sessions (`Session`) | `.../session.rs` | `sessions`, `client_to_session`, open files, locks per file | create, get (which expires), destroy, expire_idle_sessions, open_file, close_file, add_lock, remove_lock | both gateways | reconnects, expiry during use, limits checked before the insertion |
| Leases (`Lease`) | `.../lease.rs` | `leases`, `by_client`, `by_file` | request (breaks conflicting leases), renew, release, expire_leases, release_client | SMB handlers, a sweep | a guard of `by_file` is kept while others are taken; three maps for one lease |
| Vote tracker (`VoteTracker`) | `warp-store/src/arbiter/vote.rs` | nodes, the election, the term, the leader | register_node, remove_node, heartbeat, mark_unreachable, start_election, cast_vote, vote_for_self, check_election, accept_term | detector, witness | election, leader and term are three locks or atomics; late and repeated votes; the quorum moves |
| Split-brain detector (`SplitBrain`) | `.../detector.rs` | heartbeat records, domains, `partition_info` | register_node, remove_node, heartbeat_success, heartbeat_failure, check_partition | calls the vote tracker | reports of several threads; state and quorum must follow the records |
| Witness (`Witness`) | `.../witness.rs` | its state, peers, the loop's copy of them, participations, votes cast | start, stop, the heartbeat loop, register_peer, remove_peer, receive_heartbeat, join_election, cast_vote (and its submission to the tracker), leave_election | calls a vote tracker | a background task on a copy; check and act in separate steps |
| Fencing manager (`Fencing`) | `.../fencing.rs` | `fenced_nodes`, `pending_fences`, what the agents hold | request_fence, execute_pending, release_node | recovery | retries, failing agents, releases during the work |
| Recovery coordinator (`Recovery`) | `.../recovery.rs` | state, plan, quiesced nodes, conflicts | start_recovery, execute_plan, cancel, add_conflict | calls the fencing manager | a plan executed on a copy over many awaits; steps that fail |
| CRDT registers and hybrid clock (`CrdtRegister`) | `warp-store/src/consistency/crdt_store.rs`, `warp-crdt/src/{hlc,lww_register}.rs` | per replica a clock and a register; deltas in flight | put and delete, generate_delta, deltas built from a returned timestamp, apply_delta, restart | object metadata of eventually consistent buckets | deltas lost, repeated and reordered; clocks that disagree, stand still or start again |
| CRDT counters (`CrdtCounters`) | `crdt_store.rs`, `warp-crdt/src/{g,pn}_counter.rs` | per replica one slot per node; deltas in flight | increment, decrement, generate_delta, apply_delta, restart | usage counters | repeated deltas; counters created for another node; counts lost in a restart come back in deltas |
| Persistent Raft log (`RaftLog`) | `warp-store/src/consistency/persistent_log.rs` | entries, vote, commit index, last purged; volatile and on disk | append, save_vote, save_committed, truncate, purge, flush, crash | the Raft library (openraft) | several keys written one by one, then flushed; a crash anywhere |
| Replicated metadata (`MetadataStore`) | `.../consistency/{mod,state_machine}.rs` | the committed order, the machine and the cache of each node | writes of buckets and object metadata, apply, change of the leader, restart | object store | reads come from a second machine that a write updates after Raft has answered |
| Healer, scrubber and shard manager (`Healer`) | `warp-store/src/healer/{daemon,queue,worker}.rs`, `.../scrub/{daemon,quarantine}.rs`, `.../replication/shards.rs` | the repair queue (heap and key set), workers, shard locations with their health, what the disks hold, quarantine | push, pop, requeue, clear, scan, queue_repair, repair with timeout and shutdown, light and deep scrub | background daemons | two structures for one queue; a job in a worker's hands is in neither; timeouts during a repair |
| Thin pool (`ThinPool`) | `warp-block/src/thin.rs` | free list, next chunk, allocated count | allocate_chunk, free_chunk | volumes | check, allocation and count are three accesses |
| Extent map (`ExtentMap`) | `warp-block/src/extent.rs` | the sorted extents of one volume | insert, remove, lookup | volumes, snapshots | cutting extents at the borders of a range |
| Copy-on-write blocks (`CowBlocks`) | `warp-store/src/snapshot/cow.rs` | blocks with counts, checksum index, pending cleanup, two id counters | allocate, add_ref, release_ref, copy_on_write, cleanup | clone and snapshot managers | deduplication against cleanup; a block at count zero can be found again |
| Chunk registry and collector (`ChunkRegistry`) | `warp-chonkers/src/dedup/{registry,gc}.rs` | metadata with atomic counts, `version_chunks`, the store, the pending list | register (the store may fail), unregister_version, collect_garbage, mark_unreferenced, collect, clear_pending, protect_version | versioned storage | lookup, store and insertion are three steps; deletion by a list; u32 wrap-around |
| Connection pool (`ConnectionPool`) | `warp-orch/src/pool.rs` | connections per edge, idle queue, two levels of semaphores | acquire, acquire_timeout, release on drop, close_edge | transfer tasks | await points between lookup, permits and insertion |

### Not modelled

`PROJECT.json` lists each part with the reason. In short:

* *Stateful, and not modelled yet:* quotas, object lock and lifecycle,
  ephemeral tokens, the NVMe-oF queue pair, GPU schedulers and memory pools,
  flow control of the stream pipeline, the multi-path transport pool, the
  portal network, the tunnel's replay window, inode lifetimes and caches of the
  file system, SMB oplocks. Section 8 orders them.
* *Left out of a modelled part:* OR-sets (the store's deltas lose the dots, so
  no OR-set semantics remains to be checked), snapshots of the Raft state
  machine, placement of new objects and the geo router, the state of the healer
  daemon, `set_file_position`, `next_sequence` and `allocate_client_id` of the
  session manager, `UpdateBucketConfig`, the sequence number of a witness
  heartbeat.
* *Out of reach of model checking:* codecs, file formats, cryptography, erasure
  codes, hashing, compression, GPU and DPU kernels (arithmetic on bytes); HTTP,
  CLI, dashboards, configuration, telemetry and device drivers (input and
  output). They and the tests are most of the workspace's 205 thousand lines,
  which is why the map covers a small share of it: the models follow the state
  machines and not the bulk of the code.

## 2. Modules

    GatewayClients            threads and clients of the gateway library
      |-- Delegation          (EXTENDS)
      |-- Session             (EXTENDS)
      '-- Lease               (EXTENDS)
    LockManager               byte-range locks
    ClusterNodes              membership and quorum of a vote tracker
      |-- VoteTracker         elections, terms and the leader (EXTENDS)
      |-- SplitBrain          detector, with a tracker of its own (EXTENDS, INSTANCE)
      '-- Witness             witness, with a tracker of its own (EXTENDS, INSTANCE)
    Fencing                   fencing manager and its agents
      '-- Recovery            recovery coordinator with fencing (EXTENDS)
    ReplicatedVersion         abstract: a replica moves up to versions that were issued
      '-- CrdtRegister        implements it (INSTANCE ... WITH)
    CrdtCounters, RaftLog, MetadataStore, Healer
    ChunkRegistry, ThinPool, ExtentMap, CowBlocks, ConnectionPool

    MCGateway                 LockManager, Delegation, Session and Lease
    MCArbiter                 VoteTracker, SplitBrain and Witness
    MCObjectStore             CrdtRegister, CrdtCounters, RaftLog, MetadataStore, and
                              Recovery with Fencing
    MCStorage                 ChunkRegistry, ThinPool, ExtentMap, CowBlocks,
                              ConnectionPool and Healer
    MCLiveness                LockManager, Fencing and Recovery, with fairness
    MCLockManager, MCRecovery, MCHealer    one component, for a violation run

    LockManagerProofs         theorems about LockManager
    GatewayProofs             ... Delegation, Session and Lease
    ArbiterProofs             ... VoteTracker, SplitBrain and Witness
    RecoveryProofs            ... Recovery with Fencing
    ConsistencyProofs         ... CrdtRegister (with its refinement), RaftLog, MetadataStore
                              and CrdtCounters
    BlockProofs               ... ThinPool, CowBlocks and ExtentMap
    RegistryProofs            ... ChunkRegistry
    ServiceProofs             ... Healer and ConnectionPool

Components that share state are composed by EXTENDS: the recovery coordinator
calls the fencing manager in the same behaviour, the detector and the witness
call a tracker. Components that share no state in the code are put next to each
other in one MC module: a variable `part`, chosen at the start, says which of
them this behaviour is about. The set of behaviours is the union of theirs, each
is explored in full, and no interleaving of unrelated state is enumerated.
`MCLiveness` does the same with `scope`: locks, fencers alone, or a recovery, each
with the fairness of its own component.

Conventions shared by all modules:

* **Steps.** A method is cut where another thread can run: between two accesses
  to concurrent maps, locks or atomics, and at an `await`. `pc` says where a
  thread is, `loc` holds what the code keeps in local variables across the cut.
  A call that is refused, or returns early without having changed anything, is a
  stutter, and so are methods that only read.
* **Guards.** A `DashMap` guard that the code keeps across a cut is a variable or
  a condition (`fileGuard`, `tokenGuard`, `infoGuard`, `Unguarded`). Guards are
  taken per entry; the code's shards are coarser, which removes behaviours and
  adds none, except that a shard collision could make two different keys wait
  for each other. In `token_index`, which `retain` goes through shard by shard
  while it waits for files, they are taken per shard: `ShardOf` says in which of
  the `TokenShards` a token is, and the theorems hold for every such map.
* **Time.** A deadline that passes is an action of its own that may happen at any
  moment. The hybrid clock reads a wall clock that may repeat and go back.
* **Failures.** `RaftLog` loses what was not flushed in a crash between any two
  writes; replicas of `CrdtRegister` and nodes of `MetadataStore` restart with
  what the code keeps; deltas stay in the network, so that they can be late,
  repeated, reordered or never arrive; agents, stores, shard reads and writes
  may fail.
* **Inputs.** Every argument is chosen by `\E` from a constant set.
* **Bounds.** Every counter that grows has a bound called `Max...` in the guard of
  the action that increments it. Nothing else is restricted.
* **External.** Fence agents, the chunk store and openraft are outside: an agent
  or store succeeds or fails and a failed call has no effect; Raft delivers
  committed requests to every node in one order.
* **Mutants.** An operator under a comment `Mutant:` is a plausible mistake in the
  definition that follows it. It is not used by the specification.
* **Histories.** A variable marked `history` records something the program does
  not store: what clients were told (`granted`, `out`, `held`, `acked`,
  `counted`, `written`), or that a situation has occurred in which the code is
  known to be wrong (`delegationOverlapped`, `replaced`, `reconnected`,
  `refiled`, `setBack`, `churned`, `interfered`, `racedChunks`,
  `adopted`, `early`, `rewound`, `cutOff`, `skipped`, `straddled`, ...). It never
  restricts what happens: all interleavings are explored, and a property that
  needs such a premise says so. Section 5 says what the code does when the
  premise fails.

## 3. Runs

Two threads are enough for most interleaving questions here: the hazards are
between the steps of one call and one other actor. Where a limit is at stake
(thin pool) there is one thread more than room.

| Run | Checks | Bounds | States |
|---|---|---|---|
| `gateway` | `TypeOK`, `NoConflictingLocks`, `ByteExclusive`, `NoStrandedLock`; `NoResurrection`, `UnrecalledIsHeld`, `RevokesOnlyMeant`; `ClientFindsSession`; `NoUnbrokenConflict`, `NoGuardDeadlock` | 2 threads, 2 clients; locks: a sweeper, 1 file, offsets 0 and 2, lengths 0 (to the end) and 2, u64 scaled to 3, 2 acquires, a shard per token; 2 files, 2 grants, 2 sessions with limits of 1, 3 lease requests for read and read-write | 1.3 M |
| `liveness` | `CallsReturn`; `ExecuteReturns`; `RecoveryEnds` | locks: 2 threads and a sweeper, 1 client, offsets 0 and 1 and length 1, one shard; 2 fencers, 2 nodes, 1 agent, 2 actions tried once each; 1 recovery with a key that was changed and deleted; no symmetry | 0.18 M |
| `arbiter` | `LeaderHasQuorum`, `OneWinnerPerElection`; `NoMissedPartition`, `NoFalseQuorumClaim`, `StateOrder`; `FirstVoteCounts`, `TrackerFollowsPeers` | 2 threads, 3 nodes of which 2 are members at first, 2 elections, 1 change of membership, a remote term above the local ones, threshold 3, 1 peer, 1 start, 2 votes of the witness in 2 elections and 2 terms | 3.7 M |
| `object_store` | `TimestampIdentifiesWrite`, `OverwriteIsLater`, `ImplementsVersions`; `CountsOnce`; `AnswersSurviveCrash`; `CacheIsMachine`; `NoLostRequest`, `RecordTellsTruth`, `SyncOnlyQuiesced`, `NoNodeLeftQuiesced` | 2 replicas, clock readings 0 and 1, 3 puts, 2 applies, 1 restart; 3 counts, 1 restart; 3 log indices, 2 votes, 2 crashes; 2 nodes, 2 writers, 3 requests, 1 disturbance; 2 recoverers with 2 plans, or 2 fencers, on 2 nodes with 2 agents and 2 actions | 1.4 M |
| `storage` | `NoDataLoss`, `RefCountExact`; `ChunkHasOneOwner`, `PoolOverrunBounded`; `ReadsLastWrite`; `HeldBlockIsIntact`, `DeadBlockIsScheduled`; `OneBorrower`, `ConnectionLimits`; `NoStuckShard` | 2 threads, 2 chunks, 2 versions, 3 registers that succeed, u32 scaled to 7; 3 allocators on 2 chunks; a volume of 4 blocks; 2 contents, batch of 1; 2 tasks, 1 edge, limits of 3 and 2; 2 workers, 2 shards in 2 domains, 1 fault | 0.78 M |
| `lock_shared_lost` | violation of `GrantedLockIsHeld` | 1 thread, 2 clients, 1 offset | |
| `cow` | violation of `BlockIdsUnique` | 2 threads, one inline and one external content | |
| `pool` | violation of `WaitingAcquireIsServed`, under fairness | 2 tasks, 1 edge, limits of 2 and 1 | |
| `heal` | violation of `HealthyIsAccessible` | 2 workers, 2 shards, 1 fault | |
| `recovery_strategies` | violation of `ResolvesByDefault`, under fairness | 1 recovery with a conflict, MajorityWins | |
| `leader` | violation of `NoLeaderDuringElection` | 2 threads, 3 nodes, 2 elections | |
| `pn_counter` | violation of `PNTotalIsCounted` | 2 replicas, 2 counts | |

The recoveries of `object_store` meet no conflicting keys (`Keys = {}`): none of
its four properties reads the conflicts, and the step that resolves them changes
nothing else. Conflicts, which decide whether a recovery ends, are in `liveness`
and `recovery_strategies`.

Deadlock checking is off: a behaviour ends when the bounds are used up and all
calls have returned. Where threads could block each other it is a property of
its own (`CallsReturn`, `NoGuardDeadlock`, `ExecuteReturns`, `RecoveryEnds`,
`WaitingAcquireIsServed`).

The older modules state a type invariant (`...TypeOK`) that holds on these
instances; only the lock manager's is a property of a run. The proofs start from
type invariants of their own, which also cover the locals of the threads.

### What the runs show

* **Locks.** Two live locks of different clients never conflict, in the code's
  own sense of overlap (`NoConflictingLocks`) and byte by byte
  (`ByteExclusive`), although upgrades, releases and the sweep run at the same
  time and ends of ranges saturate. Every lock can be found through its token
  unless a thread is just inserting or removing it. Every call returns, with one
  exception, which `GuardCycle` spells out: `acquire` keeps the guard of its file
  while it waits for the shard of its token, and the `retain` of `expire_locks`
  holds that shard while it reads the file. This deadlock is real; the property
  says that there is no other.
* **Delegations.** In any interleaving what has ended does not come back, even
  when a return by the wrong client takes it out and puts it back. Between calls
  that do not overlap, nobody loses a delegation that was not recalled, and bulk
  revocations end only what they were meant for.
* **Sessions.** Between calls that do not overlap the map names a live session
  of the client.
* **Leases.** Callers never block each other on the guards of `by_file`. Between
  calls that do not overlap, of two leases in conflict one is being broken to
  something compatible.
* **Votes.** A leader had a quorum, and an election names one leader, although
  votes come late and the quorum moves. The leader of an old election may appear
  after a new one has begun (`leader`).
* **Detector.** Three failures in a row always leave the detector out of
  Healthy, in any order of the reports, because `check_partition` collects under
  the write lock of `partition_info`. The states follow their documented order.
  As long as no node is added or removed it claims no quorum that the tracker
  has lost.
* **Witness.** However often the witness leaves an election, joins it again and
  votes again, from several threads, the first vote for the tracker's election and
  term counts, and it alone; `votes_cast` may hold several. Between calls that do not overlap
  the tracker counts exactly the witness and its peers, and a peer heard from is
  reachable unless a heartbeat loop has it in its frozen copy.
* **Fencing.** No accepted request is lost although it is in no map for a
  moment, records tell the truth about the agents, and `execute_pending` ends
  however often agents fail.
* **Recovery.** However recoveries fail, are cancelled and run beside each other,
  no node stays quiesced once nobody works on it: fences, the only step that can
  fail, are released before the writes stop. A recovery that has started ends,
  for a strategy that has a rule.
* **CRDT registers.** Over a network that loses, repeats and reorders, two writes
  never share a timestamp and a write is later than every copy of what it
  replaced, although wall clocks disagree and stand still: `receive` moves the
  clock past what arrives. The registers implement `ReplicatedVersion`: a replica
  only ever moves up, and only to a version some write has issued; a restart
  forgets.
* **CRDT counters.** A grow-only counter never shows more than was counted, with
  repeated and late deltas, restarts and shared slots; a replica that never
  restarted keeps its own counts. PN-counters lose nothing of a replica's own
  counts, and do count those of others twice (`pn_counter`).
* **Raft log.** The vote, the entries and the commit index that were acknowledged
  survive a crash between any two writes of any operation, and an entry that a
  completed truncate removed does not come back.
* **Metadata.** With writes one after the other on a stable leader the cache goes
  through the same states as the replicated machine.
* **Healer.** In any interleaving of pushes, pops, timeouts, shutdowns and clears
  a key that counts as queued has a job or a call that is about to deal with it,
  so no shard is locked out of repair.
* **Thin pool and extents.** A chunk has one owner or is free; the pool is
  overrun by less than the number of threads that were inside at once; a read
  returns what was last written, block by block, whatever extents it crosses.
* **Copy-on-write blocks.** A block somebody holds is intact and its count is
  exact; a block without references is scheduled for cleanup, even where a
  cleanup raced with a change of its count.
* **Connection pool.** A connection has one borrower, and the limits of the pool
  and of each edge hold.
* **Registry.** Six races are named at `Race`; a chunk that met none of them
  keeps its data while it is used and has an exact count.

## 4. Fairness

* `LockManager.LockFairness`, used by `MCLiveness`: strong fairness for the steps of each request thread
  and of each sweeper inside a call. Map guards are released after a few
  instructions and the locks of `DashMap` and `parking_lot` do not starve a
  waiter for ever, so a step that is possible again and again is taken; weak
  fairness would let a thread lose every race for a guard. Nothing makes a
  client call.
* `Recovery.Fairness`, used by `MCLiveness` and `FairFailoverSpec`: weak fairness for the steps of a
  thread inside `execute_pending` or `execute_plan`. They wait for no lock that
  is kept; the sleeps between attempts end and an agent answers, with success or
  failure.
* `ConnectionPool.FairConnectionSpec`: weak fairness for the steps of a task
  inside `acquire`, `release` or `close_edge`, which the runtime polls, and for
  giving a connection back, which happens when the guard is dropped. Without it
  `WaitingAcquireIsServed` could fail because somebody keeps a connection; with
  it the waiting task is left out although everybody gives back.

## 5. Where the code departs from what it says

Seven of these are runs:

* `lock_shared_lost`: `FileLockState` keeps its locks in a map keyed by the
  offset, so a second shared lock at the same offset, which is compatible and
  granted, replaces the first; that client's token leads to nothing and an
  exclusive lock can be granted over it (`lock.rs:276`).
* `cow`: inline and external blocks draw ids from two counters that both start at
  1, so two contents get the same "unique" id (`cow.rs:118`).
* `pool`: an acquire that waits for a permit of its edge is not woken when a
  connection becomes idle, and `release` gives no permit back: it waits beside
  an idle connection, with a permit of the pool in hand (`pool.rs:520`).
* `heal`: a repair writes the shard to a path made up for the purpose and marks
  the old location Healthy; the new one is recorded nowhere (`worker.rs:243`).
* `recovery_strategies`: for strategies other than LastWriteWins and KeepBoth,
  where `recovery.rs:731` promises last write wins, `resolve_conflict` calls
  itself with the same strategy without end (`recovery.rs:732`, the guard
  `Overflows`).
* `leader`: `check_election` lets go of the election before it writes the leader
  (`vote.rs:371`); a `start_election` in between has cleared the leader for the
  new election ("Clear current leader during election", `vote.rs:321`), and the
  old winner is written afterwards.
* `pn_counter`: the delta of a PN-counter carries the totals over all nodes as the
  sender's own slot (`crdt_store.rs:563`), so what others counted is counted
  again in it.

The others are the reasons for the premises in the properties, or were met on
the way:

* Delegations (`delegationOverlapped`, `replaced`): two grants pass the check
  together and the second insertion drops the first (`delegation.rs:266`);
  `grant` looks for conflicts with Active delegations only, so while a recall is
  pending the file goes to a second client (`delegation.rs:235`); `revoke_all`
  and `cleanup_expired_recalls` go by lists of file ids and can revoke what
  somebody else was granted meanwhile (`delegation.rs:383`).
* Sessions (`reconnected`): `destroy_session` removes the client's entry
  whichever session it names (`session.rs:319`). The limit of locks is counted
  per file, while `session.rs:72` says per session.
* Leases (`refiled`, `leaseOverlapped`): the update branch adds files without
  indexing them (`lease.rs:276`) and merges the state for all files after
  looking at some (`lease.rs:274`); two requests look for conflicts before
  either is indexed (`lease.rs:284`); no method of the manager completes a break.
* Votes (`setBack`): `accept_term` compares and stores in two steps
  (`vote.rs:409`).
* Detector (`churned`): two passes over the records may put a node in both
  partitions (`detector.rs:315`); `we_have_quorum` is not reset when all nodes
  are back; `is_responsive` compares with the literal 3 whatever
  `failure_threshold` says (`detector.rs:124`).
* Locks (`GuardCycle`): `acquire` and `expire_locks` take a file and a shard of
  `token_index` in opposite orders and can block each other for ever
  (`lock.rs:402`).
* Witness (`witnessOverlapped`): `join_election` overwrites a participation, and
  with it the vote (`witness.rs:364`), so that `votes_cast` gets a second one
  although `witness.rs:385` says "Only vote once"; the loop watches a deep
  copy of the peers in which no heartbeat arrives and no later peer appears
  (`witness.rs:480`).
* Fencing (`interfered`): the outcome is written over a release
  (`fencing.rs:358`); a node once released or failed is refused for ever
  (`fencing.rs:313`).
* Recovery (`overlapped`): `cancel` sets Idle while `execute_plan` goes on with
  its copy, so two recoveries can run (`recovery.rs:804`); a recovery
  that ended leaves a state from which only `cancel` leads back to Idle
  (`recovery.rs:383`).
* CRDT registers (`early`, `rewound`): `put` returns the first of two ticks and
  keeps the second (`crdt_store.rs:173`), so a delta built from the returned
  timestamp is older than the register it describes; after a restart with a
  clock behind, timestamps repeat.
* CRDT counters (`adopted`): a replica that has no counter creates it for the
  node of the first delta and from then on counts in that node's slot
  (`crdt_store.rs:412`). Counters are in memory: a replica that restarts counts
  from 0, and its new counts are lost in the larger value that deltas bring back.
* Raft log: a crash inside `truncate` or `purge` leaves some of the keys, or the
  old `last_purged`; what was acknowledged is not touched by this.
* Metadata (`raced`, `disturbances`): nothing updates the cache of a node that
  did not take the write, although `mod.rs:348` calls reads eventually
  consistent; the state machine is in memory, so what was purged from the log
  is gone after a restart.
* Healer: nothing sets a shard to Repairing, so two workers may repair one
  shard; a quarantine is not lifted by a repair; a scrub whose read fails
  quarantines without asking for a repair; the local verification accepts any
  content; `stop` shuts the workers down before it waits for the queue to drain;
  pause, resume and load of the scrub daemon go to another scheduler instance.
* Extents (`cutOff`): `insert` drops an extent it overlaps in part
  (`extent.rs:230`). A block snapshot marks only the clone's extents shared.
* Copy-on-write blocks (`raced`, `skipped`): cleanup looks at the count, lets go
  and removes (`cow.rs:408`); what is beyond the batch is taken off the list and
  forgotten (`cow.rs:398`).
* Connection pool (`straddled`): `close_edge` throws away the semaphore of an edge
  while an acquire is between its permits and the entry of its connection;
  permits of closed connections are not given back to the pool.
* Registry (`racedChunks`): a second insertion replaces the first one's count
  (`registry.rs:244`); the collector removes by a list without looking again
  (`registry.rs:371`); a chunk that occurs twice in a version counts twice and is
  given back once (`registry.rs:230`). `collect` works out a batch and then
  deletes every unreferenced chunk (`gc.rs:174`), so minimum age and batch size
  bind only the first, and `protected_versions` is never consulted (`gc.rs:81`).

Assumptions about callers, which the code does not check and no code of the
repository breaks: `free_chunk` (`thin.rs:99`) is called by the owner of the
chunk, once; extents have a length above 0 (`extent.rs:221` accepts an empty one);
`save_committed` is given a log id. Configurations that are left out: copy-on-write
blocks without `dedup_enabled` (the default is with), and a collector with
`dry_run`, which deletes nothing.

## 6. Proofs

The theorems hold for every value of the constants: any number of threads,
clients, nodes, files, chunks, entries, and any of the bounds called `Max...`.

| Module | Theorem | States | Premise |
|---|---|---|---|
| `LockManagerProofs` | `TypeCorrect` | `TypeOK` | |
| | `MutualExclusion` | `NoConflictingLocks` | |
| | `ByteExclusion` | `ByteExclusive` | |
| | `NoLockStranded` | `NoStrandedLock` | |
| `GatewayProofs` | `EndedStaysEnded` | `NoResurrection` | |
| | `UnrecalledStays` | `UnrecalledIsHeld` | |
| | `RevokesMeant` | `RevokesOnlyMeant` | |
| | `ClientsFindSessions` | `ClientFindsSession` | |
| | `ConflictsBroken` | `NoUnbrokenConflict` | |
| | `GuardsNeverBlockAll` | `SomeCanContinue`: `NoGuardDeadlock` with guards for `ENABLED` | |
| `ArbiterProofs` | `LeadersElected` | `LeaderHasQuorum` | `MajorityQuorum` |
| | `WinnersUnique` | `OneWinnerPerElection` | |
| | `PartitionsNoticed` | `NoMissedPartition` | |
| | `QuorumClaimsTrue` | `NoFalseQuorumClaim` | `SoundThresholds` |
| | `StatesInOrder` | `StateOrder` (action property) | |
| | `FirstVote` | `FirstVoteCounts` | |
| | `TrackerFollows` | `TrackerFollowsPeers` | |
| `RecoveryProofs` | `RequestsKept` | `NoLostRequest` | |
| | `RecordsTrue` | `RecordTellsTruth` | |
| | `NobodyLeftQuiesced` | `NoNodeLeftQuiesced` | a strategy with a rule |
| | `SyncsQuiesced` | `SyncOnlyQuiesced` | |
| `ConsistencyProofs` | `StampsIdentify` | `TimestampIdentifiesWrite` | `NoSaturation` |
| | `OverwritesLater` | `OverwriteIsLater` | `NoSaturation` |
| | `RegisterRefines` | `ImplementsVersions` (refinement) | `NoSaturation` |
| | `SurvivesCrash` | `AnswersSurviveCrash` | |
| | `CacheFollows` | `CacheIsMachine` | |
| | `CountedOnce` | `CountsOnce` | |
| `BlockProofs` | `OneOwner` | `ChunkHasOneOwner` | |
| | `OverrunBounded` | `PoolOverrunBounded` | |
| | `HeldIntact` | `HeldBlockIsIntact` | |
| | `DeadScheduled` | `DeadBlockIsScheduled` | |
| | `ReadsWhatWasWritten` | `ReadsLastWrite` | |
| `RegistryProofs` | `CountsExact` | `RefCountExact` | |
| | `DataKept` | `NoDataLoss` | |
| `ServiceProofs` | `QueueNeverSticks` | `NoStuckShard` | |
| | `OneTaskPerConnection` | `OneBorrower` | |
| | `ConnectionsWithinLimits` | `ConnectionLimits` | |

*Premises.* Each is a fact about the configuration that the property needs, and
each holds on the instances of section 3:

* `MajorityQuorum`: the quorum is worked out from the members (the default), or
  the number given to `with_quorum`, which is not checked, is a majority of all
  nodes. With less, two elections need not share a voter. Only the second half
  of `LeaderHasQuorum` uses it.
* `SoundThresholds`: `failure_threshold` is at least the 3 that `is_responsive`
  has built in, and a fixed quorum is not larger than the cluster. With a lower
  threshold the tracker loses a node that the detector still counts.
* `NoSaturation`: at most u32::MAX ticks of a hybrid clock. At the limit the code
  saturates, and the next timestamps are equal.
* A strategy with a rule is LastWriteWins or KeepBoth; with the others
  `resolve_conflict` never returns (section 5), and the nodes do stay quiesced.

*Assumptions on constants* are named in the modules that declare them
(`LockBoundIsNat`, `ClusterConstants`, `RegistryConstants`, ...): bounds are
natural numbers, placeholders are no real values ("none" is no file), sets that
are counted or summed over are finite (`IsFiniteSet(Counting)`), there is an
edge to connect to, and u32 is wider than the number of registrations is large.
TLC evaluates them in every run.

### The arguments

In each part `...Initial` and `...Preserved` are the two halves of an inductive
invariant, which TLC checked first, and one lemma per action shows why that
action keeps it. No property is inductive as it stands. What has to be added is
always what threads in the middle of a call have in their hands.

* **Locks.** `TypeInv` adds `LocalsOK`: the token that `acquire` is about to
  publish was drawn. Most steps leave the locks alone, remove some or weaken one
  (`RemovalStep`, `WeakeningStep`); the insertion of `acquire` and the change of
  mode in `upgrade` have checked for conflicts in the same step, since the guard
  of the file is held. `ByteExclusion` rests on `CommonByteOverlaps`: if a byte
  lies in two ranges as a client means them, the comparison of saturated ends
  finds the overlap. `StrandInv`, for the way from a token to its lock: a token is
  drawn once and so names one lock (`DrawnOnce`), nobody else knows the token of
  an acquire that has yet to index it (`InProgress`), and the index loses a token
  only to a release on its way to the lock or to a sweep that has seen all files
  (`Led`).
* **Delegations.** `TableInv`: every record, in the table, in a thread's hands or
  handed out, has an id below the counter, an id names one file and client, and a
  delegation that a thread is about to put into the table (`grant`, `put_back`)
  is nowhere else and has not ended. This needs no premise about overlapping
  calls. `SerialInv` adds what holds while calls come one
  after the other: the thread inside a call is alone, and the two maps agree up
  to the entry it is about to change (`InTurn`).
* **Sessions, leases.** The same shape: alone in a call, and the maps agree up to
  what the call is about. For leases the thread that requests also carries what
  it has already looked at (`Scanned`): every lease on a file it has passed is
  compatible or being broken, which is what `LGranted` turns into the property.
  `GuardInv`, for the guards of `by_file`: a request has one only while it goes
  through the leases of one file, where it waits for nobody. So whoever has a
  guard can go on, and when nobody has one everybody can. `CanContinue` lists the
  guards of the steps of `LeaseContinue`, whose other conjuncts are assignments.
* **Votes.** `FreshId` and `Decided`: an id is given to one election, and once
  that has a winner it has a result, so that no second check decides it.
  `Victories` records by whom, and two majorities of a finite set meet.
  `FreshTerm` is the same for terms, as long as none was overwritten.
* **Detector.** `Noticed`: a node at the limit is known, or a check is still to
  come, or the check that holds the lock has found it. `QuorumInv` relates the
  tracker to the records: a node it misses failed often enough or has an answer
  on its way.
* **Witness.** `Ballots`: a vote that was cast since the election began and is for
  it has been counted, or lost to an earlier one, or is on its way in the hands
  of the one thread that has the guard of the participation (`OnTheirWay`).
  `Followed`:
  tracker and peers agree about a peer, or a call is between the two.
* **Fencing and recovery.** `FencingInv`: an accepted request is pending,
  recorded or in the hands of a thread, which will record it, and so is a node
  that an agent holds although its record says Released (`OutcomeComes`). `RecoveryInv`
  carries a fact about plans: their steps come in the order of `Rank`
  (`JoinParts`, over the parts of a plan), and whoever stopped the
  writes still has the step that clears the set ahead of it.
* **CRDT registers.** `Ticked` bounds the logical clock by the calls so far;
  `ClockAhead` says the clock of a replica has seen the register it keeps, which
  needs nothing about wall clocks: a restart forgets the register with the
  clock. This is why `OverwriteIsLater` holds after clocks went back. `OwnStamps`
  (the clock is ahead of all its stamps) does need them, so
  `TimestampIdentifiesWrite` has the premise `~rewound`. The refinement maps a
  put to `Write`, an applied delta to `Synchronise` or a stutter, a restart to
  `Forget`.
* **Raft log.** `RaftInv`: what an operation is about to answer for is in the tree
  (`AnswerReady`), only `save_vote` leaves durable trees with different votes,
  until it flushes (`OneVote`), what is being removed is no longer acknowledged,
  a truncated entry having a term below the vote (`Removing`), and truncated
  terms are below every vote that a crash may bring back (`GoneIsOld`). The least
  and the greatest element of a set of numbers come from well-founded induction
  (`LeastElement`, `GreatestElement`).
* **Metadata.** `OneByOne`, as long as calls do not overlap and the leader stays:
  either nobody writes and cache and machine of the leader agree, or the one
  write under way is the last entry of the log and the cache is behind the
  machine by exactly this request once the leader has applied it (`UnderWay`).
* **CRDT counters.** `SlotInv` goes slot by slot: no counter and no delta has more in
  a grow-only slot than was counted into it, whoever counted there and whoever
  has restarted since, and the bound of the property is the sum of this over the
  slots (`SlotsMonotone`). `OwnSlotInv` adds, while every replica has made its
  counters itself, that one which never restarted has all its counts; deltas that
  come back cannot exceed them. `CountsFromSlots` puts the two together.
* **Thin pool.** A chunk is owned, on its way to one thread, on the free list
  once, or beyond the next one. For the overrun, `CountInv` says the count
  is never behind the chunks in use plus the threads freeing one, and the threads
  on their way to a chunk are within the bound.
* **Extents.** `ExtentInv`: the extents are apart, each has what was last written
  at its addresses and none of these is cut off, and what no extent covers is
  blank or cut off. That the walk of `read` then gives the content is shown along
  the walk (`WalkSoFar`): after the extents up to any one it has the content up to
  the end of that one, or of the range; between there and the next extent nothing
  is covered (`NextExtent`), so the hole and the part of the extent continue it
  (`ExtentIsRead`, `StretchesJoin`).
* **Copy-on-write blocks.** `DeadWaits` needs no premise. `CowIds`, for blocks
  from one counter, says an id is given out once, an entry of the index leads to
  a block with its content, now or once it is stored, and what a cleanup is about
  to remove has no reference unless a count changed in between.
* **Registry.** For a chunk that met no race one of three things holds: it is
  *settled*, and its count is that of its versions, of the threads about to link
  it and of those about to take a reference off; it is *vanishing*, one collector
  deletes it and nobody uses it; or it is *doomed*, whatever ends the deletion
  will be recorded as a race. `Bounded` says for all chunks that a count above the
  number of registrations is about to be reset.
* **Healer.** `NoStuckShard` is inductive once the heap is known to be a bag
  (`QueueInv`): whoever takes a job out of the heap has it in hand in the same
  step, and lets go of it only with the key.
* **Connection pool.** `BorrowInv`: the connections that tasks have, and those the
  idle index lists, are all different, and none that is listed is in use.
  `LimitInv`: permits of the pool, tasks that hold one and connections ever made
  add up to the limit (`TotalInv`; permits of closed connections never come back).
  For an edge the permits of its present semaphore, the tasks about to insert and
  its live connections are within its limit, as long as no `close_edge` has
  thrown the semaphore away under an acquire (`EdgeInv`, for edges that are not in
  `straddled`).

*Induction over data.* The library's induction theorems cannot be instantiated by
the provers, but for the two folds (`Slots` and `ReadVolume`) they are not needed.
A fold is a recursive function over the subsets of its set; that this function
exists (`SumsForAll`, `WalksForAll`), and what it computes, is shown by the least
counterexample: take the least size (or, for extents, the least offset of a last
extent) at which the claim fails (`LeastElement`, `LeastNumber`) and look at the
subset without the element that the fold picks. `ReadVolume` folds over the set of
extents, taking the last by its offset, rather than over a sorted sequence, since
the provers have no definition of `SortSeq`.

Two proofs strengthened what they set out to prove: `OverwriteIsLater` was
stated for clocks that are not set back, and `DeadBlockIsScheduled` for blocks
whose count did not change during a cleanup. Neither premise is needed, so both
are gone.

## 7. What is only model-checked

* Liveness (`CallsReturn`, `ExecuteReturns`, `RecoveryEnds`,
  `WaitingAcquireIsServed`, `ResolvesByDefault`) is beyond the prover.
* `NoGuardDeadlock` says `ENABLED`, which the prover does not know.
  `GuardsNeverBlockAll` proves the same about the guards of the steps, written
  out.
* Every other invariant and action property of the passing runs, and the
  refinement, is a theorem of section 6.

## 8. Plan

Built so far, in this order: locks (with proofs), delegations, sessions and
leases; vote tracker, detector, witness, fencing and recovery; chunk registry;
CRDT registers with their abstract specification, counters, Raft log, metadata
cache, healer; thin pool, extents, copy-on-write blocks, connection pool; then
the proofs of section 6, last those of the healer, the connection pool, the
tokens of locks, the metadata cache, the counters and the extents.

Candidates for further modelling, by the interleavings and limits they have:
quotas, object lock against lifecycle, ephemeral tokens, the NVMe-oF queue pair,
the address allocator and coordinator of `portal-net`, the replay window of
`boringtun-warp`, flow control of `warp-stream`, oplocks of `warp-smb`.
