--------------------------- MODULE ServiceProofs ---------------------------
(***************************************************************************)
(* Proofs about the two services that share work between tasks: the repair *)
(* queue of the healing daemon (Healer) and the connection pool of the     *)
(* transfer orchestration (ConnectionPool).                                *)
(***************************************************************************)
EXTENDS Healer, ConnectionPool, FiniteSetTheorems, SequenceTheorems, TLAPS

(***************************************************************************)
(* The repair queue.  A key that the set of queued shards holds is on its  *)
(* way: it has a job in the heap, or a worker or a caller has it in hand.  *)
(***************************************************************************)
\* Every job in the heap is there at least once.
HeapIsBag == IsABag(heap)

QueueInv ==
  /\ hpc = [t \in Healers |-> hpc[t]]
  /\ hloc = [t \in Healers |-> hloc[t]]
  /\ HeapIsBag
  /\ NoStuckShard

\* Adding a job keeps the jobs that are there, and taking one out keeps the others.
LEMMA HeapChanges ==
  ASSUME IsABag(heap), NEW job
  PROVE  /\ IsABag(EmptyBag)
         /\ IsABag(heap (+) SetToBag({job}))
         /\ BagToSet(heap (+) SetToBag({job})) = BagToSet(heap) \cup {job}
         /\ IsABag(heap (-) SetToBag({job}))
         /\ BagToSet(heap) \ {job} \subseteq BagToSet(heap (-) SetToBag({job}))
<1>1. heap \in [DOMAIN heap -> {n \in Nat : n > 0}]
  BY DEF IsABag
<1>2. IsABag(EmptyBag)
  BY DEF IsABag, EmptyBag, SetToBag
<1>3. IsABag(heap (+) SetToBag({job})) /\ BagToSet(heap (+) SetToBag({job})) = BagToSet(heap) \cup {job}
  BY <1>1 DEF IsABag, SetToBag, BagToSet, (+)
<1>4. IsABag(heap (-) SetToBag({job})) /\ BagToSet(heap) \ {job} \subseteq BagToSet(heap (-) SetToBag({job}))
  BY <1>1 DEF IsABag, SetToBag, BagToSet, (-)
<1> QED
  BY <1>2, <1>3, <1>4

\* At the start no key is queued.
LEMMA QueueInitial == HealerInit => QueueInv
<1> SUFFICES ASSUME HealerInit PROVE QueueInv
  OBVIOUS
<1>1. IsABag(EmptyBag)
  BY DEF IsABag, EmptyBag, SetToBag
<1> QED
  BY <1>1 DEF HealerInit, QueueInv, HeapIsBag, NoStuckShard

\* The step of one task leaves the others where they are.
LEMMA OneTask ==
  ASSUME QueueInv, NEW t \in Healers, NEW label, NEW locals, HGoto(t, label, locals)
  PROVE  /\ hpc' = [u \in Healers |-> hpc'[u]] /\ hloc' = [u \in Healers |-> hloc'[u]]
         /\ hpc'[t] = label /\ hloc'[t] = locals
         /\ \A u \in Healers : u # t => hpc'[u] = hpc[u] /\ hloc'[u] = hloc[u]
BY DEF QueueInv, HGoto

\* A task that is in the middle of no push, pop or clear may go anywhere.
LEMMA QueueStays ==
  ASSUME QueueInv, NEW t \in Healers, NEW label, NEW locals, HGoto(t, label, locals),
         hpc[t] \notin {"push_heap", "popped", "clear"}, UNCHANGED queueVars
  PROVE  QueueInv'
<1>1. NoStuckShard'
  BY OneTask DEF QueueInv, NoStuckShard, queueVars
<1> QED
  BY <1>1, OneTask DEF QueueInv, HeapIsBag, queueVars

\* The same with the return to a scan or a scrub.
LEMMA QueueStaysOnReturn ==
  ASSUME QueueInv, NEW t \in Healers, NEW locals, HReturn(t, locals),
         hpc[t] \notin {"push_heap", "popped", "clear"}, UNCHANGED queueVars
  PROVE  QueueInv'
BY QueueStays DEF HReturn

\* push adds the key and is then on its way to add the job.
LEMMA PushKeyKeeps == ASSUME QueueInv, NEW t \in Healers, PushKey(t) PROVE QueueInv'
<1>1. CASE hloc[t].job.shard \in inQueue
  BY <1>1, QueueStaysOnReturn DEF PushKey, queueVars
<1>2. CASE hloc[t].job.shard \notin inQueue
  <2>1. /\ hpc[t] = "push" /\ HGoto(t, "push_heap", hloc[t]) /\ UNCHANGED heap
        /\ inQueue' = inQueue \cup {hloc[t].job.shard}
    BY <1>2 DEF PushKey
  <2>2. NoStuckShard'
    BY <2>1, OneTask DEF QueueInv, NoStuckShard
  <2> QED
    BY <2>1, <2>2, OneTask DEF QueueInv, HeapIsBag
<1> QED
  BY <1>1, <1>2

\* The job it adds stands for the key from then on.
LEMMA PushHeapKeeps == ASSUME QueueInv, NEW t \in Healers, PushHeap(t) PROVE QueueInv'
<1>1. PICK label, locals : HGoto(t, label, locals)
  BY DEF PushHeap, HReturn
<1>2. /\ hpc[t] = "push_heap" /\ UNCHANGED inQueue /\ IsABag(heap)'
      /\ BagToSet(heap') = BagToSet(heap) \cup {hloc[t].job}
  BY HeapChanges DEF PushHeap, QueueInv, HeapIsBag
<1>3. NoStuckShard'
  BY <1>1, <1>2, OneTask DEF QueueInv, NoStuckShard
<1> QED
  BY <1>1, <1>2, <1>3, OneTask DEF QueueInv, HeapIsBag

\* pop takes a job out and is on its way to remove the key.
LEMMA PopJobKeeps == ASSUME QueueInv, NEW t \in Healers, NEW job, PopJob(t, job) PROVE QueueInv'
<1> DEFINE work == [Resting EXCEPT !.job = job]
<1>1. hpc[t] = "idle" /\ HGoto(t, "popped", work) /\ UNCHANGED inQueue
  BY DEF PopJob
<1>2. IsABag(heap)' /\ BagToSet(heap) \ {job} \subseteq BagToSet(heap')
  BY HeapChanges DEF PopJob, QueueInv, HeapIsBag
<1>3. work.job = job
  BY DEF Resting
<1> HIDE DEF work
<1>4. NoStuckShard'
  BY <1>1, <1>2, <1>3, OneTask DEF QueueInv, NoStuckShard
<1> QED
  BY <1>1, <1>2, <1>4, OneTask DEF QueueInv, HeapIsBag

\* It removes no other key.
LEMMA ForgetKeyKeeps == ASSUME QueueInv, NEW t \in Healers, ForgetKey(t) PROVE QueueInv'
<1>1. /\ hpc[t] = "popped" /\ HGoto(t, "repair", hloc[t]) /\ UNCHANGED heap
      /\ inQueue' = inQueue \ {hloc[t].job.shard}
  BY DEF ForgetKey
<1>2. NoStuckShard'
  BY <1>1, OneTask DEF QueueInv, NoStuckShard
<1> QED
  BY <1>1, <1>2, OneTask DEF QueueInv, HeapIsBag

\* clear empties the heap first; while it has not removed the keys it is on its way.
LEMMA ClearKeeps == ASSUME QueueInv, NEW t \in Healers, Clear(t) PROVE QueueInv'
<1>1. CASE hpc[t] = "idle"
  <2>1. HGoto(t, "clear", Resting) /\ UNCHANGED inQueue /\ IsABag(heap)'
    BY <1>1, HeapChanges DEF Clear, QueueInv, HeapIsBag
  <2>2. NoStuckShard'
    BY <2>1, OneTask DEF NoStuckShard
  <2> QED
    BY <2>1, <2>2, OneTask DEF QueueInv, HeapIsBag
<1>2. CASE hpc[t] = "clear"
  <2>1. HGoto(t, "idle", Resting) /\ inQueue' = {} /\ UNCHANGED heap
    BY <1>2 DEF Clear
  <2>2. NoStuckShard'
    BY <2>1 DEF NoStuckShard
  <2> QED
    BY <2>1, <2>2, OneTask DEF QueueInv, HeapIsBag
<1> QED
  BY <1>1, <1>2 DEF Clear

\* What the environment does concerns neither the queue nor the tasks.
LEMMA OutsideQueue == ASSUME QueueInv, UNCHANGED <<queueVars, hpc, hloc>> PROVE QueueInv'
BY DEF QueueInv, HeapIsBag, NoStuckShard, queueVars

\* Every step of the healer, the scrubber and their environment keeps the invariant.
LEMMA QueuePreserved == QueueInv /\ [HealerNext]_healerVars => QueueInv'
<1> SUFFICES ASSUME QueueInv, [HealerNext]_healerVars PROVE QueueInv'
  OBVIOUS
<1>1. ASSUME NEW t \in Healers, HealerStep(t) PROVE QueueInv'
  <2>1. CASE PushKey(t) \/ PushHeap(t) \/ ForgetKey(t) \/ Clear(t)
    BY <2>1, PushKeyKeeps, PushHeapKeeps, ForgetKeyKeeps, ClearKeeps
  <2>2. CASE ReadShards(t) \/ MarkHealthy(t) \/ WorkerStops(t)
    BY <2>2, QueueStays DEF ReadShards, MarkHealthy, WorkerStops
  <2>3. CASE Requeue(t)
    BY <2>3, QueueStays DEF Requeue
  <2>4. CASE Scan(t) \/ LightScrub(t) \/ DeepScrub(t)
    BY <2>4, QueueStaysOnReturn DEF Scan, LightScrub, DeepScrub
  <2>5. ASSUME NEW d \in Domains, WriteShard(t, d) PROVE QueueInv'
    BY <2>5, QueueStays DEF WriteShard
  <2>6. ASSUME NEW s \in Shards, QueueRepair(t, s) PROVE QueueInv'
    BY <2>6, QueueStays DEF QueueRepair
  <2>7. ASSUME NEW job, PopJob(t, job) PROVE QueueInv'
    BY <2>7, PopJobKeeps
  <2>8. ASSUME NEW s, ScanVisit(t, s) PROVE QueueInv'
    BY <2>8, QueueStays, QueueStaysOnReturn DEF ScanVisit
  <2>9. ASSUME NEW s, ScrubSkips(t, s) PROVE QueueInv'
    BY <2>9, QueueStaysOnReturn DEF ScrubSkips
  <2>10. ASSUME NEW s, ScrubFinds(t, s) PROVE QueueInv'
    BY <2>10, QueueStays, QueueStaysOnReturn DEF ScrubFinds, AskRepair
  <2> QED
    BY <1>1, <2>1, <2>2, <2>3, <2>4, <2>5, <2>6, <2>7, <2>8, <2>9, <2>10 DEF HealerStep
<1>2. ASSUME NEW s \in Shards,
             Damage(s) \/ LeavesQuarantine(s) \/ \E h \in Reports : UpdateShardHealth(s, h)
      PROVE  QueueInv'
  BY <1>2, OutsideQueue DEF Damage, LeavesQuarantine, UpdateShardHealth
<1>3. ASSUME NEW d \in Domains, GoesOffline(d) PROVE QueueInv'
  BY <1>3, OutsideQueue DEF GoesOffline
<1>4. CASE UNCHANGED healerVars
  BY <1>4, OutsideQueue DEF healerVars
<1> QED
  BY <1>1, <1>2, <1>3, <1>4 DEF HealerNext

\* Whatever workers, scans, scrubs, timeouts and clears do at the same time, a key
\* that counts as queued has a job, or a call that is about to add the job or to
\* remove the key: no shard is shut out of repair for good.
THEOREM QueueNeverSticks == HealerSpec => []NoStuckShard
<1>1. QueueInv => NoStuckShard
  BY DEF QueueInv
<1> QED
  BY <1>1, QueueInitial, QueuePreserved, PTL DEF HealerSpec

-----------------------------------------------------------------------------

(***************************************************************************)
(* The connection pool: types, and who has which connection.  A connection *)
(* is with one task, or listed as idle once, and never both.               *)
(***************************************************************************)
ConnLabels == {"idle", "pop", "take", "held", "total_permit", "edge_permit", "insert", "index",
               "close", "close_idle", "close_semaphore"}
Having == {"take", "index", "held"}
Calls == [edge : Edges, id : ConnIds \cup {0}, sem : Nat, ids : SUBSET ConnIds]

ConnMapTypes ==
  /\ nextConn \in Nat \ {0}
  /\ connections \in [ConnIds -> {"none", "in_use", "idle"}]
  /\ connEdge \in [ConnIds -> Edges]
  /\ edgeConnections \in [Edges -> SUBSET ConnIds]
  /\ idleIndex \in [Edges -> Seq(ConnIds)]
  /\ totalPermits \in Nat
  /\ edgePermits \in Seq(Nat)
  /\ edgeSemaphore \in [Edges -> Nat] /\ \A e \in Edges : edgeSemaphore[e] <= Len(edgePermits)

\* A task that waits for the permit of an edge has looked its semaphore up, and one
\* that has a connection knows which.
ConnTypes ==
  /\ ConnMapTypes
  /\ kpc \in [Tasks -> ConnLabels]
  /\ kloc \in [Tasks -> Calls]
  /\ \A t \in Tasks : kpc[t] = "edge_permit" => kloc[t].sem \in 1 .. Len(edgePermits)
  /\ \A t \in Tasks : kpc[t] \in Having => kloc[t].id # 0

\* The step of one task leaves the others where they are.
LEMMA OneCaller ==
  ASSUME ConnTypes, NEW t \in Tasks, NEW label \in ConnLabels, NEW call \in Calls, KGoto(t, label, call)
  PROVE  /\ kpc' \in [Tasks -> ConnLabels] /\ kloc' \in [Tasks -> Calls]
         /\ kpc'[t] = label /\ kloc'[t] = call
         /\ \A u \in Tasks : u # t => kpc'[u] = kpc[u] /\ kloc'[u] = kloc[u]
BY DEF ConnTypes, KGoto

\* The locals a call starts with.
LEMMA NoCallType == NoCall \in Calls /\ NoCall.id = 0 /\ AnEdge \in Edges
BY ConnectionAssumption DEF NoCall, Calls, AnEdge

\* A call that gets a connection knows its id, which is not the one of none.
LEMMA CallIds ==
  ASSUME ConnTypes, NEW t \in Tasks, NEW i \in ConnIds
  PROVE  i # 0 /\ [kloc[t] EXCEPT !.id = i].id = i
<1>1. kloc[t] \in Calls
  BY DEF ConnTypes
<1> QED
  BY <1>1 DEF Calls, ConnIds

\* The types hold at the start.
LEMMA ConnTypesInitial == ConnectionInit => ConnTypes
<1> SUFFICES ASSUME ConnectionInit PROVE ConnTypes
  OBVIOUS
<1>1. edgePermits \in Seq(Nat) /\ Len(edgePermits) = 0
  BY DEF ConnectionInit
<1>2. idleIndex \in [Edges -> Seq(ConnIds)]
  BY DEF ConnectionInit
<1> QED
  BY <1>1, <1>2, NoCallType, ConnectionAssumption DEF ConnectionInit, ConnTypes, ConnMapTypes, ConnLabels, Having

\* Where a step takes a task, and with which locals.
Moves(t) ==
  \E label \in ConnLabels, call \in Calls :
    /\ KGoto(t, label, call)
    /\ label = "edge_permit" => call.sem \in 1 .. Len(edgePermits')
    /\ label \in Having => call.id # 0
    /\ Len(edgePermits) <= Len(edgePermits')

\* What the task and the rest of the state have to satisfy.
LEMMA ConnTypesStep ==
  ASSUME ConnTypes, NEW t \in Tasks, Moves(t), ConnMapTypes'
  PROVE  ConnTypes'
<1>1. PICK label \in ConnLabels, call \in Calls :
        /\ KGoto(t, label, call)
        /\ label = "edge_permit" => call.sem \in 1 .. Len(edgePermits')
        /\ label \in Having => call.id # 0
        /\ Len(edgePermits) <= Len(edgePermits')
  BY DEF Moves
<1>2. /\ kpc' \in [Tasks -> ConnLabels] /\ kloc' \in [Tasks -> Calls]
      /\ kpc'[t] = label /\ kloc'[t] = call
      /\ \A u \in Tasks : u # t => kpc'[u] = kpc[u] /\ kloc'[u] = kloc[u]
  BY <1>1, OneCaller
<1>3. \A u \in Tasks : kpc[u] = "edge_permit" => kloc[u].sem \in 1 .. Len(edgePermits)
  BY DEF ConnTypes
<1>4. Len(edgePermits) \in Nat /\ Len(edgePermits') \in Nat
  BY LenProperties DEF ConnTypes, ConnMapTypes
<1>5. ASSUME NEW u \in Tasks, kpc'[u] = "edge_permit" PROVE kloc'[u].sem \in 1 .. Len(edgePermits')
  <2>1. CASE u = t
    BY <1>1, <1>2, <1>5, <2>1
  <2>2. CASE u # t
    <3>1. kloc'[u] = kloc[u] /\ kloc[u].sem \in 1 .. Len(edgePermits)
      BY <1>2, <1>3, <1>5, <2>2
    <3>2. Len(edgePermits) <= Len(edgePermits')
      BY <1>1
    <3>3. 1 .. Len(edgePermits) \subseteq 1 .. Len(edgePermits')
      BY <3>2, <1>4
    <3> QED
      BY <3>1, <3>3
  <2> QED
    BY <2>1, <2>2
<1>6. \A u \in Tasks : kpc'[u] \in Having => kloc'[u].id # 0
  BY <1>1, <1>2 DEF ConnTypes
<1> QED
  BY <1>2, <1>5, <1>6 DEF ConnTypes

\* A task that stays clear of the permit of an edge.
LEMMA PlainMove ==
  ASSUME ConnTypes, NEW t \in Tasks, NEW label \in ConnLabels \ {"edge_permit"}, NEW call \in Calls,
         KGoto(t, label, call), label \in Having => call.id # 0, Len(edgePermits) <= Len(edgePermits')
  PROVE  Moves(t)
BY DEF Moves

\* The locals that a call gets on its way are of their type.
LEMMA CallTypes ==
  ASSUME ConnTypes, NEW t \in Tasks
  PROVE  /\ kloc[t] \in Calls /\ kloc[t].edge \in Edges
         /\ \A e \in Edges : [NoCall EXCEPT !.edge = e] \in Calls
         /\ \A e \in Edges, ids \in SUBSET ConnIds : [NoCall EXCEPT !.edge = e, !.ids = ids] \in Calls
         /\ \A i \in ConnIds : [kloc[t] EXCEPT !.id = i] \in Calls
         /\ \A s \in Nat : [kloc[t] EXCEPT !.sem = s] \in Calls
         /\ \A i \in ConnIds : [kloc[t] EXCEPT !.ids = @ \ {i}] \in Calls
<1>1. kloc[t] \in Calls
  BY DEF ConnTypes
<1> QED
  BY <1>1, NoCallType DEF Calls

\* A call that touches neither the maps nor the permits.
LEMMA ConnTypesMove ==
  ASSUME ConnTypes, NEW t \in Tasks, NEW label \in ConnLabels \ {"edge_permit"}, NEW call \in Calls,
         KGoto(t, label, call), label \in Having => call.id # 0,
         ConnMapTypes', edgePermits' = edgePermits
  PROVE  ConnTypes'
<1>1. Len(edgePermits) <= Len(edgePermits')
  BY LenProperties DEF ConnTypes, ConnMapTypes
<1> QED
  BY <1>1, PlainMove, ConnTypesStep

\* The steps of acquire.
LEMMA AcquireTypes ==
  ASSUME ConnTypes, NEW t \in Tasks
  PROVE  /\ \A e \in Edges : Acquire(t, e) => ConnTypes'
         /\ PopIdle(t) => ConnTypes'
         /\ TakeIdle(t) => ConnTypes'
         /\ NoIdle(t) => ConnTypes'
<1>0. ConnMapTypes
  BY DEF ConnTypes
<1>l. {"pop", "take", "held", "total_permit"} \subseteq ConnLabels \ {"edge_permit"} /\ "pop" \notin Having /\ "total_permit" \notin Having
  BY DEF ConnLabels, Having
<1>1. ASSUME NEW e \in Edges, Acquire(t, e) PROVE ConnTypes'
  <2>1. KGoto(t, "pop", [NoCall EXCEPT !.edge = e]) /\ UNCHANGED <<connMaps, permitVars>>
    BY <1>1 DEF Acquire
  <2>2. ConnMapTypes' /\ edgePermits' = edgePermits
    BY <1>0, <2>1 DEF ConnMapTypes, connMaps, permitVars
  <2>3. [NoCall EXCEPT !.edge = e] \in Calls
    BY CallTypes
  <2> QED
    BY <1>l, <2>1, <2>2, <2>3, ConnTypesMove
<1>2. ASSUME PopIdle(t) PROVE ConnTypes'
  <2> DEFINE e == kloc[t].edge
  <2>1. /\ idleIndex[e] # <<>> /\ KGoto(t, "take", [kloc[t] EXCEPT !.id = idleIndex[e][Len(idleIndex[e])]])
        /\ idleIndex' = [idleIndex EXCEPT ![e] = SubSeq(idleIndex[e], 1, Len(idleIndex[e]) - 1)]
        /\ UNCHANGED <<nextConn, connections, connEdge, edgeConnections, permitVars>>
    BY <1>2 DEF PopIdle
  <2>2. e \in Edges /\ idleIndex[e] \in Seq(ConnIds)
    BY <1>0, CallTypes DEF ConnMapTypes
  <2>3. idleIndex[e][Len(idleIndex[e])] \in ConnIds /\ SubSeq(idleIndex[e], 1, Len(idleIndex[e]) - 1) \in Seq(ConnIds)
    BY <2>1, <2>2
  <2> HIDE DEF e
  <2>4. idleIndex' \in [Edges -> Seq(ConnIds)]
    BY <1>0, <2>1, <2>2, <2>3 DEF ConnMapTypes
  <2>5. ConnMapTypes' /\ edgePermits' = edgePermits
    BY <1>0, <2>1, <2>4 DEF ConnMapTypes, permitVars
  <2>6. LET call == [kloc[t] EXCEPT !.id = idleIndex[e][Len(idleIndex[e])]] IN call \in Calls /\ call.id # 0
    BY <2>3, CallTypes, CallIds
  <2> QED
    BY <1>l, <2>1, <2>5, <2>6, ConnTypesMove
<1>3. ASSUME TakeIdle(t) PROVE ConnTypes'
  <2>1. PICK label \in {"held", "pop"} :
          /\ KGoto(t, label, kloc[t]) /\ kpc[t] = "take" /\ kloc[t].id # 0
          /\ connections' \in {connections, [connections EXCEPT ![kloc[t].id] = "in_use"]}
          /\ UNCHANGED <<nextConn, connEdge, edgeConnections, idleIndex, permitVars>>
    BY <1>3 DEF TakeIdle, ConnTypes, Having
  <2>2. connections' \in [ConnIds -> {"none", "in_use", "idle"}]
    BY <1>0, <2>1 DEF ConnMapTypes
  <2>3. ConnMapTypes' /\ edgePermits' = edgePermits
    BY <1>0, <2>1, <2>2 DEF ConnMapTypes, permitVars
  <2> QED
    BY <1>l, <2>1, <2>3, CallTypes, ConnTypesMove
<1>4. ASSUME NoIdle(t) PROVE ConnTypes'
  <2>1. KGoto(t, "total_permit", kloc[t]) /\ UNCHANGED <<connMaps, permitVars>>
    BY <1>4 DEF NoIdle
  <2>2. ConnMapTypes' /\ edgePermits' = edgePermits
    BY <1>0, <2>1 DEF ConnMapTypes, connMaps, permitVars
  <2> QED
    BY <1>l, <2>1, <2>2, CallTypes, ConnTypesMove
<1> QED
  BY <1>1, <1>2, <1>3, <1>4

\* The permits of an acquire that found no idle connection.
LEMMA PermitTypes ==
  ASSUME ConnTypes, NEW t \in Tasks
  PROVE  /\ TotalPermit(t) => ConnTypes'
         /\ EdgePermit(t) => ConnTypes'
         /\ TimeOut(t) => ConnTypes'
<1>0. ConnMapTypes /\ kloc[t] \in Calls /\ kloc[t].edge \in Edges /\ edgePermits \in Seq(Nat) /\ Len(edgePermits) \in Nat
  BY CallTypes, LenProperties DEF ConnTypes, ConnMapTypes
<1>l. /\ {"insert", "idle"} \subseteq ConnLabels \ {"edge_permit"} /\ "edge_permit" \in ConnLabels
      /\ "insert" \notin Having /\ "idle" \notin Having /\ "edge_permit" \notin Having
  BY DEF ConnLabels, Having
<1>1. ASSUME TotalPermit(t) PROVE ConnTypes'
  <2> DEFINE e == kloc[t].edge
             new == Len(edgePermits) + 1
  <2>0. totalPermits > 0 /\ totalPermits' = totalPermits - 1 /\ UNCHANGED connMaps
    BY <1>1 DEF TotalPermit
  <2>1. totalPermits' \in Nat
    BY <1>0, <2>0 DEF ConnMapTypes
  <2>2. CASE edgeSemaphore[e] = 0
    <3>1. /\ edgeSemaphore' = [edgeSemaphore EXCEPT ![e] = new]
          /\ edgePermits' = Append(edgePermits, MaxPerEdge)
          /\ KGoto(t, "edge_permit", [kloc[t] EXCEPT !.sem = new])
      BY <1>1, <2>2 DEF TotalPermit
    <3>2. edgePermits' \in Seq(Nat) /\ Len(edgePermits') = new /\ new \in Nat
      BY <1>0, <3>1, ConnectionAssumption
    <3>3. Len(edgePermits) <= new /\ new \in 1 .. new
      BY <1>0
    <3>4. [kloc[t] EXCEPT !.sem = new] \in Calls /\ [kloc[t] EXCEPT !.sem = new].sem = new
      BY <1>0, <3>2, CallTypes DEF Calls
    <3>e. e \in Edges
      BY <1>0
    <3> HIDE DEF new, e
    <3>5. edgeSemaphore' \in [Edges -> Nat] /\ \A f \in Edges : edgeSemaphore'[f] <= new
      <4>1. edgeSemaphore \in [Edges -> Nat] /\ \A f \in Edges : edgeSemaphore[f] <= Len(edgePermits)
        BY <1>0 DEF ConnMapTypes
      <4>2. edgeSemaphore' \in [Edges -> Nat]
        BY <3>1, <3>2, <4>1
      <4>3. ASSUME NEW f \in Edges PROVE edgeSemaphore'[f] <= new
        BY <1>0, <3>1, <3>2, <3>3, <3>e, <4>1
      <4> QED
        BY <4>2, <4>3
    <3>6. ConnMapTypes'
      BY <1>0, <2>0, <2>1, <3>2, <3>5 DEF ConnMapTypes, connMaps
    <3>7. Moves(t)
      BY <1>l, <3>1, <3>2, <3>3, <3>4 DEF Moves
    <3> QED
      BY <3>6, <3>7, ConnTypesStep
  <2>3. CASE edgeSemaphore[e] # 0
    <3>1. KGoto(t, "edge_permit", [kloc[t] EXCEPT !.sem = edgeSemaphore[e]]) /\ UNCHANGED <<edgeSemaphore, edgePermits>>
      BY <1>1, <2>3 DEF TotalPermit
    <3>2. edgeSemaphore[e] \in 1 .. Len(edgePermits) /\ edgeSemaphore[e] \in Nat
      BY <1>0, <2>3 DEF ConnMapTypes
    <3>3. [kloc[t] EXCEPT !.sem = edgeSemaphore[e]] \in Calls /\ [kloc[t] EXCEPT !.sem = edgeSemaphore[e]].sem = edgeSemaphore[e]
      BY <1>0, <3>2, CallTypes DEF Calls
    <3> HIDE DEF e
    <3>4. ConnMapTypes'
      BY <1>0, <2>0, <2>1, <3>1 DEF ConnMapTypes, connMaps
    <3>5. Len(edgePermits) <= Len(edgePermits') /\ edgeSemaphore[e] \in 1 .. Len(edgePermits')
      BY <1>0, <3>1, <3>2
    <3>6. Moves(t)
      BY <1>l, <3>1, <3>3, <3>5 DEF Moves
    <3> QED
      BY <3>4, <3>6, ConnTypesStep
  <2> QED
    BY <2>2, <2>3
<1>2. ASSUME EdgePermit(t) PROVE ConnTypes'
  <2> DEFINE s == kloc[t].sem
  <2>1. /\ kpc[t] = "edge_permit" /\ edgePermits[s] > 0 /\ edgePermits' = [edgePermits EXCEPT ![s] = edgePermits[s] - 1]
        /\ KGoto(t, "insert", kloc[t]) /\ UNCHANGED <<connMaps, totalPermits, edgeSemaphore>>
    BY <1>2 DEF EdgePermit
  <2>2. s \in 1 .. Len(edgePermits)
    BY <2>1 DEF ConnTypes
  <2> HIDE DEF s
  <2>3. edgePermits' \in Seq(Nat) /\ Len(edgePermits') = Len(edgePermits)
    BY <1>0, <2>1, <2>2
  <2>4. ConnMapTypes'
    BY <1>0, <2>1, <2>3 DEF ConnMapTypes, connMaps
  <2> QED
    BY <1>0, <1>l, <2>1, <2>3, <2>4, PlainMove, ConnTypesStep
<1>3. ASSUME TimeOut(t) PROVE ConnTypes'
  <2>1. /\ totalPermits' \in {totalPermits, totalPermits + 1} /\ KGoto(t, "idle", NoCall)
        /\ UNCHANGED <<connMaps, edgeSemaphore, edgePermits>>
    BY <1>3 DEF TimeOut
  <2>2. ConnMapTypes'
    BY <1>0, <2>1 DEF ConnMapTypes, connMaps
  <2> QED
    BY <1>l, <2>1, <2>2, NoCallType, ConnTypesMove
<1> QED
  BY <1>1, <1>2, <1>3

\* The connection that an acquire makes, and its return.
LEMMA MadeTypes ==
  ASSUME ConnTypes, NEW t \in Tasks
  PROVE  /\ InsertConnection(t) => ConnTypes'
         /\ IndexConnection(t) => ConnTypes'
         /\ ReleaseConnection(t) => ConnTypes'
<1>0. ConnMapTypes /\ kloc[t] \in Calls /\ kloc[t].edge \in Edges
  BY CallTypes DEF ConnTypes
<1>l. /\ {"index", "held", "idle"} \subseteq ConnLabels \ {"edge_permit"} /\ "idle" \notin Having
      /\ (kpc[t] \in Having => kloc[t].id \in ConnIds /\ kloc[t].id # 0) /\ "index" \in Having /\ "held" \in Having
  BY <1>0 DEF ConnLabels, Having, Calls, ConnTypes
<1>1. ASSUME InsertConnection(t) PROVE ConnTypes'
  <2>1. /\ nextConn \in ConnIds /\ nextConn' = nextConn + 1
        /\ connections' = [connections EXCEPT ![nextConn] = "in_use"]
        /\ connEdge' = [connEdge EXCEPT ![nextConn] = kloc[t].edge]
        /\ KGoto(t, "index", [kloc[t] EXCEPT !.id = nextConn])
        /\ UNCHANGED <<edgeConnections, idleIndex, permitVars>>
    BY <1>1 DEF InsertConnection
  <2>2. nextConn' \in Nat \ {0}
    BY <1>0, <2>1 DEF ConnMapTypes
  <2>3. ConnMapTypes' /\ edgePermits' = edgePermits
    BY <1>0, <2>1, <2>2 DEF ConnMapTypes, permitVars
  <2>4. LET call == [kloc[t] EXCEPT !.id = nextConn] IN call \in Calls /\ call.id # 0
    BY <2>1, CallTypes, CallIds
  <2> QED
    BY <1>l, <2>1, <2>3, <2>4, ConnTypesMove
<1>2. ASSUME IndexConnection(t) PROVE ConnTypes'
  <2>0. kloc[t].id \in ConnIds /\ kloc[t].id # 0
    BY <1>2, <1>l DEF IndexConnection
  <2>1. /\ edgeConnections' = [edgeConnections EXCEPT ![kloc[t].edge] = edgeConnections[kloc[t].edge] \cup {kloc[t].id}]
        /\ KGoto(t, "held", kloc[t])
        /\ UNCHANGED <<nextConn, connections, connEdge, idleIndex, permitVars>>
    BY <1>2 DEF IndexConnection
  <2>2. ConnMapTypes' /\ edgePermits' = edgePermits
    BY <1>0, <2>0, <2>1 DEF ConnMapTypes, permitVars
  <2> QED
    BY <1>0, <1>l, <2>0, <2>1, <2>2, ConnTypesMove
<1>3. ASSUME ReleaseConnection(t) PROVE ConnTypes'
  <2> DEFINE i == kloc[t].id
             e == connEdge[i]
  <2>1. /\ KGoto(t, "idle", NoCall) /\ UNCHANGED <<nextConn, connEdge, edgeConnections, permitVars>>
        /\ \/ /\ connections' = [connections EXCEPT ![i] = "idle"]
              /\ idleIndex' = [idleIndex EXCEPT ![e] = Append(idleIndex[e], i)]
           \/ UNCHANGED <<connections, idleIndex>>
    BY <1>3 DEF ReleaseConnection
  <2>2. i \in ConnIds /\ e \in Edges /\ idleIndex[e] \in Seq(ConnIds)
    BY <1>0, <1>3, <1>l DEF ConnMapTypes, ReleaseConnection
  <2> HIDE DEF e, i
  <2>3. Append(idleIndex[e], i) \in Seq(ConnIds)
    BY <2>2
  <2>4. connections' \in [ConnIds -> {"none", "in_use", "idle"}] /\ idleIndex' \in [Edges -> Seq(ConnIds)]
    BY <1>0, <2>1, <2>2, <2>3 DEF ConnMapTypes
  <2>5. ConnMapTypes' /\ edgePermits' = edgePermits
    BY <1>0, <2>1, <2>4 DEF ConnMapTypes, permitVars
  <2> QED
    BY <1>l, <2>1, <2>5, NoCallType, ConnTypesMove
<1> QED
  BY <1>1, <1>2, <1>3

\* The steps of close_edge.
LEMMA CloseTypes ==
  ASSUME ConnTypes, NEW t \in Tasks
  PROVE  /\ \A e \in Edges : CloseEdge(t, e) => ConnTypes'
         /\ CloseConnection(t) => ConnTypes'
         /\ CloseIdle(t) => ConnTypes'
         /\ CloseSemaphore(t) => ConnTypes'
<1>0. ConnMapTypes /\ kloc[t] \in Calls /\ kloc[t].edge \in Edges
  BY CallTypes DEF ConnTypes
<1>l. /\ {"close", "close_idle", "close_semaphore", "idle"} \subseteq ConnLabels \ {"edge_permit"}
      /\ {"close", "close_idle", "close_semaphore", "idle"} \cap Having = {}
  BY DEF ConnLabels, Having
<1>1. ASSUME NEW e \in Edges, CloseEdge(t, e) PROVE ConnTypes'
  <2>1. /\ edgeConnections' = [edgeConnections EXCEPT ![e] = {}]
        /\ KGoto(t, "close", [NoCall EXCEPT !.edge = e, !.ids = edgeConnections[e]])
        /\ UNCHANGED <<nextConn, connections, connEdge, idleIndex, permitVars>>
    BY <1>1 DEF CloseEdge
  <2>2. ConnMapTypes' /\ edgePermits' = edgePermits
    BY <1>0, <2>1 DEF ConnMapTypes, permitVars
  <2>3. edgeConnections[e] \in SUBSET ConnIds
    BY <1>0 DEF ConnMapTypes
  <2>4. [NoCall EXCEPT !.edge = e, !.ids = edgeConnections[e]] \in Calls
    BY <2>3, CallTypes
  <2> QED
    BY <1>l, <2>1, <2>2, <2>4, ConnTypesMove
<1>2. ASSUME CloseConnection(t) PROVE ConnTypes'
  <2>1. PICK label \in {"close", "close_idle"}, call \in Calls :
          /\ KGoto(t, label, call)
          /\ connections' = connections \/ \E i \in ConnIds : connections' = [connections EXCEPT ![i] = "none"]
          /\ UNCHANGED <<nextConn, connEdge, edgeConnections, idleIndex, permitVars>>
    <3>1. CASE \E i \in kloc[t].ids :
                 /\ connections' = [connections EXCEPT ![i] = "none"]
                 /\ KGoto(t, "close", [kloc[t] EXCEPT !.ids = @ \ {i}])
      <4>1. PICK i \in kloc[t].ids :
                 /\ connections' = [connections EXCEPT ![i] = "none"]
                 /\ KGoto(t, "close", [kloc[t] EXCEPT !.ids = @ \ {i}])
        BY <3>1
      <4>2. i \in ConnIds
        BY <1>0, <4>1 DEF Calls
      <4>3. [kloc[t] EXCEPT !.ids = @ \ {i}] \in Calls
        BY <4>2, CallTypes
      <4> QED
        BY <1>2, <4>1, <4>2, <4>3 DEF CloseConnection
    <3> QED
      BY <1>0, <1>2, <3>1 DEF CloseConnection
  <2>2. ConnMapTypes' /\ edgePermits' = edgePermits
    BY <1>0, <2>1 DEF ConnMapTypes, permitVars
  <2> QED
    BY <1>l, <2>1, <2>2, ConnTypesMove
<1>3. ASSUME CloseIdle(t) PROVE ConnTypes'
  <2>1. /\ idleIndex' = [idleIndex EXCEPT ![kloc[t].edge] = <<>>] /\ KGoto(t, "close_semaphore", kloc[t])
        /\ UNCHANGED <<nextConn, connections, connEdge, edgeConnections, permitVars>>
    BY <1>3 DEF CloseIdle
  <2>2. ConnMapTypes' /\ edgePermits' = edgePermits
    BY <1>0, <2>1 DEF ConnMapTypes, permitVars
  <2> QED
    BY <1>0, <1>l, <2>1, <2>2, ConnTypesMove
<1>4. ASSUME CloseSemaphore(t) PROVE ConnTypes'
  <2>1. /\ edgeSemaphore' = [edgeSemaphore EXCEPT ![kloc[t].edge] = 0] /\ KGoto(t, "idle", NoCall)
        /\ UNCHANGED <<connMaps, totalPermits, edgePermits>>
    BY <1>4 DEF CloseSemaphore
  <2>2. Len(edgePermits) \in Nat
    BY <1>0, LenProperties DEF ConnMapTypes
  <2>3. ConnMapTypes'
    BY <1>0, <2>1, <2>2 DEF ConnMapTypes, connMaps
  <2> QED
    BY <1>l, <2>1, <2>3, NoCallType, ConnTypesMove
<1> QED
  BY <1>1, <1>2, <1>3, <1>4

\* Every step keeps the types.
LEMMA ConnTypesPreserved == ASSUME ConnTypes, [ConnectionNext]_connVars PROVE ConnTypes'
<1>1. CASE UNCHANGED connVars
  BY <1>1 DEF connVars, ConnTypes, ConnMapTypes
<1>2. ASSUME NEW t \in Tasks, PoolStep(t) \/ TimeOut(t) \/ ReleaseConnection(t) \/ \E e \in Edges : Acquire(t, e) \/ CloseEdge(t, e)
      PROVE  ConnTypes'
  BY <1>2, AcquireTypes, PermitTypes, MadeTypes, CloseTypes DEF PoolStep
<1> QED
  BY <1>1, <1>2 DEF ConnectionNext

-----------------------------------------------------------------------------

\* Connections that have been made.
Made == 1 .. nextConn - 1

\* The connection a task is about to take is idle or closed.
Lent ==
  /\ \A t \in Tasks : kpc[t] \in Having => kloc[t].id \in Made
  /\ \A t \in Tasks : kpc[t] = "take" => connections[kloc[t].id] # "in_use"
  /\ \A t, u \in Tasks : (t # u /\ kpc[t] \in Having /\ kpc[u] \in Having) => kloc[t].id # kloc[u].id

\* What the index lists for an edge is a connection of this edge that nobody has.
Listed(e, index) ==
  /\ \A k \in 1 .. Len(index) :
       /\ index[k] \in Made /\ connections[index[k]] # "in_use" /\ connEdge[index[k]] = e
       /\ \A t \in Tasks : kpc[t] \in Having => kloc[t].id # index[k]
  /\ \A k, l \in 1 .. Len(index) : k # l => index[k] # index[l]

BorrowInv == ConnTypes /\ Lent /\ \A e \in Edges : Listed(e, idleIndex[e])

\* Nothing is lent or listed at the start.
LEMMA BorrowInitial == ConnectionInit => BorrowInv
<1> SUFFICES ASSUME ConnectionInit PROVE BorrowInv
  OBVIOUS
<1>1. \A e \in Edges : Len(idleIndex[e]) = 0
  BY DEF ConnectionInit
<1>2. \A e \in Edges : Listed(e, idleIndex[e])
  BY <1>1 DEF Listed
<1>3. Lent
  BY DEF ConnectionInit, Lent, Having
<1> QED
  BY <1>2, <1>3, ConnTypesInitial DEF BorrowInv

\* A task that has no connection after its step, while connections are closed at
\* most and index entries dropped at most.
LEMMA HoldsNone ==
  ASSUME BorrowInv, ConnTypes', NEW t \in Tasks, kpc'[t] \notin Having,
         \A u \in Tasks : u # t => kpc'[u] = kpc[u] /\ kloc'[u] = kloc[u],
         UNCHANGED <<nextConn, connEdge>>,
         \A i \in ConnIds : connections'[i] \in {connections[i], "none"},
         \A e \in Edges : idleIndex'[e] \in {idleIndex[e], <<>>}
  PROVE  BorrowInv'
<1>0. /\ \A u \in Tasks : kpc[u] \in Having => kloc[u].id \in ConnIds
      /\ \A e \in Edges : idleIndex[e] \in Seq(ConnIds)
  BY DEF BorrowInv, ConnTypes, ConnMapTypes, Calls
<1>1. Lent'
  BY <1>0 DEF BorrowInv, Lent, Made, Having
<1>2. ASSUME NEW e \in Edges PROVE Listed(e, idleIndex[e])'
  <2>1. CASE idleIndex'[e] = <<>>
    BY <2>1 DEF Listed
  <2>2. CASE idleIndex'[e] = idleIndex[e]
    <3>1. \A k \in 1 .. Len(idleIndex[e]) : idleIndex[e][k] \in ConnIds
      BY <1>0, ElementOfSeq
    <3>2. Listed(e, idleIndex[e])
      BY DEF BorrowInv
    <3>3. \A u \in Tasks : kpc'[u] \in Having => kpc[u] \in Having /\ kloc'[u] = kloc[u]
      OBVIOUS
    <3>4. ASSUME NEW k \in 1 .. Len(idleIndex[e])
          PROVE  /\ idleIndex[e][k] \in Made' /\ connections'[idleIndex[e][k]] # "in_use"
                 /\ connEdge'[idleIndex[e][k]] = e
                 /\ \A u \in Tasks : kpc'[u] \in Having => kloc'[u].id # idleIndex[e][k]
      <4> DEFINE c == idleIndex[e][k]
      <4>1. /\ c \in ConnIds /\ c \in Made /\ connections[c] # "in_use" /\ connEdge[c] = e
            /\ \A u \in Tasks : kpc[u] \in Having => kloc[u].id # c
        BY <3>1, <3>2 DEF Listed
      <4> HIDE DEF c
      <4>2. c \in Made' /\ connections'[c] # "in_use" /\ connEdge'[c] = e
        BY <4>1 DEF Made
      <4>3. \A u \in Tasks : kpc'[u] \in Having => kloc'[u].id # c
        BY <3>3, <4>1
      <4> QED
        BY <4>2, <4>3 DEF c
    <3>5. \A k, l \in 1 .. Len(idleIndex[e]) : k # l => idleIndex[e][k] # idleIndex[e][l]
      BY <3>2 DEF Listed
    <3> QED
      BY <2>2, <3>4, <3>5 DEF Listed
  <2> QED
    BY <2>1, <2>2
<1> QED
  BY <1>1, <1>2 DEF BorrowInv

\* The steps after which a task has no connection.
LEMMA StepsWithout ==
  ASSUME BorrowInv, ConnTypes', NEW t \in Tasks,
         \/ NoIdle(t) \/ TotalPermit(t) \/ EdgePermit(t) \/ TimeOut(t)
         \/ CloseConnection(t) \/ CloseIdle(t) \/ CloseSemaphore(t)
         \/ \E e \in Edges : Acquire(t, e) \/ CloseEdge(t, e)
  PROVE  BorrowInv'
<1>0. ConnTypes /\ ConnMapTypes
  BY DEF BorrowInv, ConnTypes
<1>1. PICK label, call : KGoto(t, label, call) /\ label \notin Having
  <2>1. CASE NoIdle(t) \/ EdgePermit(t) \/ TimeOut(t) \/ CloseIdle(t) \/ CloseSemaphore(t)
    BY <2>1 DEF NoIdle, EdgePermit, TimeOut, CloseIdle, CloseSemaphore, Having
  <2>2. CASE TotalPermit(t)
    BY <2>2 DEF TotalPermit, Having
  <2>h. "pop" \notin Having /\ "close" \notin Having /\ "close_idle" \notin Having
    BY DEF Having
  <2>3. CASE CloseConnection(t)
    BY <2>3, <2>h, Zenon DEF CloseConnection
  <2>4. CASE \E e \in Edges : Acquire(t, e) \/ CloseEdge(t, e)
    BY <2>4, <2>h, Zenon DEF Acquire, CloseEdge
  <2> QED
    BY <2>1, <2>2, <2>3, <2>4
<1>2. UNCHANGED <<nextConn, connEdge>>
  BY DEF NoIdle, TotalPermit, EdgePermit, TimeOut, CloseConnection, CloseIdle, CloseSemaphore, Acquire, CloseEdge, connMaps
<1>3. kpc'[t] \notin Having /\ \A u \in Tasks : u # t => kpc'[u] = kpc[u] /\ kloc'[u] = kloc[u]
  BY <1>0, <1>1 DEF ConnTypes, KGoto
<1>4. connections' = connections \/ CloseConnection(t)
  BY DEF NoIdle, TotalPermit, EdgePermit, TimeOut, CloseIdle, CloseSemaphore, Acquire, CloseEdge, connMaps
<1>5. \A i \in ConnIds : connections'[i] \in {connections[i], "none"}
  BY <1>0, <1>4 DEF CloseConnection, ConnMapTypes
<1>6. idleIndex' = idleIndex \/ CloseIdle(t)
  BY DEF NoIdle, TotalPermit, EdgePermit, TimeOut, CloseConnection, CloseSemaphore, Acquire, CloseEdge, connMaps
<1>7. \A e \in Edges : idleIndex'[e] \in {idleIndex[e], <<>>}
  BY <1>0, <1>6 DEF CloseIdle, ConnMapTypes
<1> QED
  BY <1>2, <1>3, <1>5, <1>7, HoldsNone

\* The last entry of an index goes to the task that pops it.
LEMMA PopKeeps == ASSUME BorrowInv, ConnTypes', NEW t \in Tasks, PopIdle(t) PROVE BorrowInv'
<1> DEFINE e == kloc[t].edge
           n == Len(idleIndex[e])
           call == [kloc[t] EXCEPT !.id = idleIndex[e][n]]
<1>0. ConnTypes /\ ConnMapTypes /\ e \in Edges /\ idleIndex[e] \in Seq(ConnIds)
  BY CallTypes DEF BorrowInv, ConnTypes, ConnMapTypes
<1>1. /\ kpc[t] = "pop" /\ idleIndex[e] # <<>> /\ KGoto(t, "take", call)
      /\ idleIndex' = [idleIndex EXCEPT ![e] = SubSeq(idleIndex[e], 1, n - 1)]
      /\ UNCHANGED <<nextConn, connections, connEdge>>
  BY DEF PopIdle
<1>2. /\ n \in Nat /\ n \in 1 .. Len(idleIndex[e]) /\ idleIndex[e][n] \in ConnIds
      /\ Len(SubSeq(idleIndex[e], 1, n - 1)) = n - 1
      /\ \A k \in 1 .. n - 1 : SubSeq(idleIndex[e], 1, n - 1)[k] = idleIndex[e][k]
  BY <1>0, <1>1
<1>3. call.id = idleIndex[e][n] /\ call \in Calls
  BY <1>0, <1>2, CallIds, CallTypes
<1>4. kpc[t] \notin Having /\ "take" \in Having /\ "take" \in ConnLabels
  BY <1>1 DEF Having, ConnLabels
<1> HIDE DEF e, n, call
<1>5. /\ kpc'[t] = "take" /\ kloc'[t] = call
      /\ \A u \in Tasks : u # t => kpc'[u] = kpc[u] /\ kloc'[u] = kloc[u]
  BY <1>0, <1>1, <1>3, <1>4, OneCaller
<1>6. Lent'
  <2>1. Lent /\ Listed(e, idleIndex[e])
    BY <1>0 DEF BorrowInv
  <2>2. /\ call.id \in Made /\ connections[call.id] # "in_use"
        /\ \A u \in Tasks : kpc[u] \in Having => kloc[u].id # call.id
    BY <1>2, <1>3, <2>1 DEF Listed
  <2> QED
    BY <1>1, <1>4, <1>5, <2>1, <2>2 DEF Lent, Made
<1>7. ASSUME NEW f \in Edges PROVE Listed(f, idleIndex[f])'
  <2>0. Made' = Made /\ \A u \in Tasks : kpc'[u] \in Having => kpc[u] \in Having \/ kloc'[u].id = call.id
    BY <1>1, <1>5 DEF Made
  <2>1. Listed(f, idleIndex[f]) /\ Listed(e, idleIndex[e])
    BY <1>0 DEF BorrowInv
  <2>2. CASE f = e
    <3>1. idleIndex'[f] = SubSeq(idleIndex[e], 1, n - 1)
      BY <1>0, <1>1, <2>2 DEF ConnMapTypes
    <3>2. /\ \A k \in 1 .. n - 1 : k \in 1 .. Len(idleIndex[e]) /\ idleIndex[e][k] # call.id
          /\ \A k \in 1 .. n - 1 : idleIndex'[f][k] = idleIndex[e][k]
          /\ Len(idleIndex'[f]) = n - 1
      BY <1>2, <1>3, <2>1, <3>1 DEF Listed, n
    <3>3. ASSUME NEW k \in 1 .. n - 1
          PROVE  /\ idleIndex'[f][k] \in Made' /\ connections'[idleIndex'[f][k]] # "in_use"
                 /\ connEdge'[idleIndex'[f][k]] = f
                 /\ \A u \in Tasks : kpc'[u] \in Having => kloc'[u].id # idleIndex'[f][k]
      <4>1. k \in 1 .. Len(idleIndex[e]) /\ idleIndex[e][k] # call.id /\ idleIndex'[f][k] = idleIndex[e][k]
        BY <3>2
      <4>2. /\ idleIndex[e][k] \in Made /\ connections[idleIndex[e][k]] # "in_use" /\ connEdge[idleIndex[e][k]] = e
            /\ \A u \in Tasks : kpc[u] \in Having => kloc[u].id # idleIndex[e][k]
        BY <2>1, <4>1 DEF Listed
      <4> QED
        <5>1. \A u \in Tasks : kpc'[u] \in Having => kloc'[u].id # idleIndex[e][k]
          BY <1>5, <4>1, <4>2
        <5>2. connections' = connections /\ connEdge' = connEdge /\ Made' = Made
          BY <1>1, <2>0
        <5> QED
          BY <2>2, <4>1, <4>2, <5>1, <5>2
    <3>4. \A k, l \in 1 .. n - 1 : k # l => idleIndex'[f][k] # idleIndex'[f][l]
      BY <2>1, <3>2 DEF Listed
    <3> QED
      BY <3>2, <3>3, <3>4 DEF Listed
  <2>3. CASE f # e
    <3>1. idleIndex'[f] = idleIndex[f]
      BY <1>0, <1>1, <2>3 DEF ConnMapTypes
    <3>2. \A k \in 1 .. Len(idleIndex[f]) : idleIndex[f][k] # call.id
      BY <1>2, <1>3, <2>1, <2>3 DEF Listed
    <3>3. ASSUME NEW k \in 1 .. Len(idleIndex[f])
          PROVE  \A u \in Tasks : kpc'[u] \in Having => kloc'[u].id # idleIndex[f][k]
      <4>1. \A u \in Tasks : kpc[u] \in Having => kloc[u].id # idleIndex[f][k]
        BY <2>1 DEF Listed
      <4> QED
        BY <1>5, <3>2, <4>1
    <3>4. connections' = connections /\ connEdge' = connEdge /\ Made' = Made
      BY <1>1, <2>0
    <3>5. \A k \in 1 .. Len(idleIndex[f]) : idleIndex[f][k] \in Made /\ connections[idleIndex[f][k]] # "in_use" /\ connEdge[idleIndex[f][k]] = f
      BY <2>1 DEF Listed
    <3>6. \A k, l \in 1 .. Len(idleIndex[f]) : k # l => idleIndex[f][k] # idleIndex[f][l]
      BY <2>1 DEF Listed
    <3> QED
      BY <3>1, <3>3, <3>4, <3>5, <3>6 DEF Listed
  <2> QED
    BY <2>2, <2>3
<1> QED
  BY <1>6, <1>7 DEF BorrowInv

\* The task marks the connection it has popped as in use, or tries another one.
LEMMA TakeKeeps == ASSUME BorrowInv, ConnTypes', NEW t \in Tasks, TakeIdle(t) PROVE BorrowInv'
<1> DEFINE i == kloc[t].id
<1>0. ConnTypes /\ ConnMapTypes /\ kloc[t] \in Calls
  BY CallTypes DEF BorrowInv, ConnTypes
<1>1. kpc[t] = "take" /\ UNCHANGED <<nextConn, connEdge, idleIndex>>
  BY DEF TakeIdle
<1>2. /\ {"pop", "held"} \subseteq ConnLabels /\ "take" \in Having /\ "held" \in Having
      /\ "pop" \notin Having /\ i \in ConnIds
  BY <1>0, <1>1 DEF ConnLabels, Having, ConnTypes, Calls
<1>3. CASE KGoto(t, "pop", kloc[t]) /\ UNCHANGED connections
  <2>1. kpc'[t] = "pop" /\ \A u \in Tasks : u # t => kpc'[u] = kpc[u] /\ kloc'[u] = kloc[u]
    BY <1>0, <1>2, <1>3, OneCaller
  <2> QED
    BY <1>1, <1>2, <1>3, <2>1, HoldsNone
<1>4. CASE KGoto(t, "held", kloc[t]) /\ connections' = [connections EXCEPT ![i] = "in_use"]
  <2>1. /\ kpc'[t] = "held" /\ kloc'[t] = kloc[t]
        /\ \A u \in Tasks : u # t => kpc'[u] = kpc[u] /\ kloc'[u] = kloc[u]
    BY <1>0, <1>2, <1>4, OneCaller
  <2>2. \A j \in ConnIds : j # i => connections'[j] = connections[j]
    BY <1>0, <1>4 DEF ConnMapTypes
  <2>3. \A u \in Tasks : kpc[u] \in Having => kloc[u].id \in ConnIds
    BY <1>0 DEF ConnTypes, Calls
  <2> HIDE DEF i
  <2>4. Lent'
    BY <1>1, <1>2, <2>1, <2>2, <2>3 DEF BorrowInv, Lent, Made, i
  <2>5. ASSUME NEW f \in Edges PROVE Listed(f, idleIndex[f])'
    <3>1. Listed(f, idleIndex[f]) /\ idleIndex[f] \in Seq(ConnIds)
      BY <1>0 DEF BorrowInv, ConnMapTypes
    <3>2. \A k \in 1 .. Len(idleIndex[f]) : idleIndex[f][k] \in ConnIds /\ idleIndex[f][k] # i
      BY <1>1, <1>2, <3>1, ElementOfSeq DEF Listed, i
    <3> QED
      BY <1>1, <1>2, <2>1, <2>2, <3>1, <3>2 DEF Listed, Made
  <2> QED
    BY <2>4, <2>5 DEF BorrowInv
<1> QED
  BY <1>3, <1>4 DEF TakeIdle

\* A connection that is made is new.
LEMMA InsertKeeps == ASSUME BorrowInv, ConnTypes', NEW t \in Tasks, InsertConnection(t) PROVE BorrowInv'
<1> DEFINE call == [kloc[t] EXCEPT !.id = nextConn]
<1>0. ConnTypes /\ ConnMapTypes /\ nextConn \in Nat \ {0}
  BY DEF BorrowInv, ConnTypes, ConnMapTypes
<1>1. /\ kpc[t] = "insert" /\ nextConn \in ConnIds /\ nextConn' = nextConn + 1 /\ KGoto(t, "index", call)
      /\ connections' = [connections EXCEPT ![nextConn] = "in_use"]
      /\ connEdge' = [connEdge EXCEPT ![nextConn] = kloc[t].edge] /\ UNCHANGED idleIndex
  BY DEF InsertConnection
<1>2. call \in Calls /\ call.id = nextConn /\ "index" \in ConnLabels /\ "index" \in Having /\ "insert" \notin Having
  BY <1>0, <1>1, CallTypes, CallIds DEF ConnLabels, Having
<1> HIDE DEF call
<1>3. /\ kpc'[t] = "index" /\ kloc'[t] = call
      /\ \A u \in Tasks : u # t => kpc'[u] = kpc[u] /\ kloc'[u] = kloc[u]
  BY <1>0, <1>1, <1>2, OneCaller
<1>4. Made' = Made \cup {nextConn} /\ nextConn \notin Made
  BY <1>0, <1>1 DEF Made
<1>5. \A j \in ConnIds : j # nextConn => connections'[j] = connections[j] /\ connEdge'[j] = connEdge[j]
  BY <1>0, <1>1 DEF ConnMapTypes
<1>6. \A u \in Tasks : kpc[u] \in Having => kloc[u].id \in ConnIds
  BY <1>0 DEF ConnTypes, Calls
<1>7. Lent'
  <2>1. Lent
    BY DEF BorrowInv
  <2>2. \A u \in Tasks : u # t /\ kpc[u] \in Having => kloc[u].id # nextConn
    BY <1>4, <2>1 DEF Lent
  <2>3. \A u \in Tasks : kpc'[u] = "take" => u # t /\ kpc[u] \in Having
    BY <1>3 DEF Having
  <2> QED
    BY <1>2, <1>3, <1>4, <1>5, <1>6, <2>1, <2>2, <2>3 DEF Lent
<1>8. ASSUME NEW f \in Edges PROVE Listed(f, idleIndex[f])'
  <2>1. Listed(f, idleIndex[f]) /\ idleIndex[f] \in Seq(ConnIds)
    BY <1>0 DEF BorrowInv, ConnMapTypes
  <2>2. \A k \in 1 .. Len(idleIndex[f]) : idleIndex[f][k] \in ConnIds /\ idleIndex[f][k] # nextConn
    BY <1>4, <2>1, ElementOfSeq DEF Listed
  <2> QED
    BY <1>1, <1>2, <1>3, <1>4, <1>5, <2>1, <2>2 DEF Listed
<1> QED
  BY <1>7, <1>8 DEF BorrowInv

\* The task keeps the connection it has made.
LEMMA IndexKeeps == ASSUME BorrowInv, ConnTypes', NEW t \in Tasks, IndexConnection(t) PROVE BorrowInv'
<1>0. ConnTypes /\ kloc[t] \in Calls
  BY CallTypes DEF BorrowInv
<1>1. kpc[t] = "index" /\ KGoto(t, "held", kloc[t]) /\ UNCHANGED <<nextConn, connections, connEdge, idleIndex>>
  BY DEF IndexConnection
<1>2. "held" \in ConnLabels /\ "held" \in Having /\ "index" \in Having
  BY DEF ConnLabels, Having
<1>3. /\ kpc'[t] = "held" /\ kloc'[t] = kloc[t]
      /\ \A u \in Tasks : u # t => kpc'[u] = kpc[u] /\ kloc'[u] = kloc[u]
  BY <1>0, <1>1, <1>2, OneCaller
<1>4. \A u \in Tasks : (kpc'[u] \in Having <=> kpc[u] \in Having) /\ kloc'[u] = kloc[u] /\ (kpc'[u] = "take" => kpc[u] = "take")
  BY <1>1, <1>2, <1>3
<1>5. Lent'
  BY <1>1, <1>4 DEF BorrowInv, Lent, Made
<1>6. \A f \in Edges : Listed(f, idleIndex[f])'
  BY <1>1, <1>4 DEF BorrowInv, Listed, Made
<1> QED
  BY <1>5, <1>6 DEF BorrowInv

\* A connection that is given back is listed once, unless it was closed meanwhile.
LEMMA ReleaseKeeps == ASSUME BorrowInv, ConnTypes', NEW t \in Tasks, ReleaseConnection(t) PROVE BorrowInv'
<1> DEFINE i == kloc[t].id
           e == connEdge[i]
<1>0. ConnTypes /\ ConnMapTypes
  BY DEF BorrowInv, ConnTypes
<1>1. kpc[t] = "held" /\ KGoto(t, "idle", NoCall) /\ UNCHANGED <<nextConn, connEdge>>
  BY DEF ReleaseConnection
<1>2. /\ "idle" \in ConnLabels /\ "idle" \notin Having /\ "held" \in Having
      /\ i \in ConnIds /\ i \in Made /\ e \in Edges /\ idleIndex[e] \in Seq(ConnIds)
  BY <1>0, <1>1 DEF ConnLabels, Having, ConnTypes, ConnMapTypes, Calls, BorrowInv, Lent
<1>3. kpc'[t] = "idle" /\ \A u \in Tasks : u # t => kpc'[u] = kpc[u] /\ kloc'[u] = kloc[u]
  BY <1>0, <1>1, <1>2, NoCallType, OneCaller
<1>4. CASE connections[i] # "in_use"
  <2>1. UNCHANGED <<connections, idleIndex>>
    BY <1>4 DEF ReleaseConnection
  <2> QED
    BY <1>1, <1>2, <1>3, <2>1, HoldsNone
<1>5. CASE connections[i] = "in_use"
  <2>1. /\ connections' = [connections EXCEPT ![i] = "idle"]
        /\ idleIndex' = [idleIndex EXCEPT ![e] = Append(idleIndex[e], i)]
    BY <1>5 DEF ReleaseConnection
  <2>2. \A j \in ConnIds : connections'[j] = IF j = i THEN "idle" ELSE connections[j]
    BY <1>0, <2>1 DEF ConnMapTypes
  <2>3. \A u \in Tasks : kpc[u] \in Having => kloc[u].id \in ConnIds
    BY <1>0 DEF ConnTypes, Calls
  <2>4. \A u \in Tasks : u # t /\ kpc[u] \in Having => kloc[u].id # i
    BY <1>1, <1>2 DEF BorrowInv, Lent
  <2>5. \A f \in Edges : \A k \in 1 .. Len(idleIndex[f]) : idleIndex[f][k] # i /\ idleIndex[f][k] \in ConnIds
    BY <1>0, <1>1, <1>2, ElementOfSeq DEF BorrowInv, Listed, ConnMapTypes
  <2> HIDE DEF i, e
  <2>6. Lent'
    BY <1>1, <1>2, <1>3, <2>2, <2>3, <2>4 DEF BorrowInv, Lent, Made, Having
  <2>7. ASSUME NEW f \in Edges PROVE Listed(f, idleIndex[f])'
    <3>1. Listed(f, idleIndex[f])
      BY DEF BorrowInv
    <3>2. ASSUME NEW k \in 1 .. Len(idleIndex[f])
          PROVE  /\ idleIndex[f][k] \in Made' /\ connections'[idleIndex[f][k]] # "in_use"
                 /\ connEdge'[idleIndex[f][k]] = f
                 /\ \A u \in Tasks : kpc'[u] \in Having => kloc'[u].id # idleIndex[f][k]
      <4> DEFINE c == idleIndex[f][k]
      <4>1. /\ c \in Made /\ connections[c] # "in_use" /\ connEdge[c] = f
            /\ \A u \in Tasks : kpc[u] \in Having => kloc[u].id # c
        BY <3>1 DEF Listed
      <4>2. c # i /\ c \in ConnIds
        BY <2>5
      <4> HIDE DEF c
      <4>3. c \in Made' /\ connections'[c] # "in_use" /\ connEdge'[c] = f
        BY <1>1, <2>2, <4>1, <4>2 DEF Made
      <4>4. \A u \in Tasks : kpc'[u] \in Having => kloc'[u].id # c
        BY <1>2, <1>3, <4>1
      <4> QED
        BY <4>3, <4>4 DEF c
    <3>3. \A k, l \in 1 .. Len(idleIndex[f]) : k # l => idleIndex[f][k] # idleIndex[f][l]
      BY <3>1 DEF Listed
    <3>4. CASE f # e
      <4>1. idleIndex'[f] = idleIndex[f]
        BY <1>0, <2>1, <3>4 DEF ConnMapTypes
      <4> QED
        BY <3>2, <3>3, <4>1 DEF Listed
    <3>5. CASE f = e
      <4>1. idleIndex'[f] = Append(idleIndex[f], i) /\ idleIndex[f] \in Seq(ConnIds)
        BY <1>0, <1>2, <2>1, <3>5 DEF ConnMapTypes
      <4> DEFINE n == Len(idleIndex[f])
      <4>2. /\ n \in Nat /\ Len(idleIndex'[f]) = n + 1 /\ idleIndex'[f][n + 1] = i
            /\ \A k \in 1 .. n : idleIndex'[f][k] = idleIndex[f][k]
        BY <1>2, <4>1
      <4>3. \A k \in 1 .. n + 1 : k = n + 1 \/ k \in 1 .. n
        BY <4>2
      <4>4. /\ \A k \in 1 .. n : /\ idleIndex[f][k] \in Made' /\ connections'[idleIndex[f][k]] # "in_use"
                              /\ connEdge'[idleIndex[f][k]] = f
                              /\ \A u \in Tasks : kpc'[u] \in Having => kloc'[u].id # idleIndex[f][k]
            /\ \A k, l \in 1 .. n : k # l => idleIndex[f][k] # idleIndex[f][l]
        BY <3>2, <3>3
      <4>5. /\ i \in Made' /\ connections'[i] # "in_use" /\ connEdge'[i] = f
            /\ \A u \in Tasks : kpc'[u] \in Having => kloc'[u].id # i
        BY <1>1, <1>2, <1>3, <2>2, <2>4, <3>5 DEF Made, e
      <4>6. ASSUME NEW k \in 1 .. n + 1, NEW l \in 1 .. n + 1, k # l PROVE idleIndex'[f][k] # idleIndex'[f][l]
        <5>1. \A j \in 1 .. n : idleIndex[f][j] # i
          BY <2>5
        <5>2. (k = n + 1 /\ l \in 1 .. n) \/ (k \in 1 .. n /\ l = n + 1) \/ (k \in 1 .. n /\ l \in 1 .. n)
          BY <4>3, <4>6
        <5> HIDE DEF n
        <5> QED
          BY <4>2, <4>4, <4>6, <5>1, <5>2
      <4>7. \A k \in 1 .. n + 1 : /\ idleIndex'[f][k] \in Made' /\ connections'[idleIndex'[f][k]] # "in_use"
                               /\ connEdge'[idleIndex'[f][k]] = f
                               /\ \A u \in Tasks : kpc'[u] \in Having => kloc'[u].id # idleIndex'[f][k]
        BY <4>2, <4>3, <4>4, <4>5
      <4> QED
        BY <4>2, <4>6, <4>7 DEF Listed
    <3> QED
      BY <3>4, <3>5
  <2> QED
    BY <2>6, <2>7 DEF BorrowInv
<1> QED
  BY <1>4, <1>5

\* Every step keeps the invariant.
LEMMA BorrowPreserved == BorrowInv /\ [ConnectionNext]_connVars => BorrowInv'
<1> SUFFICES ASSUME BorrowInv, [ConnectionNext]_connVars PROVE BorrowInv'
  OBVIOUS
<1>0. ConnTypes'
  BY ConnTypesPreserved DEF BorrowInv
<1>1. CASE UNCHANGED connVars
  BY <1>0, <1>1 DEF connVars, BorrowInv, Lent, Listed, Made
<1>2. ASSUME NEW t \in Tasks, PoolStep(t) \/ TimeOut(t) \/ ReleaseConnection(t) \/ \E e \in Edges : Acquire(t, e) \/ CloseEdge(t, e)
      PROVE  BorrowInv'
  BY <1>0, <1>2, StepsWithout, PopKeeps, TakeKeeps, InsertKeeps, IndexKeeps, ReleaseKeeps DEF PoolStep
<1> QED
  BY <1>1, <1>2 DEF ConnectionNext

\* For any number of tasks, edges and connections, a connection is with one task at
\* most, and never listed as idle while a task has it, whatever acquires, releases,
\* timeouts and closes do at the same time.
THEOREM OneTaskPerConnection == ConnectionInit /\ [][ConnectionNext]_connVars => []OneBorrower
<1>1. BorrowInv => OneBorrower
  <2> SUFFICES ASSUME BorrowInv PROVE OneBorrower
    OBVIOUS
  <2>1. \A e \in Edges : \A k, l \in 1 .. Len(idleIndex[e]) :
          /\ k # l => idleIndex[e][k] # idleIndex[e][l]
          /\ connections[idleIndex[e][k]] # "in_use"
    BY DEF BorrowInv, Listed
  <2>2. \A t, u \in Tasks : (t # u /\ kpc[t] = "held" /\ kpc[u] = "held") => kloc[t].id # kloc[u].id
    BY DEF BorrowInv, Lent, Having
  <2> QED
    BY <2>1, <2>2 DEF OneBorrower
<1> QED
  BY <1>1, BorrowInitial, BorrowPreserved, PTL

(***************************************************************************)
(* The limits of the connection pool.  A connection takes its permit of    *)
(* the pool for good, so the permits, the calls that have one and the      *)
(* connections that were made add up to max_total_connections.  For an     *)
(* edge the sum is over its present semaphore, which is the one its live   *)
(* connections were made with as long as no close_edge met an acquire.     *)
(***************************************************************************)
Paying == {t \in Tasks : kpc[t] \in {"edge_permit", "insert"}}
LiveOf(e) == {i \in Live : connEdge[i] = e}
Inserting(e) == {t \in Tasks : kpc[t] = "insert" /\ kloc[t].edge = e}
Indexes(t, e, i) == kpc[t] = "index" /\ kloc[t].edge = e /\ kloc[t].id = i
Closes(t, e, i) == kpc[t] = "close" /\ kloc[t].edge = e /\ i \in kloc[t].ids

TotalInv ==
  /\ totalPermits + Cardinality(Paying) + nextConn = MaxTotal + 1
  /\ \A i \in Live : i < nextConn

\* Where the live connections of an edge are, and which semaphore counts them.
EdgeInv(e) ==
  /\ \A t, u \in Tasks : ~(Creating(t, e) /\ Closing(u, e))
  /\ \A t \in Tasks : Creating(t, e) => kloc[t].sem = edgeSemaphore[e] /\ edgeSemaphore[e] # 0
  /\ \A t \in Tasks : Closing(t, e) => edgeConnections[e] = {}
  /\ \A i \in LiveOf(e) : i \in edgeConnections[e] \/ \E t \in Tasks : Indexes(t, e, i) \/ Closes(t, e, i)
  /\ edgeSemaphore[e] = 0 => \A i \in LiveOf(e) : \E t \in Tasks : Closes(t, e, i)
  /\ edgeSemaphore[e] # 0 =>
       edgePermits[edgeSemaphore[e]] + Cardinality(Inserting(e)) + Cardinality(LiveOf(e)) <= MaxPerEdge
  /\ Cardinality(LiveOf(e)) <= MaxPerEdge

LimitInv == ConnTypes /\ TotalInv /\ \A e \in Edges \ straddled : EdgeInv(e)

Counted ==
  /\ IsFiniteSet(Paying) /\ Cardinality(Paying) \in Nat
  /\ IsFiniteSet(Live) /\ Cardinality(Live) \in Nat
  /\ \A e \in Edges : /\ IsFiniteSet(Inserting(e)) /\ Cardinality(Inserting(e)) \in Nat
                     /\ IsFiniteSet(LiveOf(e)) /\ Cardinality(LiveOf(e)) \in Nat

\* What is counted is finite.
LEMMA CountedFinite == Counted
<1>1. IsFiniteSet(Tasks) /\ IsFiniteSet(ConnIds)
  BY ConnectionAssumption, FS_Interval DEF ConnIds
<1>2. IsFiniteSet(Paying) /\ Cardinality(Paying) \in Nat
  <2>1. Paying \in SUBSET Tasks
    BY DEF Paying
  <2> QED
    BY <1>1, <2>1, FS_Subset, FS_CardinalityType
<1>3. IsFiniteSet(Live) /\ Cardinality(Live) \in Nat
  <2>1. Live \in SUBSET ConnIds
    BY DEF Live
  <2> QED
    BY <1>1, <2>1, FS_Subset, FS_CardinalityType
<1>4. ASSUME NEW e \in Edges PROVE IsFiniteSet(Inserting(e)) /\ Cardinality(Inserting(e)) \in Nat
  <2>1. Inserting(e) \in SUBSET Tasks
    BY DEF Inserting
  <2> QED
    BY <1>1, <2>1, FS_Subset, FS_CardinalityType
<1>5. ASSUME NEW e \in Edges PROVE IsFiniteSet(LiveOf(e)) /\ Cardinality(LiveOf(e)) \in Nat
  <2>1. LiveOf(e) \in SUBSET Live
    BY DEF LiveOf
  <2> QED
    BY <1>3, <2>1, FS_Subset, FS_CardinalityType
<1> QED
  BY <1>2, <1>3, <1>4, <1>5 DEF Counted

\* The same after a step.
LEMMA CountedFiniteNext == Counted'
BY CountedFinite, PTL

\* The limits hold at the start.
LEMMA LimitInitial == ConnectionInit => LimitInv
<1> SUFFICES ASSUME ConnectionInit PROVE LimitInv
  OBVIOUS
<1>1. Paying = {} /\ Live = {}
  BY DEF ConnectionInit, Paying, Live
<1>2. TotalInv
  BY <1>1, FS_EmptySet, ConnectionAssumption DEF ConnectionInit, TotalInv
<1>3. ASSUME NEW e \in Edges PROVE EdgeInv(e)
  <2>1. LiveOf(e) = {} /\ edgeSemaphore[e] = 0
    BY <1>1 DEF LiveOf, ConnectionInit
  <2>2. \A t \in Tasks : ~Creating(t, e) /\ ~Closing(t, e)
    BY DEF ConnectionInit, Creating, Closing
  <2> QED
    BY <2>1, <2>2, FS_EmptySet, ConnectionAssumption DEF EdgeInv
<1> QED
  BY <1>2, <1>3, ConnTypesInitial DEF LimitInv

\* A step that makes nothing of an edge, closes at most, and keeps its semaphore.
LEMMA EdgeQuiet ==
  ASSUME ConnTypes, ConnTypes', NEW e \in Edges, EdgeInv(e), NEW t \in Tasks,
         \A u \in Tasks : u # t => kpc'[u] = kpc[u] /\ kloc'[u] = kloc[u],
         Creating(t, e)' => Creating(t, e) /\ kloc'[t].sem = kloc[t].sem,
         Closing(t, e)' => Closing(t, e),
         Inserting(e)' \subseteq Inserting(e), LiveOf(e)' \subseteq LiveOf(e),
         \A i \in LiveOf(e)' : (Indexes(t, e, i) => Indexes(t, e, i)') /\ (Closes(t, e, i) => Closes(t, e, i)'),
         edgeSemaphore'[e] = edgeSemaphore[e], edgeConnections'[e] = edgeConnections[e],
         edgeSemaphore[e] # 0 => edgePermits'[edgeSemaphore[e]] <= edgePermits[edgeSemaphore[e]]
  PROVE  EdgeInv(e)'
<1>1. \A u \in Tasks : Creating(u, e)' => Creating(u, e) /\ kloc'[u].sem = kloc[u].sem
  BY DEF Creating
<1>2. \A u \in Tasks : Closing(u, e)' => Closing(u, e)
  BY DEF Closing
<1>3. \A u \in Tasks : \A i \in LiveOf(e)' :
        (Indexes(u, e, i) => Indexes(u, e, i)') /\ (Closes(u, e, i) => Closes(u, e, i)')
  BY DEF Indexes, Closes
<1>4. /\ Cardinality(Inserting(e)') <= Cardinality(Inserting(e))
      /\ Cardinality(LiveOf(e)') <= Cardinality(LiveOf(e))
  BY CountedFinite, FS_Subset DEF Counted
<1>5. /\ Cardinality(Inserting(e)') \in Nat /\ Cardinality(Inserting(e)) \in Nat
      /\ Cardinality(LiveOf(e)') \in Nat /\ Cardinality(LiveOf(e)) \in Nat
  BY CountedFinite, CountedFiniteNext DEF Counted
<1>6. MaxPerEdge \in Nat
  BY ConnectionAssumption
<1>7. edgeSemaphore[e] # 0 => edgePermits[edgeSemaphore[e]] \in Nat /\ edgePermits'[edgeSemaphore[e]] \in Nat
  <2>1. /\ edgeSemaphore[e] \in Nat /\ edgeSemaphore[e] <= Len(edgePermits) /\ edgePermits \in Seq(Nat)
        /\ edgeSemaphore'[e] <= Len(edgePermits') /\ edgePermits' \in Seq(Nat)
    BY DEF ConnTypes, ConnMapTypes
  <2>2. Len(edgePermits) \in Nat /\ Len(edgePermits') \in Nat
    BY <2>1
  <2>3. edgeSemaphore[e] # 0 => edgeSemaphore[e] \in 1 .. Len(edgePermits) /\ edgeSemaphore[e] \in 1 .. Len(edgePermits')
    BY <2>1, <2>2
  <2> QED
    BY <2>1, <2>3, ElementOfSeq
<1>8. /\ \A v, u \in Tasks : ~(Creating(v, e)' /\ Closing(u, e)')
      /\ \A u \in Tasks : Creating(u, e)' => kloc'[u].sem = edgeSemaphore'[e] /\ edgeSemaphore'[e] # 0
      /\ \A u \in Tasks : Closing(u, e)' => edgeConnections'[e] = {}
  BY <1>1, <1>2 DEF EdgeInv
<1>9. \A i \in LiveOf(e)' : i \in edgeConnections'[e] \/ \E u \in Tasks : Indexes(u, e, i)' \/ Closes(u, e, i)'
  BY <1>3 DEF EdgeInv
<1>10. edgeSemaphore'[e] = 0 => \A i \in LiveOf(e)' : \E u \in Tasks : Closes(u, e, i)'
  BY <1>3 DEF EdgeInv
<1>11. edgeSemaphore'[e] # 0 =>
        edgePermits'[edgeSemaphore'[e]] + Cardinality(Inserting(e)') + Cardinality(LiveOf(e)') <= MaxPerEdge
  <2>1. edgeSemaphore[e] # 0 =>
          edgePermits[edgeSemaphore[e]] + Cardinality(Inserting(e)) + Cardinality(LiveOf(e)) <= MaxPerEdge
    BY DEF EdgeInv
  <2> QED
    BY <1>4, <1>5, <1>6, <1>7, <2>1
<1>12. Cardinality(LiveOf(e)') <= MaxPerEdge
  <2>1. Cardinality(LiveOf(e)) <= MaxPerEdge
    BY DEF EdgeInv
  <2> QED
    BY <1>4, <1>5, <1>6, <2>1
<1> QED
  BY <1>8, <1>9, <1>10, <1>11, <1>12 DEF EdgeInv

\* The steps that neither take nor return a permit of the pool and make no connection.
LEMMA TotalQuiet ==
  ASSUME TotalInv, NEW t \in Tasks, kpc[t] \notin {"insert"},
         kpc \in [Tasks -> ConnLabels], kpc' \in [Tasks -> ConnLabels],
         \A u \in Tasks : u # t => kpc'[u] = kpc[u],
         kpc'[t] \in {"edge_permit", "insert"} <=> kpc[t] \in {"edge_permit", "insert"},
         UNCHANGED <<totalPermits, nextConn>>, Live' \subseteq Live
  PROVE  TotalInv'
<1>1. Paying' = Paying
  BY DEF Paying
<1> QED
  BY <1>1 DEF TotalInv

\* The permits of the pool, the calls that have one and the connections that were
\* made add up.
LEMMA TotalKept ==
  ASSUME TotalInv, ConnTypes, ConnTypes', NEW t \in Tasks,
         PoolStep(t) \/ TimeOut(t) \/ ReleaseConnection(t) \/ \E e \in Edges : Acquire(t, e) \/ CloseEdge(t, e)
  PROVE  TotalInv'
<1>0. /\ ConnMapTypes /\ totalPermits \in Nat /\ nextConn \in Nat \ {0} /\ MaxTotal \in Nat
      /\ kpc \in [Tasks -> ConnLabels] /\ kpc' \in [Tasks -> ConnLabels]
  BY ConnectionAssumption DEF ConnTypes, ConnMapTypes
<1>1. IsFiniteSet(Paying) /\ Cardinality(Paying) \in Nat
  BY CountedFinite DEF Counted
<1>2. totalPermits + Cardinality(Paying) + nextConn = MaxTotal + 1 /\ \A i \in Live : i < nextConn
  BY DEF TotalInv
<1>3. CASE TotalPermit(t)
  <2>1. Paying' = Paying \cup {t} /\ t \notin Paying
    BY <1>0, <1>3 DEF TotalPermit, KGoto, Paying
  <2>2. totalPermits' = totalPermits - 1 /\ nextConn' = nextConn /\ Live' = Live
    BY <1>3 DEF TotalPermit, connMaps, Live
  <2>3. Cardinality(Paying') = Cardinality(Paying) + 1
    BY <1>1, <2>1, FS_AddElement
  <2> QED
    BY <1>0, <1>1, <1>2, <2>2, <2>3 DEF TotalInv
<1>4. CASE InsertConnection(t)
  <2>1. Paying' = Paying \ {t} /\ t \in Paying
    BY <1>0, <1>4 DEF InsertConnection, KGoto, Paying
  <2>2. totalPermits' = totalPermits /\ nextConn' = nextConn + 1 /\ nextConn \in ConnIds
    BY <1>4 DEF InsertConnection, permitVars
  <2>3. Live' = Live \cup {nextConn}
    BY <1>0, <1>4 DEF InsertConnection, Live, ConnMapTypes
  <2>4. Cardinality(Paying') = Cardinality(Paying) - 1
    BY <1>1, <2>1, FS_RemoveElement
  <2>5. totalPermits' + Cardinality(Paying') + nextConn' = MaxTotal + 1
    BY <1>0, <1>1, <1>2, <2>2, <2>4
  <2>6. Live \subseteq Int
    BY DEF Live, ConnIds
  <2>7. \A i \in Live' : i < nextConn'
    BY <1>0, <1>2, <2>2, <2>3, <2>6
  <2> QED
    BY <2>5, <2>7 DEF TotalInv
<1>5. CASE TimeOut(t) /\ kpc[t] = "edge_permit"
  <2>1. Paying' = Paying \ {t} /\ t \in Paying
    BY <1>0, <1>5 DEF TimeOut, KGoto, Paying
  <2>2. totalPermits' = totalPermits + 1 /\ nextConn' = nextConn /\ Live' = Live
    BY <1>5 DEF TimeOut, connMaps, Live
  <2>3. Cardinality(Paying') = Cardinality(Paying) - 1
    BY <1>1, <2>1, FS_RemoveElement
  <2> QED
    BY <1>0, <1>1, <1>2, <2>2, <2>3 DEF TotalInv
<1>6. CASE TimeOut(t) /\ kpc[t] # "edge_permit"
  <2>1. /\ kpc[t] = "total_permit" /\ kpc' = [kpc EXCEPT ![t] = "idle"]
        /\ UNCHANGED <<totalPermits, nextConn>> /\ Live' = Live
    BY <1>6 DEF TimeOut, KGoto, connMaps, Live
  <2> QED
    BY <1>0, <2>1, TotalQuiet
<1>7. CASE PopIdle(t) \/ NoIdle(t) \/ IndexConnection(t) \/ CloseIdle(t) \/ CloseSemaphore(t)
  <2>1. /\ kpc[t] \in {"pop", "index", "close_idle", "close_semaphore"}
        /\ \E label \in {"take", "total_permit", "held", "close_semaphore", "idle"} : kpc' = [kpc EXCEPT ![t] = label]
        /\ UNCHANGED <<totalPermits, nextConn, connections>>
    BY <1>7 DEF PopIdle, NoIdle, IndexConnection, CloseIdle, CloseSemaphore, KGoto, connMaps, permitVars
  <2>2. Live' = Live
    BY <2>1 DEF Live
  <2> QED
    BY <1>0, <2>1, <2>2, TotalQuiet
<1>8. CASE EdgePermit(t)
  <2>1. /\ kpc[t] = "edge_permit" /\ kpc' = [kpc EXCEPT ![t] = "insert"]
        /\ UNCHANGED <<totalPermits, nextConn, connections>>
    BY <1>8 DEF EdgePermit, KGoto, connMaps
  <2>2. Live' = Live
    BY <2>1 DEF Live
  <2> QED
    BY <1>0, <2>1, <2>2, TotalQuiet
<1>9. CASE TakeIdle(t) \/ CloseConnection(t) \/ ReleaseConnection(t)
  <2>1. /\ kpc[t] \in {"take", "close", "held"}
        /\ \E label \in {"pop", "held", "close", "close_idle", "idle"} : kpc' = [kpc EXCEPT ![t] = label]
        /\ UNCHANGED <<totalPermits, nextConn>>
    BY <1>9 DEF TakeIdle, CloseConnection, ReleaseConnection, KGoto, permitVars
  <2>2. Live' \subseteq Live
    BY <1>0, <1>9 DEF TakeIdle, CloseConnection, ReleaseConnection, Live, ConnMapTypes
  <2> QED
    BY <1>0, <2>1, <2>2, TotalQuiet
<1>10. CASE \E e \in Edges : Acquire(t, e) \/ CloseEdge(t, e)
  <2>1. /\ kpc[t] = "idle"
        /\ \E label \in {"pop", "close"} : kpc' = [kpc EXCEPT ![t] = label]
        /\ UNCHANGED <<totalPermits, nextConn, connections>>
    BY <1>10 DEF Acquire, CloseEdge, KGoto, permitVars, connMaps
  <2>2. Live' = Live
    BY <2>1 DEF Live
  <2> QED
    BY <1>0, <2>1, <2>2, TotalQuiet
<1> QED
  BY <1>3, <1>4, <1>5, <1>6, <1>7, <1>8, <1>9, <1>10 DEF PoolStep

\* What a step of a task is, as far as an edge is concerned.
LEMMA EdgeMoves ==
  ASSUME ConnTypes, NEW t \in Tasks, NEW label, NEW call, KGoto(t, label, call)
  PROVE  /\ kpc'[t] = label /\ kloc'[t] = call
         /\ \A u \in Tasks : u # t => kpc'[u] = kpc[u] /\ kloc'[u] = kloc[u]
BY DEF ConnTypes, KGoto

\* The steps that make nothing and leave the semaphores alone are quiet for every
\* edge.
LEMMA EdgeQuietSteps ==
  ASSUME ConnTypes, ConnTypes', NEW e \in Edges, EdgeInv(e), NEW t \in Tasks,
         \/ PopIdle(t) \/ TakeIdle(t) \/ NoIdle(t) \/ TimeOut(t) \/ ReleaseConnection(t)
         \/ CloseConnection(t) \/ CloseIdle(t) \/ \E f \in Edges : Acquire(t, f)
  PROVE  EdgeInv(e)'
<1>0. ConnMapTypes /\ kloc[t] \in Calls /\ kpc \in [Tasks -> ConnLabels] /\ kloc \in [Tasks -> Calls]
  BY DEF ConnTypes
<1>1. UNCHANGED <<connEdge, edgeConnections, edgeSemaphore, edgePermits>>
  BY DEF PopIdle, TakeIdle, NoIdle, TimeOut, ReleaseConnection, CloseConnection, CloseIdle, Acquire, connMaps, permitVars
<1>2. LiveOf(e)' \subseteq LiveOf(e)
  <2>1. Live' \subseteq Live
    BY <1>0 DEF PopIdle, TakeIdle, NoIdle, TimeOut, ReleaseConnection, CloseConnection, CloseIdle, Acquire, connMaps, Live, ConnMapTypes
  <2> QED
    BY <1>1, <2>1 DEF LiveOf
<1>3. edgeSemaphore[e] # 0 => edgePermits'[edgeSemaphore[e]] <= edgePermits[edgeSemaphore[e]]
  <2>1. /\ edgeSemaphore[e] \in Nat /\ edgeSemaphore[e] <= Len(edgePermits) /\ edgePermits \in Seq(Nat)
    BY <1>0 DEF ConnMapTypes
  <2>2. Len(edgePermits) \in Nat
    BY <2>1
  <2>3. edgeSemaphore[e] # 0 => edgeSemaphore[e] \in 1 .. Len(edgePermits)
    BY <2>1, <2>2
  <2>4. edgeSemaphore[e] # 0 => edgePermits[edgeSemaphore[e]] \in Nat
    BY <2>1, <2>3, ElementOfSeq
  <2> QED
    BY <1>1, <2>4
<1>4. CASE CloseConnection(t)
  <2>1. PICK ids \in SUBSET ConnIds, label \in {"close", "close_idle"} :
          /\ KGoto(t, label, [kloc[t] EXCEPT !.ids = ids])
          /\ \A i \in kloc[t].ids : i \in ids \/ connections'[i] = "none"
          /\ label = "close_idle" => kloc[t].ids = {}
          /\ kpc[t] = "close"
    <3>1. CASE \E i \in kloc[t].ids : /\ connections' = [connections EXCEPT ![i] = "none"]
                                      /\ KGoto(t, "close", [kloc[t] EXCEPT !.ids = @ \ {i}])
      <4>1. PICK i \in kloc[t].ids : /\ connections' = [connections EXCEPT ![i] = "none"]
                                     /\ KGoto(t, "close", [kloc[t] EXCEPT !.ids = @ \ {i}])
        BY <3>1
      <4>2. kloc[t].ids \ {i} \in SUBSET ConnIds /\ connections'[i] = "none"
        BY <1>0, <4>1 DEF Calls, ConnMapTypes
      <4>3. [kloc[t] EXCEPT !.ids = @ \ {i}] = [kloc[t] EXCEPT !.ids = kloc[t].ids \ {i}]
        OBVIOUS
      <4>4. \A j \in kloc[t].ids : j \in kloc[t].ids \ {i} \/ connections'[j] = "none"
        BY <4>2
      <4>5. KGoto(t, "close", [kloc[t] EXCEPT !.ids = kloc[t].ids \ {i}])
        BY <4>1, <4>3
      <4>6. kpc[t] = "close" /\ "close" \in {"close", "close_idle"} /\ "close" # "close_idle"
        BY <1>4 DEF CloseConnection
      <4> QED
        BY <4>2, <4>4, <4>5, <4>6, Zenon
    <3>2. CASE kloc[t].ids = {} /\ KGoto(t, "close_idle", kloc[t])
      <4>1. [kloc[t] EXCEPT !.ids = {}] = kloc[t]
        BY <1>0, <3>2 DEF Calls
      <4>2. kpc[t] = "close"
        BY <1>4 DEF CloseConnection
      <4>3. KGoto(t, "close_idle", [kloc[t] EXCEPT !.ids = {}])
        BY <3>2, <4>1
      <4>4. {} \in SUBSET ConnIds /\ "close_idle" \in {"close", "close_idle"} /\ kloc[t].ids = {}
        BY <3>2
      <4> QED
        BY <4>2, <4>3, <4>4, Zenon
    <3> QED
      BY <1>4, <3>1, <3>2 DEF CloseConnection
  <2> DEFINE work == [kloc[t] EXCEPT !.ids = ids]
  <2>3. work.edge = kloc[t].edge /\ work.ids = ids
    BY <1>0 DEF Calls
  <2> HIDE DEF work
  <2>4. /\ kpc'[t] = label /\ kloc'[t] = work
        /\ \A u \in Tasks : u # t => kpc'[u] = kpc[u] /\ kloc'[u] = kloc[u]
    BY <2>1, EdgeMoves DEF work
  <2>5. ~Creating(t, e)' /\ (Closing(t, e)' => Closing(t, e))
    BY <2>1, <2>3, <2>4 DEF Creating, Closing
  <2>6. Inserting(e)' \subseteq Inserting(e)
    BY <2>1, <2>4 DEF Inserting
  <2>7. \A i \in LiveOf(e)' : ~Indexes(t, e, i) /\ (Closes(t, e, i) => Closes(t, e, i)')
    BY <2>1, <2>3, <2>4 DEF Indexes, Closes, LiveOf, Live
  <2> QED
    BY <1>1, <1>2, <1>3, <2>4, <2>5, <2>6, <2>7, EdgeQuiet
<1>5. CASE CloseIdle(t)
  <2>1. kpc[t] = "close_idle" /\ KGoto(t, "close_semaphore", kloc[t])
    BY <1>5 DEF CloseIdle
  <2>2. /\ kpc'[t] = "close_semaphore" /\ kloc'[t] = kloc[t]
        /\ \A u \in Tasks : u # t => kpc'[u] = kpc[u] /\ kloc'[u] = kloc[u]
    BY <2>1, EdgeMoves
  <2>3. ~Creating(t, e)' /\ (Closing(t, e)' => Closing(t, e))
    BY <2>1, <2>2 DEF Creating, Closing
  <2>4. Inserting(e)' \subseteq Inserting(e)
    BY <2>1, <2>2 DEF Inserting
  <2>5. \A i \in LiveOf(e)' : ~Indexes(t, e, i) /\ ~Closes(t, e, i)
    BY <2>1 DEF Indexes, Closes
  <2> QED
    BY <1>1, <1>2, <1>3, <2>2, <2>3, <2>4, <2>5, EdgeQuiet
<1>6. CASE ~CloseConnection(t) /\ ~CloseIdle(t)
  <2>0. \/ PopIdle(t) \/ TakeIdle(t) \/ NoIdle(t) \/ TimeOut(t) \/ ReleaseConnection(t)
        \/ \E f \in Edges : Acquire(t, f)
    BY <1>6
  <2>1. PICK label, call : KGoto(t, label, call) /\ label \in {"take", "pop", "held", "total_permit", "idle"}
    <3>1. CASE TakeIdle(t) \/ NoIdle(t) \/ TimeOut(t) \/ ReleaseConnection(t)
      BY <3>1 DEF TakeIdle, NoIdle, TimeOut, ReleaseConnection
    <3>h. "take" \in {"take", "pop", "held", "total_permit", "idle"} /\ "pop" \in {"take", "pop", "held", "total_permit", "idle"}
      OBVIOUS
    <3>2. CASE PopIdle(t)
      BY <3>2, <3>h, Zenon DEF PopIdle
    <3>3. CASE \E f \in Edges : Acquire(t, f)
      BY <3>3, <3>h, Zenon DEF Acquire
    <3> QED
      BY <2>0, <3>1, <3>2, <3>3
  <2>2. /\ kpc'[t] = label
        /\ \A u \in Tasks : u # t => kpc'[u] = kpc[u] /\ kloc'[u] = kloc[u]
    BY <2>1, EdgeMoves
  <2>3. ~Creating(t, e)' /\ ~Closing(t, e)' /\ Inserting(e)' \subseteq Inserting(e)
    BY <2>1, <2>2 DEF Creating, Closing, Inserting
  <2>4. kpc[t] \notin {"index", "close"}
    BY <2>0 DEF PopIdle, TakeIdle, NoIdle, TimeOut, ReleaseConnection, Acquire
  <2>5. \A i \in LiveOf(e)' : ~Indexes(t, e, i) /\ ~Closes(t, e, i)
    BY <2>4 DEF Indexes, Closes
  <2> QED
    BY <1>1, <1>2, <1>3, <2>2, <2>3, <2>5, EdgeQuiet
<1> QED
  BY <1>4, <1>5, <1>6

\* The permits of the semaphore that an edge has are a number.
LEMMA EdgePermitsType ==
  ASSUME ConnTypes, NEW e \in Edges
  PROVE  /\ edgeSemaphore[e] \in Nat /\ edgeSemaphore[e] <= Len(edgePermits) /\ Len(edgePermits) \in Nat
         /\ edgeSemaphore[e] # 0 => edgeSemaphore[e] \in 1 .. Len(edgePermits) /\ edgePermits[edgeSemaphore[e]] \in Nat
<1>1. edgeSemaphore[e] \in Nat /\ edgeSemaphore[e] <= Len(edgePermits) /\ edgePermits \in Seq(Nat)
  BY DEF ConnTypes, ConnMapTypes
<1>2. Len(edgePermits) \in Nat
  BY <1>1
<1>3. edgeSemaphore[e] # 0 => edgeSemaphore[e] \in 1 .. Len(edgePermits)
  BY <1>1, <1>2
<1> QED
  BY <1>1, <1>2, <1>3, ElementOfSeq

\* The steps of an acquire or a close of another edge.
LEMMA EdgeApart ==
  ASSUME ConnTypes, ConnTypes', NEW e \in Edges, EdgeInv(e), NEW t \in Tasks,
         \/ TotalPermit(t) \/ EdgePermit(t) \/ InsertConnection(t) \/ IndexConnection(t) \/ CloseSemaphore(t)
         \/ \E f \in Edges : CloseEdge(t, f) /\ f # e,
         kpc[t] # "idle" => kloc[t].edge # e
  PROVE  EdgeInv(e)'
<1>0. /\ ConnMapTypes /\ kloc[t] \in Calls /\ kloc[t].edge \in Edges
      /\ kpc \in [Tasks -> ConnLabels] /\ kloc \in [Tasks -> Calls]
  BY CallTypes DEF ConnTypes
<1>1. PICK label, call : /\ KGoto(t, label, call)
                         /\ (label # "idle" => call.edge # e)
                         /\ label \in ConnLabels
  <2>h. {"edge_permit", "insert", "index", "held", "idle", "close"} \subseteq ConnLabels
    BY DEF ConnLabels
  <2>1. CASE TotalPermit(t)
    <3>1. PICK s : KGoto(t, "edge_permit", [kloc[t] EXCEPT !.sem = s])
      BY <2>1, Zenon DEF TotalPermit
    <3>2. [kloc[t] EXCEPT !.sem = s].edge # e
      BY <1>0, <2>1 DEF Calls, TotalPermit
    <3> QED
      BY <2>h, <3>1, <3>2, Zenon
  <2>2. CASE InsertConnection(t)
    <3>1. KGoto(t, "index", [kloc[t] EXCEPT !.id = nextConn]) /\ kpc[t] = "insert"
      BY <2>2 DEF InsertConnection
    <3>2. [kloc[t] EXCEPT !.id = nextConn].edge # e
      BY <1>0, <3>1 DEF Calls
    <3> QED
      BY <2>h, <3>1, <3>2, Zenon
  <2>3. CASE EdgePermit(t) \/ IndexConnection(t) \/ CloseSemaphore(t)
    BY <2>3, <2>h DEF EdgePermit, IndexConnection, CloseSemaphore
  <2>4. CASE \E f \in Edges : CloseEdge(t, f) /\ f # e
    <3>1. PICK f \in Edges : CloseEdge(t, f) /\ f # e
      BY <2>4
    <3>2. KGoto(t, "close", [NoCall EXCEPT !.edge = f, !.ids = edgeConnections[f]])
      BY <3>1 DEF CloseEdge
    <3>3. [NoCall EXCEPT !.edge = f, !.ids = edgeConnections[f]].edge # e
      BY <3>1 DEF NoCall
    <3> QED
      BY <2>h, <3>2, <3>3, Zenon
  <2> QED
    BY <2>1, <2>2, <2>3, <2>4
<1>2. /\ kpc'[t] = label /\ kloc'[t] = call
      /\ \A u \in Tasks : u # t => kpc'[u] = kpc[u] /\ kloc'[u] = kloc[u]
  BY <1>1, EdgeMoves
<1>3. ~Creating(t, e)' /\ ~Closing(t, e)' /\ Inserting(e)' \subseteq Inserting(e)
  BY <1>1, <1>2 DEF Creating, Closing, Inserting
<1>4. \A i \in LiveOf(e)' : ~Indexes(t, e, i) /\ ~Closes(t, e, i)
  BY DEF Indexes, Closes
<1>5. LiveOf(e)' \subseteq LiveOf(e)
  <2>1. CASE InsertConnection(t)
    BY <1>0, <2>1 DEF InsertConnection, LiveOf, Live, ConnMapTypes
  <2>2. CASE UNCHANGED <<connections, connEdge>>
    BY <2>2 DEF LiveOf, Live
  <2> QED
    BY <2>1, <2>2 DEF TotalPermit, EdgePermit, IndexConnection, CloseSemaphore, CloseEdge, connMaps
<1>6. edgeSemaphore'[e] = edgeSemaphore[e]
  BY <1>0 DEF TotalPermit, EdgePermit, InsertConnection, IndexConnection, CloseSemaphore, CloseEdge, permitVars, ConnMapTypes
<1>7. edgeConnections'[e] = edgeConnections[e]
  BY <1>0 DEF TotalPermit, EdgePermit, InsertConnection, IndexConnection, CloseSemaphore, CloseEdge, connMaps, ConnMapTypes
<1>8. ASSUME edgeSemaphore[e] # 0 PROVE edgePermits'[edgeSemaphore[e]] <= edgePermits[edgeSemaphore[e]]
  <2>1. edgeSemaphore[e] \in 1 .. Len(edgePermits) /\ edgePermits[edgeSemaphore[e]] \in Nat /\ edgePermits \in Seq(Nat)
    BY <1>0, <1>8, EdgePermitsType DEF ConnMapTypes
  <2>2. CASE edgePermits' = edgePermits
    BY <2>1, <2>2
  <2>3. CASE edgePermits' = Append(edgePermits, MaxPerEdge)
    <3>1. edgePermits'[edgeSemaphore[e]] = edgePermits[edgeSemaphore[e]]
      BY <2>1, <2>3, ConnectionAssumption
    <3> QED
      BY <2>1, <3>1
  <2>4. CASE EdgePermit(t)
    <3>1. edgePermits' = [edgePermits EXCEPT ![kloc[t].sem] = @ - 1]
      BY <2>4 DEF EdgePermit
    <3>2. edgePermits'[edgeSemaphore[e]] \in {edgePermits[edgeSemaphore[e]], edgePermits[edgeSemaphore[e]] - 1}
      BY <2>1, <3>1
    <3> QED
      BY <2>1, <3>2
  <2> QED
    BY <2>2, <2>3, <2>4 DEF TotalPermit, InsertConnection, IndexConnection, CloseSemaphore, CloseEdge, permitVars
<1> QED
  BY <1>2, <1>3, <1>4, <1>5, <1>6, <1>7, <1>8, EdgeQuiet

\* The counts of an edge are numbers.
LEMMA EdgeCounts ==
  ASSUME NEW e \in Edges
  PROVE  /\ Cardinality(Inserting(e)) \in Nat /\ Cardinality(LiveOf(e)) \in Nat
         /\ IsFiniteSet(Inserting(e)) /\ IsFiniteSet(LiveOf(e))
         /\ MaxPerEdge \in Nat
BY CountedFinite, ConnectionAssumption DEF Counted

\* A call that gets the permit of the edge is counted with it.
LEMMA EdgePermitOwn ==
  ASSUME ConnTypes, ConnTypes', NEW t \in Tasks, EdgePermit(t), NEW e \in Edges, e = kloc[t].edge, EdgeInv(e)
  PROVE  EdgeInv(e)'
<1> DEFINE s == edgeSemaphore[e]
<1>0. ConnMapTypes /\ e \in Edges
  BY CallTypes DEF ConnTypes
<1>1. /\ kpc[t] = "edge_permit" /\ edgePermits[kloc[t].sem] > 0
      /\ edgePermits' = [edgePermits EXCEPT ![kloc[t].sem] = @ - 1]
      /\ KGoto(t, "insert", kloc[t])
      /\ UNCHANGED <<connections, connEdge, edgeConnections, edgeSemaphore>>
  BY DEF EdgePermit, connMaps
<1>2. /\ kpc'[t] = "insert" /\ kloc'[t] = kloc[t]
      /\ \A u \in Tasks : u # t => kpc'[u] = kpc[u] /\ kloc'[u] = kloc[u]
  BY <1>1, EdgeMoves
<1>3. \A u \in Tasks : kloc'[u] = kloc[u] /\ (Creating(u, e)' <=> Creating(u, e)) /\ (Closing(u, e)' <=> Closing(u, e))
  BY <1>1, <1>2 DEF Creating, Closing
<1>4. \A u \in Tasks : \A i : (Indexes(u, e, i)' <=> Indexes(u, e, i)) /\ (Closes(u, e, i)' <=> Closes(u, e, i))
  BY <1>1, <1>2 DEF Indexes, Closes
<1>5. LiveOf(e)' = LiveOf(e)
  BY <1>1 DEF LiveOf, Live
<1>6. Inserting(e)' = Inserting(e) \cup {t} /\ t \notin Inserting(e)
  BY <1>1, <1>2 DEF Inserting
<1>7. Cardinality(Inserting(e)') = Cardinality(Inserting(e)) + 1
  BY <1>0, <1>6, EdgeCounts, FS_AddElement
<1>8. Creating(t, e)
  BY <1>1 DEF Creating
<1>9. kloc[t].sem = s /\ s # 0 /\ EdgeInv(e)
  BY <1>8 DEF EdgeInv
<1>10. s \in 1 .. Len(edgePermits) /\ edgePermits[s] \in Nat /\ edgePermits \in Seq(Nat)
  BY <1>0, <1>9, EdgePermitsType DEF ConnMapTypes
<1>11. edgePermits'[s] = edgePermits[s] - 1
  BY <1>1, <1>9, <1>10
<1>12. edgePermits[s] + Cardinality(Inserting(e)) + Cardinality(LiveOf(e)) <= MaxPerEdge
  BY <1>9 DEF EdgeInv
<1>13. edgePermits'[s] + Cardinality(Inserting(e)') + Cardinality(LiveOf(e)') <= MaxPerEdge
  <2>1. Cardinality(Inserting(e)) \in Nat /\ Cardinality(LiveOf(e)) \in Nat /\ MaxPerEdge \in Nat
    BY EdgeCounts
  <2> HIDE DEF s
  <2> QED
    BY <1>5, <1>7, <1>10, <1>11, <1>12, <2>1
<1>14. edgeSemaphore'[e] = s /\ edgeConnections'[e] = edgeConnections[e]
  BY <1>1
<1> QED
  BY <1>3, <1>4, <1>5, <1>9, <1>13, <1>14 DEF EdgeInv

\* The connection that is made takes the place of the call that has the permit.
LEMMA InsertOwn ==
  ASSUME ConnTypes, ConnTypes', TotalInv, NEW t \in Tasks, InsertConnection(t), NEW e \in Edges, e = kloc[t].edge, EdgeInv(e)
  PROVE  EdgeInv(e)'
<1> DEFINE s == edgeSemaphore[e]
           work == [kloc[t] EXCEPT !.id = nextConn]
<1>0. ConnMapTypes /\ e \in Edges /\ kloc[t] \in Calls
  BY CallTypes DEF ConnTypes
<1>1. /\ kpc[t] = "insert" /\ nextConn \in ConnIds
      /\ connections' = [connections EXCEPT ![nextConn] = "in_use"]
      /\ connEdge' = [connEdge EXCEPT ![nextConn] = e]
      /\ KGoto(t, "index", work)
      /\ UNCHANGED <<edgeConnections, edgeSemaphore, edgePermits>>
  BY DEF InsertConnection, permitVars
<1>2. work.edge = e /\ work.sem = kloc[t].sem /\ work.id = nextConn
  BY <1>0 DEF Calls
<1> HIDE DEF work
<1>3. /\ kpc'[t] = "index" /\ kloc'[t] = work
      /\ \A u \in Tasks : u # t => kpc'[u] = kpc[u] /\ kloc'[u] = kloc[u]
  BY <1>1, EdgeMoves
<1>4. \A u \in Tasks : /\ kloc'[u].sem = kloc[u].sem
                       /\ (Creating(u, e)' <=> Creating(u, e)) /\ (Closing(u, e)' <=> Closing(u, e))
  BY <1>1, <1>2, <1>3 DEF Creating, Closing
<1>5. \A u \in Tasks : \A i : (Indexes(u, e, i) => Indexes(u, e, i)') /\ (Closes(u, e, i) => Closes(u, e, i)')
  BY <1>1, <1>3 DEF Indexes, Closes
<1>6. \A i : i = nextConn => Indexes(t, e, i)'
  BY <1>2, <1>3 DEF Indexes
<1>7. LiveOf(e)' = LiveOf(e) \cup {nextConn}
  BY <1>0, <1>1 DEF LiveOf, Live, ConnMapTypes
<1>8. nextConn \notin LiveOf(e)
  <2>1. nextConn \in Nat /\ \A i \in Live : i < nextConn
    BY <1>0 DEF TotalInv, ConnMapTypes
  <2> QED
    BY <2>1 DEF LiveOf
<1>9. Inserting(e)' = Inserting(e) \ {t} /\ t \in Inserting(e)
  BY <1>1, <1>3 DEF Inserting
<1>10. Cardinality(Inserting(e)') = Cardinality(Inserting(e)) - 1
  BY <1>0, <1>9, EdgeCounts, FS_RemoveElement
<1>11. Cardinality(LiveOf(e)') = Cardinality(LiveOf(e)) + 1
  BY <1>0, <1>7, <1>8, EdgeCounts, FS_AddElement
<1>12. Creating(t, e)
  BY <1>1 DEF Creating
<1>13. s # 0 /\ EdgeInv(e)
  BY <1>12 DEF EdgeInv
<1>14. edgePermits[s] \in Nat
  BY <1>0, <1>13, EdgePermitsType
<1>15. edgePermits[s] + Cardinality(Inserting(e)) + Cardinality(LiveOf(e)) <= MaxPerEdge
  BY <1>13 DEF EdgeInv
<1>16. /\ edgePermits[s] + Cardinality(Inserting(e)') + Cardinality(LiveOf(e)') <= MaxPerEdge
       /\ Cardinality(Inserting(e)') \in Nat
  BY <1>0, <1>10, <1>11, <1>14, <1>15, EdgeCounts, CountedFiniteNext DEF Counted
<1>17. Cardinality(LiveOf(e)') <= MaxPerEdge
  BY <1>0, <1>11, <1>14, <1>16, EdgeCounts
<1>18. edgeSemaphore'[e] = s /\ edgeConnections'[e] = edgeConnections[e] /\ edgePermits' = edgePermits
  BY <1>1
<1>19. \A i \in LiveOf(e)' : i \in edgeConnections'[e] \/ \E u \in Tasks : Indexes(u, e, i)' \/ Closes(u, e, i)'
  BY <1>5, <1>6, <1>7, <1>13, <1>18 DEF EdgeInv
<1>20. /\ \A v, u \in Tasks : ~(Creating(v, e)' /\ Closing(u, e)')
       /\ \A u \in Tasks : Creating(u, e)' => kloc'[u].sem = edgeSemaphore'[e] /\ edgeSemaphore'[e] # 0
       /\ \A u \in Tasks : Closing(u, e)' => edgeConnections'[e] = {}
  BY <1>4, <1>13, <1>18 DEF EdgeInv
<1> QED
  BY <1>13, <1>16, <1>17, <1>18, <1>19, <1>20 DEF EdgeInv

\* The connection that was made is listed for its edge.
LEMMA IndexOwn ==
  ASSUME ConnTypes, ConnTypes', NEW t \in Tasks, IndexConnection(t), NEW e \in Edges, e = kloc[t].edge, EdgeInv(e)
  PROVE  EdgeInv(e)'
<1>0. ConnMapTypes /\ e \in Edges
  BY CallTypes DEF ConnTypes
<1>1. /\ kpc[t] = "index" /\ edgeConnections' = [edgeConnections EXCEPT ![e] = @ \cup {kloc[t].id}]
      /\ KGoto(t, "held", kloc[t])
      /\ UNCHANGED <<connections, connEdge, edgeSemaphore, edgePermits>>
  BY DEF IndexConnection, permitVars
<1>2. /\ kpc'[t] = "held" /\ kloc'[t] = kloc[t]
      /\ \A u \in Tasks : u # t => kpc'[u] = kpc[u] /\ kloc'[u] = kloc[u]
  BY <1>1, EdgeMoves
<1>3. \A u \in Tasks : kloc'[u] = kloc[u] /\ (Creating(u, e)' => Creating(u, e)) /\ (Closing(u, e)' => Closing(u, e))
  BY <1>1, <1>2 DEF Creating, Closing
<1>4. \A u \in Tasks : \A i : /\ (u # t /\ Indexes(u, e, i) => Indexes(u, e, i)')
                               /\ (Closes(u, e, i) => Closes(u, e, i)')
  BY <1>1, <1>2 DEF Indexes, Closes
<1>5. edgeConnections'[e] = edgeConnections[e] \cup {kloc[t].id} /\ \A i : Indexes(t, e, i) => i = kloc[t].id
  BY <1>0, <1>1 DEF Indexes, ConnMapTypes
<1>6. LiveOf(e)' = LiveOf(e) /\ Inserting(e)' = Inserting(e)
  BY <1>1, <1>2 DEF LiveOf, Live, Inserting
<1>7. Creating(t, e) /\ EdgeInv(e)
  BY <1>1 DEF Creating
<1>8. \A u \in Tasks : ~Closing(u, e)
  BY <1>7 DEF EdgeInv
<1>9. \A i \in LiveOf(e)' : i \in edgeConnections'[e] \/ \E u \in Tasks : Indexes(u, e, i)' \/ Closes(u, e, i)'
  BY <1>4, <1>5, <1>6, <1>7 DEF EdgeInv
<1>10. edgeSemaphore'[e] # 0
  BY <1>1, <1>7 DEF EdgeInv
<1> QED
  BY <1>1, <1>3, <1>6, <1>7, <1>8, <1>9, <1>10 DEF EdgeInv

\* close_edge takes the connections that are listed, when no acquire is under way.
LEMMA CloseOwn ==
  ASSUME ConnTypes, ConnTypes', NEW t \in Tasks, NEW e \in Edges, CloseEdge(t, e), EdgeInv(e), e \notin straddled'
  PROVE  EdgeInv(e)'
<1> DEFINE work == [NoCall EXCEPT !.edge = e, !.ids = edgeConnections[e]]
<1>0. ConnMapTypes
  BY DEF ConnTypes
<1>1. /\ kpc[t] = "idle" /\ edgeConnections' = [edgeConnections EXCEPT ![e] = {}]
      /\ KGoto(t, "close", work)
      /\ UNCHANGED <<connections, connEdge, edgeSemaphore, edgePermits>>
      /\ \A u \in Tasks : ~Creating(u, e)
  BY DEF CloseEdge, permitVars
<1>2. work.edge = e /\ work.ids = edgeConnections[e]
  BY DEF NoCall
<1> HIDE DEF work
<1>3. /\ kpc'[t] = "close" /\ kloc'[t] = work
      /\ \A u \in Tasks : u # t => kpc'[u] = kpc[u] /\ kloc'[u] = kloc[u]
  BY <1>1, EdgeMoves
<1>4. \A u \in Tasks : ~Creating(u, e)'
  BY <1>1, <1>3 DEF Creating
<1>5. \A u \in Tasks : \A i : (Indexes(u, e, i) => Indexes(u, e, i)') /\ (Closes(u, e, i) => Closes(u, e, i)')
  BY <1>1, <1>3 DEF Indexes, Closes
<1>6. \A i \in edgeConnections[e] : Closes(t, e, i)'
  BY <1>2, <1>3 DEF Closes
<1>7. LiveOf(e)' = LiveOf(e) /\ Inserting(e)' = Inserting(e) /\ edgeConnections'[e] = {}
  BY <1>0, <1>1, <1>3 DEF LiveOf, Live, Inserting, ConnMapTypes
<1> QED
  BY <1>1, <1>4, <1>5, <1>6, <1>7 DEF EdgeInv

\* The semaphore goes when what is left of the edge is with other closes of it.
LEMMA SemaphoreOwn ==
  ASSUME ConnTypes, ConnTypes', NEW t \in Tasks, CloseSemaphore(t), NEW e \in Edges, e = kloc[t].edge, EdgeInv(e)
  PROVE  EdgeInv(e)'
<1>0. ConnMapTypes /\ e \in Edges
  BY CallTypes DEF ConnTypes
<1>1. /\ kpc[t] = "close_semaphore" /\ edgeSemaphore' = [edgeSemaphore EXCEPT ![e] = 0]
      /\ KGoto(t, "idle", NoCall)
      /\ UNCHANGED <<connections, connEdge, edgeConnections, edgePermits>>
  BY DEF CloseSemaphore, connMaps
<1>2. /\ kpc'[t] = "idle"
      /\ \A u \in Tasks : u # t => kpc'[u] = kpc[u] /\ kloc'[u] = kloc[u]
  BY <1>1, EdgeMoves
<1>3. Closing(t, e) /\ EdgeInv(e)
  BY <1>1 DEF Closing
<1>4. edgeConnections[e] = {} /\ \A u \in Tasks : ~Creating(u, e)
  BY <1>3 DEF EdgeInv
<1>5. \A u \in Tasks : ~Creating(u, e)' /\ \A i : ~Indexes(u, e, i)
  BY <1>2, <1>4 DEF Creating, Indexes
<1>6. \A u \in Tasks : \A i : Closes(u, e, i) => Closes(u, e, i)'
  BY <1>1, <1>2 DEF Closes
<1>7. LiveOf(e)' = LiveOf(e) /\ edgeSemaphore'[e] = 0 /\ edgeConnections'[e] = {}
  BY <1>0, <1>1, <1>4 DEF LiveOf, Live, ConnMapTypes
<1>8. \A i \in LiveOf(e) : \E u \in Tasks : Closes(u, e, i)'
  BY <1>3, <1>4, <1>5, <1>6 DEF EdgeInv
<1> QED
  BY <1>3, <1>5, <1>7, <1>8 DEF EdgeInv

\* A call that meets no close finds the semaphore of the edge, or makes one when the
\* edge has no connection.
LEMMA TotalOwn ==
  ASSUME ConnTypes, ConnTypes', NEW t \in Tasks, TotalPermit(t), NEW e \in Edges, e = kloc[t].edge,
         EdgeInv(e), e \notin straddled'
  PROVE  EdgeInv(e)'
<1> DEFINE s == edgeSemaphore[e]
           new == Len(edgePermits) + 1
<1>0. /\ ConnMapTypes /\ e \in Edges /\ kloc[t] \in Calls /\ edgePermits \in Seq(Nat)
      /\ s \in Nat /\ Len(edgePermits) \in Nat /\ MaxPerEdge \in Nat
  BY CallTypes, EdgePermitsType, ConnectionAssumption DEF ConnTypes, ConnMapTypes
<1>1. /\ kpc[t] = "total_permit" /\ UNCHANGED <<connections, connEdge, edgeConnections>>
      /\ \A u \in Tasks : ~Closing(u, e)
  BY DEF TotalPermit, Straddles, connMaps
<1>2. PICK m : /\ KGoto(t, "edge_permit", [kloc[t] EXCEPT !.sem = m])
               /\ \/ /\ s = 0 /\ m = new /\ edgeSemaphore' = [edgeSemaphore EXCEPT ![e] = new]
                     /\ edgePermits' = Append(edgePermits, MaxPerEdge)
                  \/ s # 0 /\ m = s /\ UNCHANGED <<edgeSemaphore, edgePermits>>
  <2>1. CASE s = 0
    <3>1. /\ KGoto(t, "edge_permit", [kloc[t] EXCEPT !.sem = new]) /\ edgeSemaphore' = [edgeSemaphore EXCEPT ![e] = new]
          /\ edgePermits' = Append(edgePermits, MaxPerEdge)
      BY <2>1 DEF TotalPermit
    <3> QED
      BY <2>1, <3>1, Zenon
  <2>2. CASE s # 0
    <3>1. KGoto(t, "edge_permit", [kloc[t] EXCEPT !.sem = s]) /\ UNCHANGED <<edgeSemaphore, edgePermits>>
      BY <2>2 DEF TotalPermit
    <3> QED
      BY <2>2, <3>1, Zenon
  <2> QED
    BY <2>1, <2>2
<1> DEFINE work == [kloc[t] EXCEPT !.sem = m]
<1>3. work.edge = e /\ work.sem = m
  BY <1>0 DEF Calls
<1> HIDE DEF work
<1>4. /\ kpc'[t] = "edge_permit" /\ kloc'[t] = work
      /\ \A u \in Tasks : u # t => kpc'[u] = kpc[u] /\ kloc'[u] = kloc[u]
  BY <1>2, EdgeMoves DEF work
<1>5. \A u \in Tasks : ~Closing(u, e)'
  BY <1>1, <1>4 DEF Closing
<1>6. \A u \in Tasks : \A i : (Indexes(u, e, i) => Indexes(u, e, i)') /\ ~Closes(u, e, i)
  BY <1>1, <1>4 DEF Indexes, Closes, Closing
<1>7. LiveOf(e)' = LiveOf(e) /\ Inserting(e)' = Inserting(e) /\ edgeConnections'[e] = edgeConnections[e] /\ EdgeInv(e)
  BY <1>1, <1>4 DEF LiveOf, Live, Inserting
<1>8. \A i \in LiveOf(e)' : i \in edgeConnections'[e] \/ \E u \in Tasks : Indexes(u, e, i)' \/ Closes(u, e, i)'
  BY <1>6, <1>7 DEF EdgeInv
<1>9. \A u \in Tasks : Creating(u, e)' => u = t \/ (Creating(u, e) /\ kloc'[u] = kloc[u])
  BY <1>4 DEF Creating
<1>10. /\ edgeSemaphore'[e] = m /\ m # 0
       /\ \A u \in Tasks : Creating(u, e)' => kloc'[u].sem = m
  <2>1. CASE s # 0
    <3>1. edgeSemaphore'[e] = s /\ m = s
      BY <1>2, <2>1
    <3>2. \A u \in Tasks : Creating(u, e) => kloc[u].sem = s
      BY <1>7 DEF EdgeInv
    <3> QED
      BY <1>3, <1>4, <1>9, <2>1, <3>1, <3>2
  <2>2. CASE s = 0
    <3>1. edgeSemaphore'[e] = new /\ m = new
      BY <1>0, <1>2, <2>2 DEF ConnMapTypes
    <3>2. \A u \in Tasks : ~Creating(u, e)
      BY <1>7, <2>2 DEF EdgeInv
    <3> QED
      BY <1>0, <1>3, <1>4, <1>9, <3>1, <3>2
  <2> QED
    BY <2>1, <2>2
<1>11. /\ edgePermits'[m] + Cardinality(Inserting(e)') + Cardinality(LiveOf(e)') <= MaxPerEdge
       /\ Cardinality(LiveOf(e)') <= MaxPerEdge
  <2>1. CASE s # 0
    BY <1>2, <1>7, <2>1 DEF EdgeInv
  <2>2. CASE s = 0
    <3>1. m = new /\ edgePermits' = Append(edgePermits, MaxPerEdge)
      BY <1>2, <2>2
    <3>2. edgePermits'[m] = MaxPerEdge
      BY <1>0, <3>1
    <3>3. LiveOf(e) = {}
      BY <1>6, <1>7, <2>2 DEF EdgeInv
    <3>4. Inserting(e) = {}
      BY <1>7, <2>2 DEF EdgeInv, Inserting, Creating
    <3> QED
      BY <1>0, <1>7, <3>2, <3>3, <3>4, FS_EmptySet
  <2> QED
    BY <2>1, <2>2
<1> QED
  BY <1>5, <1>8, <1>10, <1>11 DEF EdgeInv

\* Every step keeps the limits.
LEMMA LimitPreserved == LimitInv /\ TotalInv' /\ [ConnectionNext]_connVars => LimitInv'
<1> SUFFICES ASSUME LimitInv, TotalInv', [ConnectionNext]_connVars PROVE LimitInv'
  OBVIOUS
<1>0. ConnTypes /\ ConnTypes' /\ TotalInv
  BY ConnTypesPreserved DEF LimitInv
<1>1. CASE UNCHANGED connVars
  <2>1. ASSUME NEW e \in Edges \ straddled' PROVE EdgeInv(e)'
    <3>1. EdgeInv(e) /\ UNCHANGED <<connections, connEdge, edgeConnections, edgeSemaphore, edgePermits, kpc, kloc>>
      BY <1>1 DEF LimitInv, connVars
    <3>2. LiveOf(e)' = LiveOf(e) /\ Inserting(e)' = Inserting(e)
      BY <3>1 DEF LiveOf, Live, Inserting
    <3> QED
      BY <3>1, <3>2 DEF EdgeInv, Creating, Closing, Indexes, Closes
  <2> QED
    BY <1>0, <2>1 DEF LimitInv
<1>2. ASSUME NEW t \in Tasks,
             PoolStep(t) \/ TimeOut(t) \/ ReleaseConnection(t) \/ \E e \in Edges : Acquire(t, e) \/ CloseEdge(t, e)
      PROVE  LimitInv'
  <2>1. ASSUME NEW e \in Edges, e \notin straddled' PROVE EdgeInv(e)'
    <3>1. straddled \subseteq straddled'
      BY <1>2 DEF PoolStep, PopIdle, TakeIdle, NoIdle, TotalPermit, EdgePermit, InsertConnection, IndexConnection,
                  CloseConnection, CloseIdle, CloseSemaphore, TimeOut, ReleaseConnection, Acquire, CloseEdge, Straddles
    <3>2. EdgeInv(e)
      BY <2>1, <3>1 DEF LimitInv
    <3>3. CASE \/ PopIdle(t) \/ TakeIdle(t) \/ NoIdle(t) \/ TimeOut(t) \/ ReleaseConnection(t)
               \/ CloseConnection(t) \/ CloseIdle(t) \/ \E f \in Edges : Acquire(t, f)
      BY <1>0, <3>2, <3>3, EdgeQuietSteps
    <3>4. CASE TotalPermit(t) \/ EdgePermit(t) \/ InsertConnection(t) \/ IndexConnection(t) \/ CloseSemaphore(t)
      <4>1. CASE kloc[t].edge = e
        BY <1>0, <2>1, <3>2, <3>4, <4>1, TotalOwn, EdgePermitOwn, InsertOwn, IndexOwn, SemaphoreOwn
      <4>2. CASE kloc[t].edge # e
        BY <1>0, <3>2, <3>4, <4>2, EdgeApart
      <4> QED
        BY <4>1, <4>2
    <3>5. CASE \E f \in Edges : CloseEdge(t, f)
      <4>1. PICK f \in Edges : CloseEdge(t, f)
        BY <3>5
      <4>2. CASE f = e
        BY <1>0, <2>1, <3>2, <4>1, <4>2, CloseOwn
      <4>3. CASE f # e
        <5>1. kpc[t] = "idle"
          BY <4>1 DEF CloseEdge
        <5> QED
          BY <1>0, <3>2, <4>1, <4>3, <5>1, EdgeApart
      <4> QED
        BY <4>2, <4>3
    <3> QED
      BY <1>2, <3>3, <3>4, <3>5 DEF PoolStep
  <2> QED
    BY <1>0, <2>1 DEF LimitInv
<1> QED
  BY <1>1, <1>2 DEF ConnectionNext

\* For any number of tasks and edges and any limits, the pool has at most
\* max_total_connections connections, and an edge that was not closed under an
\* acquire at most max_connections_per_edge, whatever acquires, timeouts, releases
\* and closes do at the same time.
THEOREM ConnectionsWithinLimits == ConnectionInit /\ [][ConnectionNext]_connVars => []ConnectionLimits
<1>1. LimitInv => ConnectionLimits
  <2> SUFFICES ASSUME LimitInv PROVE ConnectionLimits
    OBVIOUS
  <2>1. \A e \in Edges \ straddled : Cardinality({i \in Live : connEdge[i] = e}) <= MaxPerEdge
    BY DEF LimitInv, EdgeInv, LiveOf
  <2>2. /\ totalPermits + Cardinality(Paying) + nextConn = MaxTotal + 1 /\ \A i \in Live : i < nextConn
        /\ totalPermits \in Nat /\ Cardinality(Paying) \in Nat /\ nextConn \in Nat \ {0} /\ MaxTotal \in Nat
    BY CountedFinite, ConnectionAssumption DEF LimitInv, TotalInv, ConnTypes, ConnMapTypes, Counted
  <2>3. Live \in SUBSET (1 .. nextConn - 1)
    BY <2>2 DEF Live, ConnIds
  <2>4. nextConn - 1 \in Int /\ 1 \in Int
    BY <2>2
  <2>5. IsFiniteSet(1 .. nextConn - 1) /\ Cardinality(1 .. nextConn - 1) <= nextConn - 1
    <3>1. /\ IsFiniteSet(1 .. nextConn - 1)
          /\ Cardinality(1 .. nextConn - 1) = IF 1 > nextConn - 1 THEN 0 ELSE (nextConn - 1) - 1 + 1
      BY <2>4, FS_Interval
    <3> QED
      BY <2>2, <3>1
  <2>6. Cardinality(Live) <= Cardinality(1 .. nextConn - 1)
    BY <2>3, <2>5, FS_Subset
  <2>7. Cardinality(Live) \in Nat /\ Cardinality(1 .. nextConn - 1) \in Nat
    BY <2>5, CountedFinite, FS_CardinalityType DEF Counted
  <2>8. Cardinality(Live) <= MaxTotal
    BY <2>2, <2>5, <2>6, <2>7
  <2> QED
    BY <2>1, <2>8 DEF ConnectionLimits
<1>2. LimitInv /\ [ConnectionNext]_connVars => TotalInv'
  <2> SUFFICES ASSUME LimitInv, [ConnectionNext]_connVars PROVE TotalInv'
    OBVIOUS
  <2>0. ConnTypes /\ ConnTypes' /\ TotalInv
    BY ConnTypesPreserved DEF LimitInv
  <2>1. CASE UNCHANGED connVars
    <3>1. Paying' = Paying /\ Live' = Live /\ UNCHANGED <<totalPermits, nextConn>>
      BY <2>1 DEF Paying, Live, connVars
    <3> QED
      BY <2>0, <3>1 DEF TotalInv
  <2>2. CASE ConnectionNext
    BY <2>0, <2>2, TotalKept DEF ConnectionNext
  <2> QED
    BY <2>1, <2>2
<1> QED
  BY <1>1, <1>2, LimitInitial, LimitPreserved, PTL

=============================================================================
