--------------------------- MODULE RecoveryProofs ---------------------------
(* What the fencing manager and the recovery coordinator guarantee together, for *)
(* any number of nodes, agents and threads.                                      *)
EXTENDS Recovery, SequenceTheorems, TLAPS

-----------------------------------------------------------------------------
(* The fencing manager *)

AtWork == {"exec_insert", "exec_try", "exec_ok"}
FenceLabels == {"idle", "request", "exec_next"} \cup AtWork
FenceTasks == [node : FenceNodes \cup {NoFenceNode}, todo : SUBSET FenceNodes, left : Int]

FencingTypes ==
  /\ fence \in [FenceNodes -> FenceStates]
  /\ pending \subseteq FenceNodes /\ accepted \subseteq FenceNodes
  /\ holds \in [Agents -> SUBSET FenceNodes]
  /\ fpc \in [Fencers -> FenceLabels]
  /\ floc \in [Fencers -> FenceTasks]

\* What a thread has in hand at each point of its call.
TaskAtLabel ==
  \A t \in Fencers :
    /\ fpc[t] \in {"idle", "exec_next"} => floc[t].node = NoFenceNode
    /\ fpc[t] \in AtWork \cup {"request"} => floc[t].node \in FenceNodes
    /\ fpc[t] \in {"idle", "request"} => floc[t].todo = {}

\* A node that an agent holds in spite of a record that says Released is in the
\* hands of the thread that had it fenced again and will say so.
OutcomeComes ==
  /\ \A t \in Fencers : (fpc[t] = "exec_ok" /\ floc[t].node \notin interfered) => Held(floc[t].node)
  /\ \A n \in FenceNodes : (fence[n] = "Fenced" /\ n \notin interfered) => Held(n)
  /\ \A n \in FenceNodes : (fence[n] = "Released" /\ Held(n)) =>
       \E t \in Fencers : fpc[t] = "exec_ok" /\ floc[t].node = n

FencingInv == FencingTypes /\ TaskAtLabel /\ NoLostRequest /\ OutcomeComes

\* Nothing is fenced at the start.
LEMMA FencingInitial == FencingInit => FencingInv
BY DEF FencingInit, FencingInv, FencingTypes, TaskAtLabel, NoLostRequest, OutcomeComes, FenceStates,
   FenceLabels, FenceTasks, AtWork, NoTask, Held

\* The fencing manager is left alone.
LEMMA FencingStays == FencingInv /\ UNCHANGED fencingVars => FencingInv'
BY DEF FencingInv, fencingVars, FencingTypes, TaskAtLabel, NoLostRequest, OutcomeComes, Held, Busy

\* release_node drops the record and the agent's fence together.
LEMMA ReleaseKeepsFencing ==
  ASSUME FencingInv, NEW n \in FenceNodes, ReleaseNode(n), UNCHANGED <<pending, fpc, floc, accepted>>
  PROVE  FencingInv'
<1> USE DEF FencingInv
<1>1. PICK done \in SUBSET {a \in Agents : n \in holds[a]} :
        /\ LetGo(n, done)
        /\ fence' = IF \A a \in Agents : n \in holds[a] => a \in done
                    THEN [fence EXCEPT ![n] = "Released"] ELSE fence
  BY DEF ReleaseNode
<1>2. holds' = [a \in Agents |-> IF a \in done THEN holds[a] \ {n} ELSE holds[a]]
      /\ interfered' = IF Busy(n) THEN interfered \cup {n} ELSE interfered
  BY <1>1 DEF LetGo
<1>3. FencingTypes'
  BY <1>1, <1>2 DEF FencingTypes, FenceStates
<1>4. TaskAtLabel'
  BY DEF TaskAtLabel
<1>5. /\ \A m \in FenceNodes : m # n => fence'[m] = fence[m]
      /\ fence'[n] \in {fence[n], "Released"} /\ fence[n] # "None"
  BY <1>1 DEF FencingTypes, ReleaseNode
<1>6. NoLostRequest'
  BY <1>5 DEF NoLostRequest, Busy, FencingTypes
<1>7. \A m \in FenceNodes : m # n => (Held(m)' <=> Held(m))
  BY <1>2 DEF Held, FencingTypes
<1>8. fence'[n] = fence[n] \/ (~Held(n)' /\ fence'[n] = "Released")
  BY <1>1, <1>2 DEF Held, FencingTypes
<1>9. Held(n)' => Held(n)
  BY <1>2 DEF Held, FencingTypes
<1>10. fence'[n] # "Released" => Held(n)' \/ fence[n] # "Fenced"
  <2>1. CASE \A a \in Agents : n \in holds[a] => a \in done
    BY <1>1, <2>1 DEF FencingTypes
  <2>2. CASE ~ \A a \in Agents : n \in holds[a] => a \in done
    BY <1>2, <2>2 DEF Held, FencingTypes
  <2> QED
    BY <2>1, <2>2
<1>11. OutcomeComes'
  <2>1. ASSUME NEW t \in Fencers, fpc[t] = "exec_ok", floc[t].node \notin interfered'
        PROVE  Held(floc[t].node)'
    <3>1. floc[t].node \in FenceNodes /\ floc[t].node # n /\ floc[t].node \notin interfered
      BY <1>2, <2>1 DEF Busy, TaskAtLabel, AtWork
    <3> QED
      BY <1>7, <2>1, <3>1 DEF OutcomeComes
  <2>2. ASSUME NEW m \in FenceNodes, fence'[m] = "Fenced", m \notin interfered' PROVE Held(m)'
    <3>1. fence[m] = "Fenced" /\ m \notin interfered
      BY <1>2, <1>5, <2>2
    <3> QED
      BY <1>7, <1>10, <2>2, <3>1 DEF OutcomeComes
  <2>3. ASSUME NEW m \in FenceNodes, fence'[m] = "Released", Held(m)'
        PROVE  \E t \in Fencers : fpc[t] = "exec_ok" /\ floc[t].node = m
    BY <1>5, <1>7, <1>8, <1>9, <2>3 DEF OutcomeComes
  <2> QED
    BY <2>1, <2>2, <2>3 DEF OutcomeComes
<1> QED
  BY <1>3, <1>4, <1>6, <1>11

\* No step of the fencing manager disturbs its invariant.
LEMMA FencingPreserved ==
  ASSUME FencingInv, FencingNext
  PROVE  FencingInv'
<1> USE DEF FencingInv
<1>0. NoFenceNode \notin FenceNodes /\ NoTask \in FenceTasks /\ NoTask.node = NoFenceNode /\ NoTask.todo = {}
  BY FencingConstants DEF NoTask, FenceTasks
<1>1. ASSUME NEW t \in Fencers, NEW n \in FenceNodes, Request(t, n) PROVE FencingInv'
  <2> DEFINE task == [NoTask EXCEPT !.node = n]
  <2>1. task \in FenceTasks /\ task.node = n /\ task.todo = {}
    BY DEF NoTask, FenceTasks
  <2>2. fpc' = [fpc EXCEPT ![t] = "request"] /\ floc' = [floc EXCEPT ![t] = task] /\ fpc[t] = "idle"
        /\ UNCHANGED <<fence, pending, holds, accepted, interfered>>
    BY <1>1 DEF Request, FGoto
  <2> HIDE DEF task
  <2>3. FencingTypes' /\ TaskAtLabel'
    BY <2>1, <2>2 DEF FencingTypes, TaskAtLabel, FenceLabels, AtWork
  <2>4. NoLostRequest'
    BY <1>0, <2>1, <2>2 DEF NoLostRequest, Busy, TaskAtLabel, FencingTypes
  <2>5. OutcomeComes'
    BY <2>1, <2>2 DEF OutcomeComes, FencingTypes, Held
  <2> QED
    BY <2>3, <2>4, <2>5
<1>2. ASSUME NEW t \in Fencers, RequestInsert(t) PROVE FencingInv'
  <2>1. fpc' = [fpc EXCEPT ![t] = "idle"] /\ floc' = [floc EXCEPT ![t] = NoTask] /\ fpc[t] = "request"
        /\ pending' = pending \cup {floc[t].node} /\ accepted' = accepted \cup {floc[t].node}
        /\ UNCHANGED <<fence, holds, interfered>>
    BY <1>2 DEF RequestInsert, FGoto
  <2>2. FencingTypes' /\ TaskAtLabel'
    BY <1>0, <2>1 DEF FencingTypes, TaskAtLabel, FenceLabels, AtWork
  <2>3. NoLostRequest'
    BY <1>0, <2>1 DEF NoLostRequest, Busy, TaskAtLabel, FencingTypes
  <2>4. OutcomeComes'
    BY <2>1 DEF OutcomeComes, FencingTypes, Held
  <2> QED
    BY <2>2, <2>3, <2>4
<1>3. ASSUME NEW t \in Fencers, ExecuteStart(t) PROVE FencingInv'
  <2> DEFINE task == [NoTask EXCEPT !.todo = pending]
  <2>1. task \in FenceTasks /\ task.node = NoFenceNode /\ task.todo = pending
    BY DEF NoTask, FenceTasks, FencingTypes
  <2>2. fpc' = [fpc EXCEPT ![t] = "exec_next"] /\ floc' = [floc EXCEPT ![t] = task] /\ fpc[t] = "idle"
        /\ UNCHANGED <<fence, pending, holds, accepted, interfered>>
    BY <1>3 DEF ExecuteStart, FGoto
  <2> HIDE DEF task
  <2>3. FencingTypes' /\ TaskAtLabel'
    BY <2>1, <2>2 DEF FencingTypes, TaskAtLabel, FenceLabels, AtWork
  <2>4. NoLostRequest'
    BY <1>0, <2>1, <2>2 DEF NoLostRequest, Busy, TaskAtLabel, FencingTypes
  <2>5. OutcomeComes'
    BY <2>1, <2>2 DEF OutcomeComes, FencingTypes, Held
  <2> QED
    BY <2>3, <2>4, <2>5
<1>4. ASSUME NEW t \in Fencers, NEW n \in FenceNodes, ExecuteTake(t, n) PROVE FencingInv'
  <2> DEFINE task == [floc[t] EXCEPT !.node = n, !.todo = @ \ {n}]
  <2>1. task \in FenceTasks /\ task.node = n /\ task.todo = floc[t].todo \ {n}
    BY DEF FenceTasks, FencingTypes
  <2>2. fpc' = [fpc EXCEPT ![t] = "exec_insert"] /\ floc' = [floc EXCEPT ![t] = task]
        /\ pending' = pending \ {n} /\ fpc[t] = "exec_next"
        /\ UNCHANGED <<fence, holds, accepted, interfered>>
    BY <1>4 DEF ExecuteTake, FGoto
  <2> HIDE DEF task
  <2>3. FencingTypes' /\ TaskAtLabel'
    BY <2>1, <2>2 DEF FencingTypes, TaskAtLabel, FenceLabels, AtWork
  <2>4. NoLostRequest'
    BY <1>0, <2>1, <2>2 DEF NoLostRequest, Busy, TaskAtLabel, FencingTypes
  <2>5. OutcomeComes'
    BY <2>1, <2>2 DEF OutcomeComes, FencingTypes, Held
  <2> QED
    BY <2>3, <2>4, <2>5
<1>5. ASSUME NEW t \in Fencers, ExecuteInsert(t) PROVE FencingInv'
  <2>1. PICK actions \in {1, ChainLength} :
          fpc' = [fpc EXCEPT ![t] = "exec_try"]
          /\ floc' = [floc EXCEPT ![t] = [floc[t] EXCEPT !.left = actions * FenceRetries]]
    BY <1>5 DEF ExecuteInsert, FGoto
  <2> DEFINE task == [floc[t] EXCEPT !.left = actions * FenceRetries]
  <2>2. task \in FenceTasks /\ task.node = floc[t].node /\ task.todo = floc[t].todo
    <3>1. actions * FenceRetries \in Int
      BY <2>1, FencingConstants
    <3> QED
      BY <3>1 DEF FenceTasks, FencingTypes
  <2>3. fence' = [fence EXCEPT ![floc[t].node] = "InProgress"] /\ fpc[t] = "exec_insert"
        /\ floc' = [floc EXCEPT ![t] = task] /\ UNCHANGED <<pending, holds, accepted, interfered>>
    BY <1>5, <2>1 DEF ExecuteInsert
  <2> HIDE DEF task
  <2>4. FencingTypes' /\ TaskAtLabel'
    BY <2>1, <2>2, <2>3 DEF FencingTypes, TaskAtLabel, FenceLabels, AtWork, FenceStates
  <2>5. NoLostRequest'
    BY <2>1, <2>2, <2>3 DEF NoLostRequest, Busy, TaskAtLabel, FencingTypes, AtWork
  <2>6. OutcomeComes'
    BY <2>1, <2>2, <2>3 DEF OutcomeComes, FencingTypes, Held
  <2> QED
    BY <2>4, <2>5, <2>6
<1>6. ASSUME NEW t \in Fencers, NEW a \in Agents, TryOk(t, a) PROVE FencingInv'
  <2>1. fpc' = [fpc EXCEPT ![t] = "exec_ok"] /\ floc' = floc /\ fpc[t] = "exec_try"
        /\ holds' = [holds EXCEPT ![a] = @ \cup {floc[t].node}]
        /\ UNCHANGED <<fence, pending, accepted, interfered>>
    BY <1>6 DEF TryOk, FGoto, FencingTypes
  <2>2. floc[t].node \in FenceNodes
    BY <2>1 DEF TaskAtLabel, AtWork
  <2>3. FencingTypes' /\ TaskAtLabel'
    BY <2>1, <2>2 DEF FencingTypes, TaskAtLabel, FenceLabels, AtWork
  <2>4. NoLostRequest'
    BY <2>1 DEF NoLostRequest, Busy
  <2>5. Held(floc[t].node)' /\ \A m \in FenceNodes : m # floc[t].node => (Held(m)' <=> Held(m))
    BY <2>1, <2>2 DEF Held, FencingTypes
  <2>6. \A u \in Fencers : fpc'[u] = "exec_ok" => u = t \/ (u # t /\ fpc[u] = "exec_ok" /\ floc[u].node \in FenceNodes)
    BY <2>1 DEF FencingTypes, TaskAtLabel, AtWork
  <2>7. fpc'[t] = "exec_ok" /\ \A u \in Fencers : fpc[u] = "exec_ok" => fpc'[u] = "exec_ok"
    BY <2>1 DEF FencingTypes
  <2>8. OutcomeComes'
    BY <2>1, <2>2, <2>5, <2>6, <2>7 DEF OutcomeComes
  <2> QED
    BY <2>3, <2>4, <2>8
<1>7. ASSUME NEW t \in Fencers, TryFails(t) PROVE FencingInv'
  <2> DEFINE task == [floc[t] EXCEPT !.left = @ - 1]
  <2>1. task \in FenceTasks /\ task.node = floc[t].node /\ task.todo = floc[t].todo
    BY DEF FenceTasks, FencingTypes
  <2>2. fpc' = [fpc EXCEPT ![t] = "exec_try"] /\ floc' = [floc EXCEPT ![t] = task] /\ fpc[t] = "exec_try"
        /\ UNCHANGED <<fence, pending, holds, accepted, interfered>>
    BY <1>7 DEF TryFails, FGoto
  <2> HIDE DEF task
  <2>3. FencingTypes' /\ TaskAtLabel'
    BY <2>1, <2>2 DEF FencingTypes, TaskAtLabel, FenceLabels, AtWork
  <2>4. NoLostRequest'
    BY <2>1, <2>2 DEF NoLostRequest, Busy, FencingTypes
  <2>5. OutcomeComes'
    BY <2>1, <2>2 DEF OutcomeComes, FencingTypes, Held
  <2> QED
    BY <2>3, <2>4, <2>5
<1>8. ASSUME NEW t \in Fencers, NEW label \in {"exec_ok", "exec_try"}, NEW outcome \in {"Fenced", "Failed"},
             Outcome(t, label, outcome), outcome = "Fenced" => label = "exec_ok"
      PROVE  FencingInv'
  <2> DEFINE task == [NoTask EXCEPT !.todo = floc[t].todo]
  <2>1. task \in FenceTasks /\ task.node = NoFenceNode /\ task.todo = floc[t].todo
    BY DEF FenceTasks, FencingTypes, NoTask
  <2>2. fpc' = [fpc EXCEPT ![t] = "exec_next"] /\ floc' = [floc EXCEPT ![t] = task] /\ fpc[t] = label
        /\ fence' = [fence EXCEPT ![floc[t].node] = outcome]
        /\ UNCHANGED <<pending, holds, accepted, interfered>>
    BY <1>8 DEF Outcome, FGoto
  <2> HIDE DEF task
  <2>3. floc[t].node \in FenceNodes
    BY <2>2 DEF TaskAtLabel, AtWork
  <2>4. FencingTypes' /\ TaskAtLabel'
    BY <2>1, <2>2 DEF FencingTypes, TaskAtLabel, FenceLabels, AtWork, FenceStates
  <2>5. NoLostRequest'
    BY <2>1, <2>2, <2>3 DEF NoLostRequest, Busy, FencingTypes
  <2>6. OutcomeComes'
    <3>1. \A m \in FenceNodes : Held(m)' <=> Held(m)
      BY <2>2 DEF Held
    <3>2. /\ \A m \in FenceNodes : m # floc[t].node => fence'[m] = fence[m]
          /\ fence'[floc[t].node] = outcome
      BY <2>2, <2>3 DEF FencingTypes
    <3>3. \A u \in Fencers : fpc'[u] = "exec_ok" =>
             u # t /\ fpc[u] = "exec_ok" /\ floc'[u] = floc[u] /\ floc[u].node \in FenceNodes
      BY <2>2 DEF FencingTypes, TaskAtLabel, AtWork
    <3>4. \A u \in Fencers : u # t => fpc'[u] = fpc[u] /\ floc'[u] = floc[u]
      BY <2>2 DEF FencingTypes
    <3>5. ASSUME NEW m \in FenceNodes, fence'[m] = "Fenced", m \notin interfered PROVE Held(m)
      BY <1>8, <2>2, <2>3, <3>2, <3>5 DEF OutcomeComes
    <3>6. ASSUME NEW m \in FenceNodes, fence'[m] = "Released", Held(m)
          PROVE  \E u \in Fencers : fpc'[u] = "exec_ok" /\ floc'[u].node = m
      <4>1. m # floc[t].node /\ fence[m] = "Released"
        BY <3>2, <3>6
      <4> QED
        BY <3>4, <3>6, <4>1 DEF OutcomeComes
    <3> QED
      BY <2>2, <3>1, <3>3, <3>5, <3>6 DEF OutcomeComes
  <2> QED
    BY <2>4, <2>5, <2>6
<1>9. ASSUME NEW t \in Fencers, ExecuteDone(t) PROVE FencingInv'
  <2>1. fpc' = [fpc EXCEPT ![t] = "idle"] /\ floc' = [floc EXCEPT ![t] = NoTask] /\ fpc[t] = "exec_next"
        /\ floc[t].todo = {} /\ UNCHANGED <<fence, pending, holds, accepted, interfered>>
    BY <1>9 DEF ExecuteDone, FGoto
  <2>2. FencingTypes' /\ TaskAtLabel'
    BY <1>0, <2>1 DEF FencingTypes, TaskAtLabel, FenceLabels, AtWork
  <2>3. NoLostRequest'
    BY <1>0, <2>1 DEF NoLostRequest, Busy, TaskAtLabel, FencingTypes
  <2>4. OutcomeComes'
    BY <2>1 DEF OutcomeComes, FencingTypes, Held
  <2> QED
    BY <2>2, <2>3, <2>4
<1>10. ASSUME NEW t \in Fencers, NEW n \in FenceNodes, Release(t, n) PROVE FencingInv'
  BY <1>10, ReleaseKeepsFencing DEF Release
<1>11. ASSUME NEW t \in Fencers, ExecuteFenced(t) \/ ExecuteFailed(t) PROVE FencingInv'
  BY <1>8, <1>11 DEF ExecuteFenced, ExecuteFailed
<1> HIDE DEF FencingInv
<1> QED
  BY <1>1, <1>2, <1>3, <1>4, <1>5, <1>6, <1>7, <1>9, <1>10, <1>11 DEF FencingNext, FencingStep, Execute

\* Every step of the composition is a step of the fencing manager, the release
\* of one node by the coordinator, or leaves the fencing manager alone.
LEMMA RecoveryKeepsFencing ==
  ASSUME FencingInv, [FailoverNext]_failoverVars
  PROVE  FencingInv'
<1>1. ASSUME UNCHANGED fencingVars PROVE FencingInv'
  BY <1>1, FencingStays
<1>2. ASSUME NEW t \in Recoverers, NEW n \in FenceNodes, ReleaseFence(t, n) \/ ReleaseFails(t, n) PROVE FencingInv'
  <2>1. (ReleaseNode(n) /\ UNCHANGED <<pending, fpc, floc, accepted>>) \/ UNCHANGED fencingVars
    BY <1>2 DEF ReleaseFence, ReleaseFails, fencingVars
  <2> QED
    BY <1>1, <2>1, ReleaseKeepsFencing
<1>3. ASSUME NEW t \in Recoverers, RecoveryStep(t) PROVE FencingInv'
  BY <1>1, <1>2, <1>3 DEF RecoveryStep, Work, StartRecovery, StartStore, ExecutePlan, LogStep, LoopStep, NodeLoopEnds,
     QuiesceNode, SyncToNode, ResumeNode, ResolveConflicts, Cleanup, CleanupQuiesced, PlanDone, PlanCleared, CancelState,
     CancelPlan, CancelQuiesced
<1>4. ASSUME NEW k \in Keys, NEW pair \in Clashes, AddConflict(k, pair) PROVE FencingInv'
  BY <1>1, <1>4 DEF AddConflict
<1> QED
  BY <1>1, <1>3, <1>4, FencingPreserved DEF FailoverNext, failoverVars

\* The fencing invariant holds in every reachable state of the coordinator and
\* the manager.
LEMMA FencingHolds == FailoverSpec => []FencingInv
BY FencingInitial, RecoveryKeepsFencing, PTL DEF FailoverSpec, FailoverInit

\* No accepted request to fence a node is lost (request_fence, execute_pending),
\* also when two threads execute the same snapshot.
THEOREM RequestsKept == FailoverSpec => []NoLostRequest
<1>1. FencingInv => NoLostRequest
  BY DEF FencingInv
<1> QED
  BY <1>1, FencingHolds, PTL

\* What a record says of a node is true of the agents once no thread is at work on
\* it (execute_pending, release_node), with the releases of the coordinator.
THEOREM RecordsTrue == FailoverSpec => []RecordTellsTruth
<1>1. FencingInv => RecordTellsTruth
  BY DEF FencingInv, OutcomeComes, RecordTellsTruth, Busy
<1> QED
  BY <1>1, FencingHolds, PTL

-----------------------------------------------------------------------------
(* The recovery coordinator.  The steps of a plan come in a fixed order, and      *)
(* every plan ends with Cleanup: a thread that has stopped our writes has the     *)
(* step before it that clears the set.                                            *)

StepNames == {"ReleaseFences", "QuiesceWrites", "CollectEpochs", "CompareVersions", "ResolveConflicts",
              "SyncData", "VerifyChecksums", "ResumeWrites", "Cleanup"}
Rank == [s \in StepNames |->
  CASE s = "ReleaseFences"    -> 1 [] s = "QuiesceWrites"   -> 2 [] s = "CollectEpochs" -> 3
    [] s = "CompareVersions"  -> 4 [] s = "ResolveConflicts" -> 5 [] s = "SyncData"     -> 6
    [] s = "VerifyChecksums"  -> 7 [] s = "ResumeWrites"    -> 8 [] s = "Cleanup"       -> 9]

Includes(steps, step) == \E i \in 1 .. Len(steps) : steps[i] = step
AllAfter(steps, r)    == \A i \in 1 .. Len(steps) : Rank[steps[i]] > r
Stopped(steps)        == steps # <<>> /\ AllAfter(steps, 2)

InOrder(steps) ==
  /\ steps \in Seq(StepNames)
  /\ \A i, j \in 1 .. Len(steps) : i < j => Rank[steps[i]] < Rank[steps[j]]
  /\ steps # <<>> => steps[Len(steps)] = "Cleanup"
  /\ Includes(steps, "ReleaseFences") => Includes(steps, "QuiesceWrites")

\* The order in which build_recovery_steps appends the steps.
LEMMA Ranks ==
  /\ Rank["ReleaseFences"] = 1 /\ Rank["QuiesceWrites"] = 2 /\ Rank["CollectEpochs"] = 3
  /\ Rank["CompareVersions"] = 4 /\ Rank["ResolveConflicts"] = 5 /\ Rank["SyncData"] = 6
  /\ Rank["VerifyChecksums"] = 7 /\ Rank["ResumeWrites"] = 8 /\ Rank["Cleanup"] = 9
  /\ \A s \in StepNames : Rank[s] \in 1 .. 9
BY DEF Rank, StepNames

\* A part of a plan, with the ranks of its steps in R.
Part(steps, R) ==
  /\ steps \in Seq(StepNames)
  /\ \A i \in 1 .. Len(steps) : Rank[steps[i]] \in R
  /\ \A i, j \in 1 .. Len(steps) : i < j => Rank[steps[i]] < Rank[steps[j]]

\* Two parts of a plan whose steps come in order make a plan in order.
LEMMA JoinParts ==
  ASSUME NEW s, NEW t, NEW Q, NEW R, \A q \in Q, r \in R : q < r, Part(s, Q), Part(t, R)
  PROVE  /\ Part(s \o t, Q \cup R)
         /\ \A step : Includes(s \o t, step) <=> Includes(s, step) \/ Includes(t, step)
         /\ t # <<>> => s \o t # <<>> /\ (s \o t)[Len(s \o t)] = t[Len(t)]
<1> DEFINE m == Len(s) n == Len(t) u == s \o t
<1>1. s \in Seq(StepNames) /\ t \in Seq(StepNames) /\ m \in Nat /\ n \in Nat
  BY DEF Part
<1>2. u \in Seq(StepNames) /\ Len(u) = m + n
      /\ (\A i \in 1 .. m : u[i] = s[i]) /\ (\A i \in 1 .. n : u[m + i] = t[i])
  BY <1>1
<1>3. t # <<>> => n > 0
  BY <1>1
<1>4. \A i \in 1 .. m : Rank[s[i]] \in Q
  BY DEF Part
<1>5. \A i \in 1 .. n : Rank[t[i]] \in R
  BY DEF Part
<1>6. \A i, j \in 1 .. m : i < j => Rank[s[i]] < Rank[s[j]]
  BY DEF Part
<1>7. \A i, j \in 1 .. n : i < j => Rank[t[i]] < Rank[t[j]]
  BY DEF Part
<1> HIDE DEF m, n, u
<1>8. \A i \in 1 .. Len(u) : i \in 1 .. m \/ (i - m \in 1 .. n /\ u[i] = t[i - m])
  <2> SUFFICES ASSUME NEW i \in 1 .. Len(u), i \notin 1 .. m PROVE i - m \in 1 .. n /\ u[i] = t[i - m]
    OBVIOUS
  <2>1. i - m \in 1 .. n /\ m + (i - m) = i
    BY <1>1, <1>2
  <2> QED
    BY <1>2, <2>1
<1>9. \A i \in 1 .. Len(u) : Rank[u[i]] \in Q \cup R
  <2> TAKE i \in 1 .. Len(u)
  <2>1. CASE i \in 1 .. m
    BY <1>2, <1>4, <2>1
  <2>2. CASE i - m \in 1 .. n /\ u[i] = t[i - m]
    BY <1>5, <2>2
  <2> QED
    BY <1>8, <2>1, <2>2
<1>10. \A i, j \in 1 .. Len(u) : i < j => Rank[u[i]] < Rank[u[j]]
  <2> SUFFICES ASSUME NEW i \in 1 .. Len(u), NEW j \in 1 .. Len(u), i < j PROVE Rank[u[i]] < Rank[u[j]]
    OBVIOUS
  <2>1. CASE i \in 1 .. m /\ j \in 1 .. m
    BY <1>2, <1>6, <2>1
  <2>2. CASE i \in 1 .. m /\ j \notin 1 .. m
    <3>1. Rank[u[i]] \in Q
      BY <1>2, <1>4, <2>2
    <3>2. Rank[u[j]] \in R
      BY <1>5, <1>8, <2>2
    <3> QED
      BY <3>1, <3>2
  <2>3. CASE i \notin 1 .. m
    <3>1. i - m \in 1 .. n /\ u[i] = t[i - m] /\ j - m \in 1 .. n /\ u[j] = t[j - m]
      BY <1>1, <1>2, <1>8, <2>3
    <3>2. i - m < j - m
      BY <1>1, <1>2
    <3> QED
      BY <1>7, <3>1, <3>2
  <2> QED
    BY <2>1, <2>2, <2>3
<1>11. \A step : Includes(u, step) <=> Includes(s, step) \/ Includes(t, step)
  <2>1. ASSUME NEW step, Includes(u, step) PROVE Includes(s, step) \/ Includes(t, step)
    BY <1>2, <1>8, <2>1 DEF Includes, m, n
  <2>2. ASSUME NEW step, Includes(s, step) PROVE Includes(u, step)
    <3>1. PICK i \in 1 .. m : s[i] = step
      BY <2>2 DEF Includes, m
    <3>2. i \in 1 .. Len(u)
      BY <1>1, <1>2
    <3> QED
      BY <1>2, <3>1, <3>2 DEF Includes
  <2>3. ASSUME NEW step, Includes(t, step) PROVE Includes(u, step)
    <3>1. PICK i \in 1 .. n : t[i] = step
      BY <2>3 DEF Includes, n
    <3>2. m + i \in 1 .. Len(u)
      BY <1>1, <1>2
    <3> QED
      BY <1>2, <3>1, <3>2 DEF Includes
  <2> QED
    BY <2>1, <2>2, <2>3
<1>12. t # <<>> => u # <<>> /\ u[Len(u)] = t[n]
  <2> SUFFICES ASSUME t # <<>> PROVE u # <<>> /\ u[Len(u)] = t[n]
    OBVIOUS
  <2>1. n \in 1 .. n /\ Len(u) > 0
    BY <1>1, <1>2, <1>3
  <2> QED
    BY <1>2, <2>1
<1> QED
  BY <1>2, <1>9, <1>10, <1>11, <1>12 DEF Part, m, n, u

\* Every plan that start_recovery makes is in order and stops the writes.
LEMMA BuiltInOrder ==
  ASSUME NEW sync
  PROVE  InOrder(BuildSteps(sync)) /\ Includes(BuildSteps(sync), "QuiesceWrites")
<1> DEFINE first  == IF sync = {} THEN <<>> ELSE <<"ReleaseFences">>
           second == <<"QuiesceWrites", "CollectEpochs", "CompareVersions", "ResolveConflicts", "SyncData">>
           third  == IF VerifyChecksums THEN <<"VerifyChecksums">> ELSE <<>>
           last   == <<"ResumeWrites", "Cleanup">>
           A == {1}  B == 2 .. 6  C == {7}  D == {8, 9}
           AB == A \cup B  ABC == AB \cup C  ABCD == ABC \cup D
<1>1. Part(<<>>, A) /\ Part(<<>>, C) /\ Part(<<"ReleaseFences">>, A) /\ Part(<<"VerifyChecksums">>, C)
  BY Ranks DEF Part, StepNames
<1>2. Part(first, A) /\ Part(third, C)
  BY <1>1
<1>3. Part(second, B)
  BY Ranks DEF Part, StepNames
<1>4. Part(last, D)
  BY Ranks DEF Part, StepNames
<1>5. Includes(second, "QuiesceWrites") /\ last # <<>> /\ last[Len(last)] = "Cleanup"
  BY DEF Includes
<1>6. BuildSteps(sync) = first \o second \o third \o last
  BY DEF BuildSteps
<1>7. (\A q \in A, r \in B : q < r) /\ (\A q \in AB, r \in C : q < r) /\ (\A q \in ABC, r \in D : q < r)
  OBVIOUS
<1> HIDE DEF first, second, third, last, A, B, C, D
<1> DEFINE fs == first \o second  fst == fs \o third  all == fst \o last
<1>8. Part(fs, AB) /\ Includes(fs, "QuiesceWrites")
  BY <1>2, <1>3, <1>5, <1>7, JoinParts
<1> HIDE DEF fs, AB
<1>9. Part(fst, ABC) /\ Includes(fst, "QuiesceWrites")
  BY <1>2, <1>7, <1>8, JoinParts
<1> HIDE DEF fst, ABC
<1>10. Part(all, ABCD) /\ Includes(all, "QuiesceWrites") /\ all[Len(all)] = "Cleanup"
  BY <1>4, <1>5, <1>7, <1>9, JoinParts
<1>11. BuildSteps(sync) = all
  BY <1>6 DEF fst, fs
<1> HIDE DEF ABCD, all
<1> QED
  BY <1>10, <1>11 DEF Part, InOrder

\* The empty plan.
LEMMA NoStepsInOrder == InOrder(<<>>) /\ \A step : ~Includes(<<>>, step)
BY DEF InOrder, Includes

\* What is left of a plan once its first step is taken.
LEMMA TailInOrder ==
  ASSUME NEW steps, InOrder(steps), steps # <<>>
  PROVE  /\ Head(steps) \in StepNames
         /\ InOrder(Tail(steps)) /\ AllAfter(Tail(steps), Rank[Head(steps)])
         /\ Tail(steps) = <<>> <=> Head(steps) = "Cleanup"
         /\ \A step : Includes(steps, step) <=> Head(steps) = step \/ Includes(Tail(steps), step)
         /\ Stopped(steps) <=> Rank[Head(steps)] > 2
<1>1. steps \in Seq(StepNames) /\ Len(steps) \in Nat /\ Len(steps) > 0 /\ Head(steps) = steps[1]
  BY DEF InOrder
<1> DEFINE rest == Tail(steps)
<1>2. rest \in Seq(StepNames) /\ Len(rest) = Len(steps) - 1 /\ \A i \in 1 .. Len(rest) : rest[i] = steps[i + 1]
  BY <1>1
<1> HIDE DEF rest
<1>3. \A i \in 1 .. Len(steps) : i = 1 \/ (i - 1 \in 1 .. Len(rest) /\ rest[i - 1] = steps[i])
  BY <1>1, <1>2
<1>4. AllAfter(rest, Rank[Head(steps)])
  BY <1>1, <1>2 DEF AllAfter, InOrder
<1>5. \A step : Includes(steps, step) <=> Head(steps) = step \/ Includes(rest, step)
  BY <1>1, <1>2, <1>3 DEF Includes
<1>6. rest = <<>> <=> Len(steps) = 1
  BY <1>1, <1>2
<1>7. rest = <<>> <=> Head(steps) = "Cleanup"
  <2>1. ASSUME rest = <<>> PROVE Head(steps) = "Cleanup"
    BY <1>1, <1>6, <2>1 DEF InOrder
  <2>2. ASSUME Head(steps) = "Cleanup", Len(steps) # 1 PROVE FALSE
    <3> DEFINE l == Len(steps)
    <3>0. l \in Nat /\ l > 0 /\ l # 1
      BY <1>1, <2>2
    <3> HIDE DEF l
    <3>00. 1 \in 1 .. l /\ l \in 1 .. l /\ 1 < l
      BY <3>0
    <3>1. steps[Len(steps)] = "Cleanup" /\ Rank[steps[1]] < Rank[steps[Len(steps)]]
      BY <3>00 DEF InOrder, l
    <3> QED
      BY <1>1, <2>2, <3>1, Ranks
  <2> QED
    BY <1>6, <2>1, <2>2
<1>8. ~Includes(rest, "ReleaseFences")
  <2>1. Rank[Head(steps)] \in 1 .. 9
    BY <1>1, Ranks DEF InOrder
  <2> QED
    BY <1>4, <2>1, Ranks DEF AllAfter, Includes
<1>9. InOrder(rest)
  <2>1. ASSUME NEW i \in 1 .. Len(rest), NEW j \in 1 .. Len(rest), i < j PROVE Rank[rest[i]] < Rank[rest[j]]
    <3>1. i + 1 \in 1 .. Len(steps) /\ j + 1 \in 1 .. Len(steps) /\ i + 1 < j + 1
      BY <1>1, <1>2, <2>1
    <3>2. Rank[steps[i + 1]] < Rank[steps[j + 1]]
      BY <3>1 DEF InOrder
    <3> QED
      BY <1>2, <3>2
  <2>2. rest # <<>> => rest[Len(rest)] = "Cleanup"
    BY <1>1, <1>2, <1>6 DEF InOrder
  <2> QED
    BY <1>2, <1>8, <2>1, <2>2 DEF InOrder
<1>10. Stopped(steps) <=> Rank[Head(steps)] > 2
  <2>1. Stopped(steps) => Rank[Head(steps)] > 2
    BY <1>1 DEF Stopped, AllAfter
  <2>2. ASSUME Rank[Head(steps)] > 2, NEW i \in 1 .. Len(steps) PROVE Rank[steps[i]] > 2
    <3>1. steps[i] \in StepNames /\ steps[1] \in StepNames /\ 1 \in 1 .. Len(steps)
      BY <1>1
    <3>2. Rank[steps[i]] \in Int /\ Rank[steps[1]] \in Int
      BY <3>1, Ranks
    <3>3. i = 1 \/ Rank[steps[1]] < Rank[steps[i]]
      BY <1>1, <3>1 DEF InOrder
    <3> QED
      BY <1>1, <2>2, <3>2, <3>3
  <2> QED
    BY <2>1, <2>2 DEF Stopped, AllAfter
<1> QED
  BY <1>1, <1>4, <1>5, <1>7, <1>9, <1>10 DEF rest

RecoveryLabels == {"idle", "store", "next", "release", "quiesce", "sync", "resume", "cleanup",
                   "complete", "cancel_plan", "cancel_quiesced", "overflow"}
Plans == [ours : SUBSET FenceNodes, sync : SUBSET FenceNodes, steps : Seq(StepNames), todo : SUBSET FenceNodes]

StoredPlan == plan \in Plans /\ InOrder(plan.steps)
              /\ (plan.steps # <<>> => Includes(plan.steps, "QuiesceWrites"))

\* The steps that a thread has before it, by where it is in the plan.
Ahead(label, p) ==
  /\ InOrder(p.steps)
  /\ label = "store" \/ label = "release" => Includes(p.steps, "QuiesceWrites")
  /\ label = "quiesce" => Stopped(p.steps)
  /\ label = "resume" => AllAfter(p.steps, 8)
  /\ label = "cleanup" => p.steps = <<>>

\* A thread that will clear the set of quiesced nodes.
WillClear(label, p) ==
  \/ label \in {"cancel_quiesced", "cleanup"}
  \/ label \in {"next", "quiesce", "sync", "resume"} /\ Stopped(p.steps)

\* Our nodes are quiesced from the end of QuiesceWrites to the end of SyncData.
SyncSafe(label, p, q) ==
  /\ label = "quiesce" => p.ours \ p.todo \subseteq q
  /\ label = "sync" => p.ours \subseteq q
  /\ label = "next" /\ Stopped(p.steps) /\ Includes(p.steps, "SyncData") => p.ours \subseteq q

RecoveryTypes ==
  /\ rpc \in [Recoverers -> RecoveryLabels] /\ rloc \in [Recoverers -> Plans]
  /\ quiesced \subseteq FenceNodes /\ overlapped \in BOOLEAN
PlansAhead   == \A t \in Recoverers : Ahead(rpc[t], rloc[t])
\* resolve_conflict comes back under these strategies; under the others a thread may
\* stay in the middle of its plan for ever.
ResolveReturns == Strategy \in {"LastWriteWins", "KeepBoth"}

SomeoneClears ==
  ResolveReturns => quiesced = {} \/ \E t \in Recoverers : WillClear(rpc[t], rloc[t])
OneByOne ==
  ~overlapped => /\ \A t, u \in Recoverers : t # u => rpc[t] = "idle" \/ rpc[u] = "idle"
                 /\ \A t \in Recoverers : SyncSafe(rpc[t], rloc[t], quiesced)

RecoveryInv == RecoveryTypes /\ StoredPlan /\ PlansAhead /\ SomeoneClears /\ OneByOne

\* The empty plan and the idle coordinator.
LEMMA NoPlanFacts == NoPlan \in Plans /\ NoPlan.steps = <<>> /\ Ahead("idle", NoPlan)
<1>1. NoPlan \in Plans /\ NoPlan.steps = <<>>
  BY DEF NoPlan, Plans
<1> QED
  BY <1>1, NoStepsInOrder DEF Ahead

\* There is no plan at the start.
LEMMA RecoveryInitial == FailoverInit => RecoveryInv
<1> SUFFICES ASSUME RecoveryInit PROVE RecoveryInv
  BY DEF FailoverInit
<1>1. RecoveryTypes /\ StoredPlan
  BY NoPlanFacts, NoStepsInOrder DEF RecoveryInit, RecoveryTypes, StoredPlan, RecoveryLabels
<1>2. PlansAhead /\ SomeoneClears
  BY NoPlanFacts DEF RecoveryInit, PlansAhead, SomeoneClears
<1>3. OneByOne
  BY DEF RecoveryInit, OneByOne, SyncSafe
<1> QED
  BY <1>1, <1>2, <1>3 DEF RecoveryInv

\* A step of one thread keeps the invariant if its plan stays in order, if it does
\* not walk away from nodes it was to clear, and if its own sync stays safe.
LEMMA ThreadStep ==
  ASSUME RecoveryInv, NEW t \in Recoverers, NEW label \in RecoveryLabels, NEW p \in Plans,
         RGoto(t, label, p), StoredPlan', quiesced' \subseteq FenceNodes,
         Ahead(label, p),
         \/ quiesced' = {}
         \/ WillClear(label, p)
         \/ quiesced' \subseteq quiesced /\ ~WillClear(rpc[t], rloc[t])
         \/ ~ResolveReturns,
         SyncSafe(rpc[t], rloc[t], quiesced) => SyncSafe(label, p, quiesced')
  PROVE  RecoveryInv'
<1>1. RecoveryTypes /\ PlansAhead /\ SomeoneClears /\ OneByOne
  BY DEF RecoveryInv
<1>2. rpc' = [rpc EXCEPT ![t] = label] /\ rloc' = [rloc EXCEPT ![t] = p]
      /\ overlapped' = (overlapped \/ \E u \in Recoverers \ {t} : rpc[u] # "idle")
  BY DEF RGoto
<1>3. /\ rpc'[t] = label /\ rloc'[t] = p
      /\ \A u \in Recoverers : u # t => rpc'[u] = rpc[u] /\ rloc'[u] = rloc[u]
  BY <1>1, <1>2 DEF RecoveryTypes
<1>4. RecoveryTypes'
  BY <1>1, <1>2 DEF RecoveryTypes
<1>5. PlansAhead'
  BY <1>1, <1>3 DEF PlansAhead
<1>6. SomeoneClears'
  BY <1>1, <1>3 DEF SomeoneClears
<1>7. OneByOne'
  <2> SUFFICES ASSUME ~overlapped'
               PROVE  /\ \A u, v \in Recoverers : u # v => rpc'[u] = "idle" \/ rpc'[v] = "idle"
                      /\ \A u \in Recoverers : SyncSafe(rpc'[u], rloc'[u], quiesced')
    BY DEF OneByOne
  <2>1. ~overlapped /\ \A u \in Recoverers : u # t => rpc'[u] = "idle"
    BY <1>2, <1>3
  <2>2. \A u \in Recoverers : u # t => SyncSafe(rpc'[u], rloc'[u], quiesced')
    BY <2>1 DEF SyncSafe
  <2>3. SyncSafe(rpc'[t], rloc'[t], quiesced')
    BY <1>1, <1>3, <2>1 DEF OneByOne
  <2> QED
    BY <2>1, <2>2, <2>3
<1> QED
  BY <1>4, <1>5, <1>6, <1>7 DEF RecoveryInv

\* What a thread has in hand once it has begun a step of its plan.
LEMMA Begun ==
  ASSUME RecoveryInv, NEW t \in Recoverers, NEW step, NEW label, NEW targets \in SUBSET FenceNodes,
         StepBegins(t, step, label, targets)
  PROVE  /\ rpc[t] = "next"
         /\ Stopped(rloc[t].steps) <=> Rank[step] > 2
         /\ \E p \in Plans :
              /\ RGoto(t, label, p)
              /\ p.ours = rloc[t].ours /\ p.todo = targets
              /\ InOrder(p.steps) /\ AllAfter(p.steps, Rank[step])
              /\ p.steps = <<>> <=> step = "Cleanup"
              /\ \A s : Includes(rloc[t].steps, s) <=> step = s \/ Includes(p.steps, s)
<1> DEFINE old == rloc[t]
           p == [old EXCEPT !.steps = Tail(@), !.todo = targets]
<1>1. old \in Plans /\ InOrder(old.steps)
  BY DEF RecoveryInv, RecoveryTypes, PlansAhead, Ahead
<1>2. rpc[t] = "next" /\ old.steps # <<>> /\ Head(old.steps) = step /\ RGoto(t, label, p)
  BY DEF StepBegins
<1>3. /\ InOrder(Tail(old.steps)) /\ AllAfter(Tail(old.steps), Rank[step])
      /\ Tail(old.steps) = <<>> <=> step = "Cleanup"
      /\ \A s : Includes(old.steps, s) <=> step = s \/ Includes(Tail(old.steps), s)
      /\ Stopped(old.steps) <=> Rank[step] > 2
  BY <1>1, <1>2, TailInOrder
<1>4. p \in Plans /\ p.ours = old.ours /\ p.todo = targets /\ p.steps = Tail(old.steps)
  <2>1. Tail(old.steps) \in Seq(StepNames)
    BY <1>3 DEF InOrder
  <2> QED
    BY <1>1, <2>1 DEF Plans
<1> HIDE DEF p
<1>5. /\ RGoto(t, label, p) /\ p.ours = old.ours /\ p.todo = targets
      /\ InOrder(p.steps) /\ AllAfter(p.steps, Rank[step])
      /\ p.steps = <<>> <=> step = "Cleanup"
      /\ \A s : Includes(old.steps, s) <=> step = s \/ Includes(p.steps, s)
  BY <1>2, <1>3, <1>4
<1> QED
  BY <1>2, <1>3, <1>4, <1>5

\* A plan that goes on after a step past QuiesceWrites still ends with Cleanup.
LEMMA StillStopped ==
  ASSUME NEW steps, NEW r \in Nat, r >= 2, AllAfter(steps, r), steps \in Seq(StepNames), steps # <<>>
  PROVE  Stopped(steps)
<1>1. \A i \in 1 .. Len(steps) : Rank[steps[i]] \in Int
  BY Ranks
<1> QED
  BY <1>1 DEF Stopped, AllAfter

\* The steps that only go on to the next one.
LEMMA PassStep ==
  ASSUME RecoveryInv, NEW t \in Recoverers,
         NEW step \in {"CollectEpochs", "CompareVersions", "VerifyChecksums", "ResolveConflicts"},
         StepBegins(t, step, "next", {}), UNCHANGED <<plan, quiesced>>
  PROVE  RecoveryInv'
<1>1. PICK p \in Plans : /\ RGoto(t, "next", p) /\ p.ours = rloc[t].ours
                         /\ InOrder(p.steps) /\ AllAfter(p.steps, Rank[step])
                         /\ p.steps # <<>>
                         /\ Includes(p.steps, "SyncData") => Includes(rloc[t].steps, "SyncData")
  BY Begun
<1>2. rpc[t] = "next" /\ Stopped(rloc[t].steps) /\ Stopped(p.steps)
  <2>1. Rank[step] \in Nat /\ Rank[step] > 2
    BY Ranks
  <2>2. rpc[t] = "next" /\ (Stopped(rloc[t].steps) <=> Rank[step] > 2)
    BY Begun
  <2> QED
    BY <1>1, <2>1, <2>2, StillStopped DEF InOrder
<1>3. StoredPlan' /\ quiesced' \subseteq FenceNodes
  BY DEF StoredPlan, RecoveryInv, RecoveryTypes
<1>4. Ahead("next", p) /\ WillClear("next", p)
  BY <1>1, <1>2 DEF Ahead, WillClear
<1>5. SyncSafe(rpc[t], rloc[t], quiesced) => SyncSafe("next", p, quiesced')
  BY <1>1, <1>2 DEF SyncSafe
<1> QED
  BY <1>1, <1>3, <1>4, <1>5, ThreadStep DEF RecoveryLabels

\* execute_plan takes the next step of its copy of the plan.
LEMMA LoopStepStays == ASSUME RecoveryInv, NEW t \in Recoverers, LoopStep(t) PROVE RecoveryInv'
<1>0. rloc[t] \in Plans /\ UNCHANGED <<plan, quiesced>>
  BY DEF RecoveryInv, RecoveryTypes, LoopStep
<1>1. StoredPlan' /\ quiesced' \subseteq FenceNodes
  BY <1>0 DEF StoredPlan, RecoveryInv, RecoveryTypes
<1>2. rloc[t].sync \in SUBSET FenceNodes /\ rloc[t].ours \in SUBSET FenceNodes
  BY <1>0 DEF Plans
<1>3. CASE StepBegins(t, "ReleaseFences", "release", rloc[t].sync)
  <2>1. PICK p \in Plans : /\ RGoto(t, "release", p) /\ InOrder(p.steps)
                           /\ \A s : Includes(rloc[t].steps, s) <=> "ReleaseFences" = s \/ Includes(p.steps, s)
    BY <1>2, <1>3, Begun
  <2>2. rpc[t] = "next" /\ ~Stopped(rloc[t].steps)
    BY <1>2, <1>3, Begun, Ranks
  <2>3. Includes(p.steps, "QuiesceWrites")
    BY <2>1 DEF RecoveryInv, PlansAhead, Ahead, InOrder
  <2>4. Ahead("release", p) /\ ~WillClear(rpc[t], rloc[t]) /\ SyncSafe("release", p, quiesced')
    BY <2>1, <2>2, <2>3 DEF Ahead, WillClear, SyncSafe
  <2> QED
    BY <1>0, <1>1, <2>1, <2>4, ThreadStep DEF RecoveryLabels
<1>4. CASE StepBegins(t, "QuiesceWrites", "quiesce", rloc[t].ours)
  <2>1. PICK p \in Plans : /\ RGoto(t, "quiesce", p) /\ InOrder(p.steps) /\ AllAfter(p.steps, 2)
                           /\ p.ours = rloc[t].ours /\ p.todo = rloc[t].ours /\ p.steps # <<>>
    BY <1>2, <1>4, Begun, Ranks
  <2>2. Stopped(p.steps)
    BY <2>1 DEF Stopped
  <2>3. Ahead("quiesce", p) /\ WillClear("quiesce", p) /\ SyncSafe("quiesce", p, quiesced')
    BY <2>1, <2>2 DEF Ahead, WillClear, SyncSafe
  <2> QED
    BY <1>0, <1>1, <2>1, <2>3, ThreadStep DEF RecoveryLabels
<1>5. CASE StepBegins(t, "SyncData", "sync", rloc[t].sync)
  <2>1. PICK p \in Plans : /\ RGoto(t, "sync", p) /\ InOrder(p.steps) /\ AllAfter(p.steps, 6)
                           /\ p.ours = rloc[t].ours /\ p.steps # <<>>
    BY <1>2, <1>5, Begun, Ranks
  <2>2. rpc[t] = "next" /\ Stopped(rloc[t].steps) /\ Includes(rloc[t].steps, "SyncData")
    BY <1>2, <1>5, Begun, Ranks
  <2>3. Stopped(p.steps)
    BY <2>1, StillStopped DEF InOrder
  <2>4. Ahead("sync", p) /\ WillClear("sync", p)
        /\ (SyncSafe(rpc[t], rloc[t], quiesced) => SyncSafe("sync", p, quiesced'))
    BY <1>0, <2>1, <2>2, <2>3 DEF Ahead, WillClear, SyncSafe
  <2> QED
    BY <1>0, <1>1, <2>1, <2>4, ThreadStep DEF RecoveryLabels
<1>6. CASE StepBegins(t, "ResumeWrites", "resume", rloc[t].ours)
  <2>1. PICK p \in Plans : /\ RGoto(t, "resume", p) /\ InOrder(p.steps) /\ AllAfter(p.steps, 8)
                           /\ p.steps # <<>>
    BY <1>2, <1>6, Begun, Ranks
  <2>2. Stopped(p.steps)
    BY <2>1, StillStopped DEF InOrder
  <2>3. Ahead("resume", p) /\ WillClear("resume", p) /\ SyncSafe("resume", p, quiesced')
    BY <2>1, <2>2 DEF Ahead, WillClear, SyncSafe
  <2> QED
    BY <1>0, <1>1, <2>1, <2>3, ThreadStep DEF RecoveryLabels
<1> QED
  BY <1>3, <1>4, <1>5, <1>6 DEF LoopStep

\* One turn of a loop over nodes.
LEMMA Visited ==
  ASSUME RecoveryInv, NEW t \in Recoverers, NEW label, NEW n, Visit(t, label, n)
  PROVE  /\ rpc[t] = label /\ n \in FenceNodes /\ Ahead(label, rloc[t])
         /\ \E p \in Plans : /\ RGoto(t, label, p) /\ p.ours = rloc[t].ours
                             /\ p.steps = rloc[t].steps /\ p.todo = rloc[t].todo \ {n}
<1> DEFINE p == [rloc[t] EXCEPT !.todo = @ \ {n}]
<1>1. rloc[t] \in Plans /\ Ahead(rpc[t], rloc[t])
  BY DEF RecoveryInv, RecoveryTypes, PlansAhead
<1>2. p \in Plans /\ p.ours = rloc[t].ours /\ p.steps = rloc[t].steps /\ p.todo = rloc[t].todo \ {n}
  BY <1>1 DEF Plans
<1>3. rpc[t] = label /\ n \in rloc[t].todo /\ RGoto(t, label, p)
  BY DEF Visit
<1>4. n \in FenceNodes
  BY <1>1, <1>3 DEF Plans
<1> HIDE DEF p
<1> QED
  BY <1>1, <1>2, <1>3, <1>4

\* A step of the plan visits one node.
LEMMA VisitStays ==
  ASSUME RecoveryInv, NEW t \in Recoverers, NEW n \in FenceNodes,
         ReleaseFence(t, n) \/ QuiesceNode(t, n) \/ SyncToNode(t, n) \/ ResumeNode(t, n)
  PROVE  RecoveryInv'
<1>0. quiesced \subseteq FenceNodes /\ StoredPlan
  BY DEF RecoveryInv, RecoveryTypes
<1>1. ASSUME NEW label \in {"release", "sync"}, Visit(t, label, n), UNCHANGED <<plan, quiesced>>
      PROVE  RecoveryInv'
  <2>1. PICK p \in Plans : RGoto(t, label, p) /\ p.ours = rloc[t].ours /\ p.steps = rloc[t].steps
    BY <1>1, Visited
  <2>2. rpc[t] = label /\ Ahead(label, rloc[t])
    BY <1>1, Visited
  <2>3. Ahead(label, p) /\ (WillClear(rpc[t], rloc[t]) => WillClear(label, p))
        /\ (SyncSafe(rpc[t], rloc[t], quiesced) => SyncSafe(label, p, quiesced'))
    BY <1>1, <2>1, <2>2 DEF Ahead, WillClear, SyncSafe
  <2>4. StoredPlan' /\ quiesced' \subseteq FenceNodes /\ quiesced' \subseteq quiesced
    BY <1>0, <1>1 DEF StoredPlan
  <2> QED
    BY <2>1, <2>3, <2>4, ThreadStep DEF RecoveryLabels
<1>2. CASE QuiesceNode(t, n)
  <2>0. Visit(t, "quiesce", n) /\ quiesced' = quiesced \cup {n} /\ UNCHANGED plan
    BY <1>2 DEF QuiesceNode
  <2>1. PICK p \in Plans : RGoto(t, "quiesce", p) /\ p.ours = rloc[t].ours /\ p.steps = rloc[t].steps
                           /\ p.todo = rloc[t].todo \ {n}
    BY <2>0, Visited
  <2>2. rpc[t] = "quiesce" /\ Ahead("quiesce", rloc[t])
    BY <2>0, Visited
  <2>3. Ahead("quiesce", p) /\ WillClear("quiesce", p)
        /\ (SyncSafe(rpc[t], rloc[t], quiesced) => SyncSafe("quiesce", p, quiesced'))
    BY <2>0, <2>1, <2>2 DEF Ahead, WillClear, SyncSafe
  <2>4. StoredPlan' /\ quiesced' \subseteq FenceNodes
    BY <1>0, <2>0 DEF StoredPlan
  <2> QED
    BY <2>1, <2>3, <2>4, ThreadStep DEF RecoveryLabels
<1>3. CASE ResumeNode(t, n)
  <2>0. Visit(t, "resume", n) /\ quiesced' = quiesced \ {n} /\ UNCHANGED plan
    BY <1>3 DEF ResumeNode
  <2>1. PICK p \in Plans : RGoto(t, "resume", p) /\ p.steps = rloc[t].steps
    BY <2>0, Visited
  <2>2. rpc[t] = "resume" /\ Ahead("resume", rloc[t])
    BY <2>0, Visited
  <2>3. Ahead("resume", p) /\ (WillClear(rpc[t], rloc[t]) => WillClear("resume", p)) /\ SyncSafe("resume", p, quiesced')
    BY <2>1, <2>2 DEF Ahead, WillClear, SyncSafe
  <2>4. StoredPlan' /\ quiesced' \subseteq FenceNodes /\ quiesced' \subseteq quiesced
    BY <1>0, <2>0 DEF StoredPlan
  <2> QED
    BY <2>1, <2>3, <2>4, ThreadStep DEF RecoveryLabels
<1> QED
  BY <1>1, <1>2, <1>3 DEF ReleaseFence, SyncToNode

\* execute_plan has visited every node of a step.
LEMMA LoopEndsStays == ASSUME RecoveryInv, NEW t \in Recoverers, NodeLoopEnds(t) PROVE RecoveryInv'
<1>1. quiesced \subseteq FenceNodes /\ StoredPlan /\ rloc[t] \in Plans /\ Ahead(rpc[t], rloc[t])
  BY DEF RecoveryInv, RecoveryTypes, PlansAhead
<1>2. RGoto(t, "next", rloc[t]) /\ rpc[t] \in {"release", "quiesce", "sync", "resume"} /\ rloc[t].todo = {}
      /\ UNCHANGED <<plan, quiesced>>
  BY DEF NodeLoopEnds
<1>3. StoredPlan' /\ quiesced' \subseteq FenceNodes
  BY <1>1, <1>2 DEF StoredPlan
<1>4. Ahead("next", rloc[t]) /\ (WillClear(rpc[t], rloc[t]) => WillClear("next", rloc[t]))
  BY <1>1, <1>2 DEF Ahead, WillClear
<1>5. SyncSafe(rpc[t], rloc[t], quiesced) => SyncSafe("next", rloc[t], quiesced')
  <2>1. CASE rpc[t] = "release"
    <3>1. ~Stopped(rloc[t].steps)
      BY <1>1, <2>1, Ranks DEF Ahead, Includes, Stopped, AllAfter
    <3> QED
      BY <3>1 DEF SyncSafe
  <2>2. CASE rpc[t] = "resume"
    <3>1. ~Includes(rloc[t].steps, "SyncData")
      BY <1>1, <2>2, Ranks DEF Ahead, Includes, AllAfter
    <3> QED
      BY <3>1 DEF SyncSafe
  <2>3. CASE rpc[t] \in {"quiesce", "sync"}
    BY <1>2, <2>3 DEF SyncSafe
  <2> QED
    BY <1>2, <2>1, <2>2, <2>3
<1> QED
  BY <1>1, <1>2, <1>3, <1>4, <1>5, ThreadStep DEF RecoveryLabels

\* A thread that comes to a place where it has no nodes to stop or to sync.
LEMMA RestStep ==
  ASSUME RecoveryInv, NEW t \in Recoverers, NEW p \in Plans, InOrder(p.steps), StoredPlan',
         NEW label \in {"idle", "complete", "cancel_plan", "cancel_quiesced"}, RGoto(t, label, p),
         quiesced' = {} \/ (UNCHANGED quiesced /\ (~WillClear(rpc[t], rloc[t]) \/ label = "cancel_quiesced"))
  PROVE  RecoveryInv'
<1>1. Ahead(label, p) /\ SyncSafe(label, p, quiesced') /\ (label = "cancel_quiesced" => WillClear(label, p))
  BY DEF Ahead, SyncSafe, WillClear
<1>2. quiesced' \subseteq FenceNodes /\ (UNCHANGED quiesced => quiesced' \subseteq quiesced)
  BY DEF RecoveryInv, RecoveryTypes
<1> QED
  BY <1>1, <1>2, ThreadStep DEF RecoveryLabels

\* The last step forgets the conflicts, then the quiesced nodes.
LEMMA CleanupStays ==
  ASSUME RecoveryInv, NEW t \in Recoverers, Cleanup(t) \/ CleanupQuiesced(t) PROVE RecoveryInv'
<1>0. StoredPlan' /\ quiesced \subseteq FenceNodes
  BY DEF StoredPlan, RecoveryInv, RecoveryTypes, Cleanup, CleanupQuiesced
<1>1. CASE Cleanup(t)
  <2>1. StepBegins(t, "Cleanup", "cleanup", {}) /\ UNCHANGED quiesced
    BY <1>1 DEF Cleanup
  <2>2. PICK p \in Plans : RGoto(t, "cleanup", p) /\ InOrder(p.steps) /\ p.steps = <<>>
    BY <2>1, Begun
  <2>3. Ahead("cleanup", p) /\ SyncSafe("cleanup", p, quiesced') /\ WillClear("cleanup", p)
    BY <2>2 DEF Ahead, SyncSafe, WillClear
  <2> QED
    BY <1>0, <2>1, <2>2, <2>3, ThreadStep DEF RecoveryLabels
<1>2. CASE CleanupQuiesced(t)
  <2>1. RGoto(t, "next", rloc[t]) /\ quiesced' = {} /\ rpc[t] = "cleanup"
    BY <1>2 DEF CleanupQuiesced
  <2>2. rloc[t] \in Plans /\ InOrder(rloc[t].steps) /\ rloc[t].steps = <<>>
    BY <2>1 DEF RecoveryInv, RecoveryTypes, PlansAhead, Ahead
  <2>3. Ahead("next", rloc[t]) /\ SyncSafe("next", rloc[t], quiesced')
    BY <2>2 DEF Ahead, SyncSafe, Stopped
  <2> QED
    BY <1>0, <2>1, <2>2, <2>3, ThreadStep DEF RecoveryLabels
<1> QED
  BY <1>1, <1>2

\* start_recovery makes a plan, and execute_plan copies it.
LEMMA StartStays ==
  ASSUME RecoveryInv, NEW t \in Recoverers,
         \/ ExecutePlan(t) \/ StartStore(t)
         \/ \E ours, others \in SUBSET FenceNodes : StartRecovery(t, ours, others)
  PROVE  RecoveryInv'
<1>0. /\ quiesced \subseteq FenceNodes /\ StoredPlan /\ rloc[t] \in Plans /\ Ahead(rpc[t], rloc[t])
      /\ UNCHANGED quiesced
  BY DEF RecoveryInv, RecoveryTypes, PlansAhead, ExecutePlan, StartStore, StartRecovery
<1>1. CASE ExecutePlan(t)
  <2>1. RGoto(t, "next", plan) /\ UNCHANGED plan /\ rpc[t] = "idle"
    BY <1>1 DEF ExecutePlan
  <2>2. plan \in Plans /\ InOrder(plan.steps) /\ ~Stopped(plan.steps)
    BY <1>0, Ranks DEF StoredPlan, Stopped, Includes, AllAfter
  <2>3. Ahead("next", plan) /\ SyncSafe("next", plan, quiesced') /\ ~WillClear(rpc[t], rloc[t])
    BY <2>1, <2>2 DEF Ahead, SyncSafe, WillClear
  <2>4. StoredPlan' /\ quiesced' \subseteq FenceNodes /\ quiesced' \subseteq quiesced
    BY <1>0, <2>1 DEF StoredPlan
  <2> QED
    BY <2>1, <2>2, <2>3, <2>4, ThreadStep DEF RecoveryLabels
<1>2. CASE StartStore(t)
  <2>1. plan' = rloc[t] /\ RGoto(t, "idle", NoPlan) /\ rpc[t] = "store"
    BY <1>2 DEF StartStore
  <2>2. StoredPlan'
    BY <1>0, <2>1 DEF StoredPlan, Ahead
  <2>3. ~WillClear(rpc[t], rloc[t])
    BY <2>1 DEF WillClear
  <2> QED
    BY <1>0, <2>1, <2>2, <2>3, NoPlanFacts, NoStepsInOrder, RestStep
<1>3. ASSUME NEW ours \in SUBSET FenceNodes, NEW others \in SUBSET FenceNodes, StartRecovery(t, ours, others)
      PROVE  RecoveryInv'
  <2> DEFINE p == [ours |-> ours, sync |-> others, steps |-> BuildSteps(others), todo |-> {}]
  <2>1. RGoto(t, "store", p) /\ UNCHANGED plan /\ rpc[t] = "idle"
    BY <1>3 DEF StartRecovery
  <2>2. InOrder(BuildSteps(others)) /\ Includes(BuildSteps(others), "QuiesceWrites")
    BY BuiltInOrder
  <2>3. p \in Plans /\ p.steps = BuildSteps(others)
    BY <2>2 DEF Plans, InOrder
  <2> HIDE DEF p
  <2>4. Ahead("store", p) /\ SyncSafe("store", p, quiesced') /\ ~WillClear(rpc[t], rloc[t])
    BY <2>1, <2>2, <2>3 DEF Ahead, SyncSafe, WillClear
  <2>5. StoredPlan' /\ quiesced' \subseteq FenceNodes /\ quiesced' \subseteq quiesced
    BY <1>0, <2>1 DEF StoredPlan
  <2> QED
    BY <2>1, <2>3, <2>4, <2>5, ThreadStep DEF RecoveryLabels
<1> QED
  BY <1>1, <1>2, <1>3

\* A plan that is done, cancelled or failed.
LEMMA EndStays ==
  ASSUME RecoveryInv, NEW t \in Recoverers,
         \/ PlanDone(t) \/ PlanCleared(t) \/ CancelState(t) \/ CancelPlan(t) \/ CancelQuiesced(t)
         \/ \E n \in FenceNodes : ReleaseFails(t, n)
  PROVE  RecoveryInv'
<1>0. StoredPlan /\ rloc[t] \in Plans /\ InOrder(rloc[t].steps)
  BY DEF RecoveryInv, RecoveryTypes, PlansAhead, Ahead
<1>1. UNCHANGED plan \/ plan' = NoPlan
  BY DEF PlanDone, PlanCleared, CancelState, CancelPlan, CancelQuiesced, ReleaseFails
<1>2. StoredPlan'
  BY <1>0, <1>1, NoPlanFacts, NoStepsInOrder DEF StoredPlan
<1>3. NoPlan \in Plans /\ InOrder(NoPlan.steps)
  BY NoPlanFacts, NoStepsInOrder
<1>4. CASE PlanDone(t)
  <2>1. RGoto(t, "complete", rloc[t]) /\ UNCHANGED quiesced /\ rpc[t] = "next" /\ rloc[t].steps = <<>>
    BY <1>4 DEF PlanDone
  <2>2. ~WillClear(rpc[t], rloc[t])
    BY <2>1 DEF WillClear, Stopped
  <2> QED
    BY <1>0, <1>2, <2>1, <2>2, RestStep
<1>5. CASE PlanCleared(t) \/ CancelState(t) \/ \E n \in FenceNodes : ReleaseFails(t, n)
  <2>1. /\ RGoto(t, "idle", NoPlan) \/ RGoto(t, "cancel_plan", NoPlan)
        /\ UNCHANGED quiesced /\ rpc[t] \in {"complete", "idle", "release"}
    BY <1>5 DEF PlanCleared, CancelState, ReleaseFails
  <2>2. ~WillClear(rpc[t], rloc[t])
    BY <2>1 DEF WillClear
  <2> QED
    BY <1>2, <1>3, <2>1, <2>2, RestStep
<1>6. CASE CancelPlan(t)
  BY <1>2, <1>3, <1>6, RestStep DEF CancelPlan
<1>7. CASE CancelQuiesced(t)
  <2>1. RGoto(t, "idle", NoPlan) /\ quiesced' = {}
    BY <1>7 DEF CancelQuiesced
  <2>2. Ahead("idle", NoPlan) /\ SyncSafe("idle", NoPlan, quiesced') /\ quiesced' \subseteq FenceNodes
    BY <2>1, NoPlanFacts DEF SyncSafe
  <2> QED
    BY <1>2, <1>3, <2>1, <2>2, ThreadStep DEF RecoveryLabels
<1> QED
  BY <1>4, <1>5, <1>6, <1>7

\* A resolve_conflict that does not come back.
LEMMA OverflowStays ==
  ASSUME RecoveryInv, NEW t \in Recoverers, ResolveConflicts(t), Overflows PROVE RecoveryInv'
<1>1. StepBegins(t, "ResolveConflicts", "overflow", {}) /\ UNCHANGED <<plan, quiesced>> /\ ~ResolveReturns
  BY DEF ResolveConflicts, Overflows, ResolveReturns
<1>2. PICK p \in Plans : RGoto(t, "overflow", p) /\ InOrder(p.steps)
  BY <1>1, Begun
<1>3. Ahead("overflow", p) /\ SyncSafe("overflow", p, quiesced')
  BY <1>2 DEF Ahead, SyncSafe
<1>4. StoredPlan' /\ quiesced' \subseteq FenceNodes
  BY <1>1 DEF StoredPlan, RecoveryInv, RecoveryTypes
<1> QED
  BY <1>1, <1>2, <1>3, <1>4, ThreadStep DEF RecoveryLabels

\* No step of the composition disturbs the coordinator's invariant.
LEMMA RecoveryPreserved ==
  ASSUME RecoveryInv, [FailoverNext]_failoverVars
  PROVE  RecoveryInv'
<1>1. ASSUME UNCHANGED <<plan, quiesced, rpc, rloc, overlapped>> PROVE RecoveryInv'
  BY <1>1 DEF RecoveryInv, RecoveryTypes, StoredPlan, PlansAhead, SomeoneClears, OneByOne
<1>2. ASSUME NEW t \in Recoverers, LogStep(t) \/ ResolveConflicts(t) PROVE RecoveryInv'
  <2>1. CASE ResolveConflicts(t) /\ Overflows
    BY <2>1, OverflowStays
  <2>2. ASSUME ~(ResolveConflicts(t) /\ Overflows)
        PROVE  \E step \in {"CollectEpochs", "CompareVersions", "VerifyChecksums", "ResolveConflicts"} :
                 StepBegins(t, step, "next", {}) /\ UNCHANGED <<plan, quiesced>>
    BY <1>2, <2>2 DEF LogStep, ResolveConflicts
  <2> QED
    BY <2>1, <2>2, PassStep
<1>3. ASSUME NEW t \in Recoverers, RecoveryStep(t) PROVE RecoveryInv'
  BY <1>2, <1>3, LoopStepStays, VisitStays, LoopEndsStays, CleanupStays, StartStays, EndStays
  DEF RecoveryStep, Work
<1>4. ASSUME NEW k \in Keys, NEW pair \in Clashes, AddConflict(k, pair) PROVE RecoveryInv'
  BY <1>1, <1>4 DEF AddConflict
<1>5. ASSUME UNCHANGED recoveryVars PROVE RecoveryInv'
  BY <1>1, <1>5 DEF recoveryVars
<1> QED
  BY <1>3, <1>4, <1>5 DEF FailoverNext, failoverVars

\* Writes never stay quiesced (execute_plan, cancel): a thread that has yet to run the
\* Cleanup of its plan, or to clear the set, is there as long as a node is quiesced.
\* The other strategies recurse without end in resolve_conflict, so that the thread
\* never comes to its Cleanup; for them this is false.
THEOREM NobodyLeftQuiesced ==
  ASSUME Strategy \in {"LastWriteWins", "KeepBoth"}
  PROVE  FailoverSpec => []NoNodeLeftQuiesced
<1>1. RecoveryInv => NoNodeLeftQuiesced
  BY DEF ResolveReturns, RecoveryInv, SomeoneClears, WillClear, NoNodeLeftQuiesced, Running
<1>2. RecoveryInv /\ [FailoverNext]_failoverVars => RecoveryInv'
  BY RecoveryPreserved
<1> QED
  BY <1>1, <1>2, RecoveryInitial, PTL DEF FailoverSpec

\* Data is synced only while our partition's writes are stopped (execute_plan,
\* sync_to_node), over any number of recoveries that come one after the other.
THEOREM SyncsQuiesced == FailoverSpec => []SyncOnlyQuiesced
<1>1. RecoveryInv => SyncOnlyQuiesced
  BY DEF RecoveryInv, OneByOne, SyncSafe, SyncOnlyQuiesced
<1>2. RecoveryInv /\ [FailoverNext]_failoverVars => RecoveryInv'
  BY RecoveryPreserved
<1> QED
  BY <1>1, <1>2, RecoveryInitial, PTL DEF FailoverSpec
=============================================================================
