------------------------------- MODULE Fencing -------------------------------
(***************************************************************************)
(* The fencing manager (warp-store, arbiter/fencing.rs): requests to fence *)
(* a node are collected, execute_pending carries them out through the      *)
(* fence agents with retries and a chain of fallback actions, release_node *)
(* undoes them.                                                            *)
(*                                                                         *)
(* The maps are only held for one access at a time, except by release_node,*)
(* which keeps the entry of the node while it talks to the agents.  The    *)
(* agents are external: a call may fail, and then it has had no effect.    *)
(***************************************************************************)
EXTENDS Integers, FiniteSets

CONSTANTS
  FenceNodes,        \* nodes that may be fenced
  Protected,    \* protected_nodes
  Agents,       \* registered fence agents
  Fencers,      \* threads that call request_fence, execute_pending, release_node
  FenceRetries,   \* max_retries
  ChainLength,  \* length of action_chain
  NoFenceNode

ASSUME FencingConstants ==
  /\ IsFiniteSet(FenceNodes)
  /\ Protected \subseteq FenceNodes
  /\ FenceRetries \in Nat /\ ChainLength \in Nat \ {0}
  /\ NoFenceNode \notin FenceNodes

VARIABLES
  fence,     \* fenced_nodes: the state of each node's record, "None" without one
  pending,   \* the keys of pending_fences
  holds,     \* the nodes each agent fences
  fpc, floc, \* where each thread is, and its locals
  accepted,  \* history: the nodes for which request_fence returned true
  interfered \* history: nodes released while a thread was at work on fencing them

fencingVars == <<fence, pending, holds, fpc, floc, accepted, interfered>>

FenceStates == {"None", "InProgress", "Fenced", "Failed", "Released"}
Attempts    == 0 .. ChainLength * FenceRetries
NoTask      == [node |-> NoFenceNode, todo |-> {}, left |-> 0]

Held(n) == \E a \in Agents : n \in holds[a]

FGoto(t, label, task) ==
  fpc' = [fpc EXCEPT ![t] = label] /\ floc' = [floc EXCEPT ![t] = task]

FencingInit ==
  /\ fence = [n \in FenceNodes |-> "None"]
  /\ pending = {}
  /\ holds = [a \in Agents |-> {}]
  /\ fpc = [t \in Fencers |-> "idle"]
  /\ floc = [t \in Fencers |-> NoTask]
  /\ accepted = {}
  /\ interfered = {}

(* request_fence *)

\* Protected nodes are refused, and so is any node that has a record, whatever
\* its state.
Request(t, n) ==
  /\ fpc[t] = "idle"
  /\ n \notin Protected
  /\ fence[n] = "None"
  /\ FGoto(t, "request", [NoTask EXCEPT !.node = n])
  /\ UNCHANGED <<fence, pending, holds, accepted, interfered>>

RequestInsert(t) ==
  /\ fpc[t] = "request"
  /\ pending' = pending \cup {floc[t].node}
  /\ accepted' = accepted \cup {floc[t].node}
  /\ FGoto(t, "idle", NoTask)
  /\ UNCHANGED <<fence, holds, interfered>>

(* execute_pending *)

ExecuteStart(t) ==
  /\ fpc[t] = "idle"
  /\ pending # {}
  /\ FGoto(t, "exec_next", [NoTask EXCEPT !.todo = pending])
  /\ UNCHANGED <<fence, pending, holds, accepted, interfered>>

\* Mutant: pending_fences is cleared as a whole, with the requests that came in
\* after the snapshot.
ExecuteTakeClears(t, n) ==
  /\ fpc[t] = "exec_next"
  /\ n \in floc[t].todo
  /\ pending' = {}
  /\ FGoto(t, "exec_insert", [floc[t] EXCEPT !.node = n, !.todo = @ \ {n}])
  /\ UNCHANGED <<fence, holds, accepted, interfered>>

\* The next node of the snapshot leaves pending_fences, whether or not
\* another thread has taken it already.
ExecuteTake(t, n) ==
  /\ fpc[t] = "exec_next"
  /\ n \in floc[t].todo
  /\ pending' = pending \ {n}
  /\ FGoto(t, "exec_insert", [floc[t] EXCEPT !.node = n, !.todo = @ \ {n}])
  /\ UNCHANGED <<fence, holds, accepted, interfered>>

\* A new record, and the actions to try: the whole chain if it contains the
\* requested action, that action alone otherwise.
ExecuteInsert(t) ==
  /\ fpc[t] = "exec_insert"
  /\ fence' = [fence EXCEPT ![floc[t].node] = "InProgress"]
  /\ \E actions \in {1, ChainLength} :
       FGoto(t, "exec_try", [floc[t] EXCEPT !.left = actions * FenceRetries])
  /\ UNCHANGED <<pending, holds, accepted, interfered>>

\* One attempt asks the agents in turn; the first that succeeds ends the call.
TryOk(t, a) ==
  /\ fpc[t] = "exec_try"
  /\ floc[t].left > 0
  /\ holds' = [holds EXCEPT ![a] = @ \cup {floc[t].node}]
  /\ FGoto(t, "exec_ok", floc[t])
  /\ UNCHANGED <<fence, pending, accepted, interfered>>

\* Mutant: a failed attempt starts over with every attempt left.
TryFailsForever(t) ==
  /\ fpc[t] = "exec_try"
  /\ floc[t].left > 0
  /\ FGoto(t, "exec_insert", floc[t])
  /\ UNCHANGED <<fence, pending, holds, accepted, interfered>>

\* Every agent refuses; the task sleeps and tries again.
TryFails(t) ==
  /\ fpc[t] = "exec_try"
  /\ floc[t].left > 0
  /\ FGoto(t, "exec_try", [floc[t] EXCEPT !.left = @ - 1])
  /\ UNCHANGED <<fence, pending, holds, accepted, interfered>>

\* The record gets the outcome, and the loop goes on with the snapshot.
Outcome(t, label, state) ==
  /\ fpc[t] = label
  /\ fence' = [fence EXCEPT ![floc[t].node] = state]
  /\ FGoto(t, "exec_next", [NoTask EXCEPT !.todo = floc[t].todo])
  /\ UNCHANGED <<pending, holds, accepted, interfered>>

ExecuteFenced(t) == Outcome(t, "exec_ok", "Fenced")
ExecuteFailed(t) == floc[t].left = 0 /\ Outcome(t, "exec_try", "Failed")

ExecuteDone(t) ==
  /\ fpc[t] = "exec_next"
  /\ floc[t].todo = {}
  /\ FGoto(t, "idle", NoTask)
  /\ UNCHANGED <<fence, pending, holds, accepted, interfered>>

(* release_node *)

\* A thread has the node before it, in its snapshot or at work.
Busy(n) == \E t \in Fencers : floc[t].node = n \/ n \in floc[t].todo

\* The agents in done let the node go.
LetGo(n, done) ==
  /\ holds' = [a \in Agents |-> IF a \in done THEN holds[a] \ {n} ELSE holds[a]]
  /\ interfered' = IF Busy(n) THEN interfered \cup {n} ELSE interfered

\* Mutant: the record is only updated when the fencing had failed.
ReleaseNodeSilent(n) ==
  \E done \in SUBSET {a \in Agents : n \in holds[a]} :
    /\ fence[n] # "None"
    /\ LetGo(n, done)
    /\ fence' = [fence EXCEPT ![n] = IF @ = "Failed" THEN "Released" ELSE @]

\* Every agent that fences the node is asked to let go; the first that fails
\* ends the call, with the record as it was.
ReleaseNode(n) ==
  \E done \in SUBSET {a \in Agents : n \in holds[a]} :
    /\ fence[n] # "None"
    /\ LetGo(n, done)
    /\ fence' = IF \A a \in Agents : n \in holds[a] => a \in done
                THEN [fence EXCEPT ![n] = "Released"] ELSE fence

Release(t, n) ==
  /\ fpc[t] = "idle"
  /\ ReleaseNode(n)
  /\ UNCHANGED <<pending, fpc, floc, accepted>>

-----------------------------------------------------------------------------
Execute(t) ==
  \/ \E n \in FenceNodes : ExecuteTake(t, n)
  \/ ExecuteInsert(t)
  \/ \E a \in Agents : TryOk(t, a)
  \/ TryFails(t)
  \/ ExecuteFenced(t) \/ ExecuteFailed(t) \/ ExecuteDone(t)

FencingStep(t) ==
  \/ \E n \in FenceNodes : Request(t, n) \/ Release(t, n)
  \/ RequestInsert(t)
  \/ ExecuteStart(t)
  \/ Execute(t)

FencingNext == \E t \in Fencers : FencingStep(t)

FencingSpec == FencingInit /\ [][FencingNext]_fencingVars

-----------------------------------------------------------------------------
(* Properties *)

\* The types; the attempts left never go below zero or above the chain.
FencingTypeOK ==
  /\ fence \in [FenceNodes -> FenceStates]
  /\ pending \subseteq FenceNodes
  /\ holds \in [Agents -> SUBSET FenceNodes]
  /\ floc \in [Fencers -> [node : FenceNodes \cup {NoFenceNode}, todo : SUBSET FenceNodes, left : Attempts]]

\* No accepted request is lost: it is pending, in the hands of a thread, or has
\* a record, also when two threads execute the same snapshot.
NoLostRequest ==
  \A n \in accepted : n \in pending \/ Busy(n) \/ fence[n] # "None"

\* execute_pending returns, however often the agents fail.
ExecuteReturns == \A t \in Fencers : (fpc[t] = "exec_next") ~> (fpc[t] = "idle")

\* A record tells the truth once no thread works on its node.  If it says Fenced
\* (fencing.rs:205 "Successfully fenced"), an agent fences the node, also after two
\* executions of the same request, unless the node was released while a thread
\* was fencing it: the outcome is then written over the release.  If it says
\* Released, no agent fences the node any more, also when one of several agents
\* refused to let go.
RecordTellsTruth ==
  \A n \in FenceNodes : ~Busy(n) =>
    /\ (fence[n] = "Fenced" /\ n \notin interfered) => Held(n)
    /\ fence[n] = "Released" => ~Held(n)
=============================================================================
