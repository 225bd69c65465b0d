---------------------------- MODULE CrdtCounters ----------------------------
(***************************************************************************)
(* The counters of the CRDT store (warp-store/src/consistency/             *)
(* crdt_store.rs over GCounter and PNCounter of warp-crdt): one key of     *)
(* each kind.  Each replica counts in a slot of its own and merges the     *)
(* slots of others with max.  Deltas are lost, delayed, repeated and       *)
(* reordered.  The counters are only in memory: a replica that restarts    *)
(* has none.                                                               *)
(***************************************************************************)
EXTENDS Integers, FiniteSetsExt

CONSTANTS
  Counting,    \* node ids of the replicas
  MaxCounts,   \* bound: increments and decrements that are made
  MaxTotal,    \* bound: the total a PN-counter is followed to
  MaxCounterRestarts  \* bound: restarts of a replica

ASSUME CounterAssumption ==
  /\ IsFiniteSet(Counting) /\ Counting \subseteq Nat \ {0}
  /\ MaxCounts \in Nat /\ MaxTotal \in Nat /\ MaxCounterRestarts \in Nat

VARIABLES
  gc,         \* the G-counter of each replica
  pn,         \* the PN-counter of each replica
  counterNet, \* deltas under way; they stay, for they may be repeated
  counted,    \* history: the operations that went into each slot, by kind
  adopted,    \* history: a replica got its counter from a delta of another one
  counterRestarts  \* how often each replica has restarted

counterHistory == <<adopted, counterRestarts>>
counterVars    == <<gc, pn, counterNet, counted, counterHistory>>

Zero == [k \in Counting |-> 0]
\* node = 0: the key has no counter yet.
NoCounter == [node |-> 0, up |-> Zero, down |-> Zero]

Slots(f) == MapThenSumSet(LAMBDA k : f[k], Counting)

CounterInit ==
  /\ gc = [n \in Counting |-> NoCounter]
  /\ pn = [n \in Counting |-> NoCounter]
  /\ counterNet = {}
  /\ counted = [n \in Counting |-> [g |-> 0, up |-> 0, down |-> 0]]
  /\ adopted = FALSE /\ counterRestarts = Zero

Asked == Slots([n \in Counting |-> counted[n].g + counted[n].up + counted[n].down])

\* The counter an operation of replica n finds, or makes.
Opened(c, n) == IF c.node = 0 THEN [c EXCEPT !.node = n] ELSE c

\* increment_by: into the slot of the node the counter was created for.
Bump(c, side) == IF side = "down" THEN [c EXCEPT !.down[c.node] = @ + 1]
                                  ELSE [c EXCEPT !.up[c.node] = @ + 1]

GCounterIncrement(n) ==
  /\ Asked < MaxCounts
  /\ gc' = [gc EXCEPT ![n] = Bump(Opened(@, n), "up")]
  /\ counted' = [counted EXCEPT ![Opened(gc[n], n).node].g = @ + 1]
  /\ UNCHANGED <<pn, counterNet, counterHistory>>

\* pn_counter_increment and pn_counter_decrement
PNCounterChange(n, side) ==
  /\ Asked < MaxCounts
  /\ pn' = [pn EXCEPT ![n] = Bump(Opened(@, n), side)]
  /\ counted' = [counted EXCEPT ![Opened(pn[n], n).node][side] = @ + 1]
  /\ UNCHANGED <<gc, counterNet, counterHistory>>

\* generate_delta: a G-counter sends the slot of its node, a PN-counter its totals
\* in the place of the slot of its node.
GenerateCounts(n) ==
  /\ counterNet' = counterNet
       \cup {[kind |-> "g", node |-> gc[k].node, up |-> gc[k].up[gc[k].node], down |-> 0] :
               k \in {k \in {n} : gc[k].node # 0}}
       \cup {[kind |-> "pn", node |-> pn[k].node, up |-> Slots(pn[k].up), down |-> Slots(pn[k].down)] :
               k \in {k \in {n} : pn[k].node # 0}}
  /\ UNCHANGED <<gc, pn, counted, counterHistory>>

\* Mutant: a slot is overwritten by what the delta says.
MergeLast(c, m) == [c EXCEPT !.up[m.node] = m.up, !.down[m.node] = m.down]

\* merge with a counter that has one slot
Merge(c, m) == [c EXCEPT !.up[m.node] = Max({@, m.up}), !.down[m.node] = Max({@, m.down})]

\* apply_delta: a counter that was not there is created for the node of the delta.
ApplyCounts(n, m) ==
  /\ adopted' = (adopted \/ (m.node # n /\ IF m.kind = "g" THEN gc[n].node = 0
                                                           ELSE pn[n].node = 0))
  /\ \/ /\ m.kind = "g"
        /\ gc' = [gc EXCEPT ![n] = Merge(Opened(@, m.node), m)]
        /\ UNCHANGED pn
     \/ /\ m.kind = "pn"
        /\ Slots(pn[n].up) + m.up <= MaxTotal
        /\ Slots(pn[n].down) + m.down <= MaxTotal
        /\ pn' = [pn EXCEPT ![n] = Merge(Opened(@, m.node), m)]
        /\ UNCHANGED gc
  /\ UNCHANGED <<counterNet, counted, counterRestarts>>

\* The process of replica n starts again, with a new store.
RestartCounters(n) ==
  /\ counterRestarts[n] < MaxCounterRestarts
  /\ gc' = [gc EXCEPT ![n] = NoCounter]
  /\ pn' = [pn EXCEPT ![n] = NoCounter]
  /\ counterRestarts' = [counterRestarts EXCEPT ![n] = @ + 1]
  /\ UNCHANGED <<counterNet, counted, adopted>>

CounterNext ==
  \E n \in Counting :
    \/ GCounterIncrement(n)
    \/ \E side \in {"up", "down"} : PNCounterChange(n, side)
    \/ GenerateCounts(n)
    \/ \E m \in counterNet : ApplyCounts(n, m)
    \/ RestartCounters(n)

CounterSpec == CounterInit /\ [][CounterNext]_counterVars

-----------------------------------------------------------------------------

GAsked == Slots([k \in Counting |-> counted[k].g])

\* However often and in whatever order deltas arrive, whoever restarts and even
\* when replicas share a slot, a grow-only counter never shows more than was
\* counted.  As long as every replica created its counters itself, one that never
\* restarted keeps each of its own counts, of either kind, and nobody has more in
\* the slot of its grow-only counter than itself (g_counter.rs:3 "Each node
\* maintains its own count").  Of PN-counters it says only that no replica loses
\* its own counts: they show more than was counted (PNTotalIsCounted).
CountsOnce ==
  /\ \A n \in Counting : Slots(gc[n].up) <= GAsked
  /\ ~adopted =>
       \A n, m \in Counting : counterRestarts[n] = 0 =>
         /\ gc[n].up[n] = counted[n].g /\ gc[m].up[n] <= gc[n].up[n]
         /\ pn[n].up[n] >= counted[n].up /\ pn[n].down[n] >= counted[n].down

\* A PN-counter shows no more increments than were made (pn_counter.rs:68 "Get the
\* total number of increments").
PNTotalIsCounted ==
  \A n \in Counting : Slots(pn[n].up) <= Slots([k \in Counting |-> counted[k].up])
=============================================================================
