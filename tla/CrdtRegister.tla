---------------------------- MODULE CrdtRegister ----------------------------
(***************************************************************************)
(* One key of the CRDT store (warp-store/src/consistency/crdt_store.rs):   *)
(* its last-write-wins register, stamped by the hybrid logical clock of    *)
(* warp-crdt.  Replicas exchange the register itself (generate_delta) or a *)
(* delta a caller builds from the timestamp that put returned.  Messages   *)
(* are lost, delayed, repeated and reordered.  The store lives in memory:  *)
(* a restart starts from an empty register and the wall clock.             *)
(***************************************************************************)
EXTENDS Integers, Sequences

CONSTANTS
  Replicas,       \* node ids; their order breaks ties
  MaxTime,        \* bound: readings of the wall clocks
  MaxLogical,     \* u32::MAX, the bound of the logical counter
  MaxPuts,        \* bound: calls of put
  MaxApplies,     \* bound: deltas that are applied
  MaxRestarts     \* bound: restarts

ASSUME RegisterAssumption ==
  /\ Replicas \subseteq Nat
  /\ MaxTime \in Nat /\ MaxLogical \in Nat /\ MaxPuts \in Nat
  /\ MaxApplies \in Nat /\ MaxRestarts \in Nat

VARIABLES
  hlc,        \* clock of each replica: physical and logical part
  reg,        \* the register of each replica, NoReg without one
  regNet,     \* deltas under way; they stay, for they may be repeated
  puts,       \* history: the writes: timestamp returned and kept, and the write they replaced
  applies,    \* the number of deltas applied
  restarts,   \* the number of restarts
  early,      \* history: a delta with another timestamp than the register's was sent
  rewound     \* history: a replica restarted with a clock that was not ahead

registerVars == <<hlc, reg, regNet, puts, applies, restarts, early, rewound>>

Clocks == 0 .. MaxTime
NoReg == [ts |-> <<0, 0, 0>>, write |-> 0]

\* HLC::cmp: physical time, then the logical counter, then the node.
Before(a, b) ==
  \/ a[1] < b[1]
  \/ a[1] = b[1] /\ a[2] < b[2]
  \/ a[1] = b[1] /\ a[2] = b[2] /\ a[3] < b[3]

SaturatingInc(l) == IF l < MaxLogical THEN l + 1 ELSE l
Larger(a, b) == IF a > b THEN a ELSE b

\* Mutant: the logical counter stands still while the wall clock does.
TickSameTime(c, now) == IF now > c[1] THEN <<now, 0>> ELSE c

Tick(c, now) ==
  IF now > c[1] THEN <<now, 0>> ELSE <<c[1], SaturatingInc(c[2])>>

\* Mutant: receive takes the later physical time and keeps its own counter.
ReceivePhysicalOnly(c, remote, now) ==
  IF now > c[1] /\ now > remote[1] THEN <<now, 0>>
  ELSE <<Larger(c[1], remote[1]), SaturatingInc(c[2])>>

Receive(c, remote, now) ==
  IF now > c[1] /\ now > remote[1] THEN <<now, 0>>
  ELSE IF c[1] > remote[1] THEN <<c[1], SaturatingInc(c[2])>>
  ELSE IF remote[1] > c[1] THEN <<remote[1], SaturatingInc(remote[2])>>
  ELSE <<c[1], SaturatingInc(Larger(c[2], remote[2]))>>

Stamp(n, c) == <<c[1], c[2], n>>

RegisterInit ==
  /\ hlc \in [Replicas -> {<<now, 0>> : now \in Clocks}]
  /\ reg = [n \in Replicas |-> NoReg]
  /\ regNet = {}
  /\ puts = <<>>
  /\ applies = 0
  /\ restarts = 0
  /\ early = FALSE
  /\ rewound = FALSE

(***************************************************************************)
(* put and delete, under the write lock of the clock.  The entry of a new  *)
(* key gets the timestamp that is returned; an existing one is set with a  *)
(* second tick.                                                            *)
(***************************************************************************)
Put(n) ==
  /\ Len(puts) < MaxPuts
  /\ \E now1, now2 \in Clocks :
       LET first == Tick(hlc[n], now1)
           second == IF reg[n] = NoReg THEN first ELSE Tick(first, now2)
       IN /\ reg[n] = NoReg => now2 = now1
          /\ hlc' = [hlc EXCEPT ![n] = second]
          /\ reg' = [reg EXCEPT ![n] = [ts |-> Stamp(n, second), write |-> Len(puts) + 1]]
          /\ puts' = Append(puts, [returned |-> Stamp(n, first), kept |-> Stamp(n, second),
                                over |-> reg[n].write])
  /\ UNCHANGED <<regNet, applies, restarts, early, rewound>>

\* generate_delta: the register with the timestamp it is kept under.
SendState(n) ==
  /\ reg[n] # NoReg
  /\ regNet' = regNet \cup {reg[n]}
  /\ UNCHANGED <<hlc, reg, puts, applies, restarts, early, rewound>>

\* A caller passes on its own write as CrdtDelta::Register with the timestamp
\* that put returned.
SendReturned(n) ==
  /\ reg[n] # NoReg
  /\ reg[n].ts[3] = n
  /\ LET ts == puts[reg[n].write].returned
     IN /\ regNet' = regNet \cup {[ts |-> ts, write |-> reg[n].write]}
        /\ early' = (early \/ ts # reg[n].ts)
  /\ UNCHANGED <<hlc, reg, puts, applies, restarts, rewound>>

\* Mutant: the delta is applied without a look at the register's timestamp.
SetAlways(old, m) == m

\* set_with_timestamp, or the insertion of a register that was not there.
SetWithTimestamp(old, m) == IF old = NoReg \/ Before(old.ts, m.ts) THEN m ELSE old

\* apply_delta for a register, under the write lock of the clock.
ApplyRegister(n, m) ==
  /\ applies < MaxApplies
  /\ applies' = applies + 1
  /\ \E now \in Clocks : hlc' = [hlc EXCEPT ![n] = Receive(hlc[n], m.ts, now)]
  /\ reg' = [reg EXCEPT ![n] = SetWithTimestamp(reg[n], m)]
  /\ UNCHANGED <<regNet, puts, restarts, early, rewound>>

\* The process ends and a new one creates its store.
RestartStore(n) ==
  /\ restarts < MaxRestarts
  /\ restarts' = restarts + 1
  /\ reg' = [reg EXCEPT ![n] = NoReg]
  /\ \E now \in Clocks :
       /\ hlc' = [hlc EXCEPT ![n] = <<now, 0>>]
       /\ rewound' = (rewound \/ now <= hlc[n][1])
  /\ UNCHANGED <<regNet, puts, applies, early>>

RegisterNext ==
  \E n \in Replicas :
    \/ Put(n)
    \/ SendState(n)
    \/ SendReturned(n)
    \/ \E m \in regNet : ApplyRegister(n, m)
    \/ RestartStore(n)

RegisterSpec == RegisterInit /\ [][RegisterNext]_registerVars

-----------------------------------------------------------------------------

\* Registers as they are kept and as they travel.
Copies == regNet \cup {reg[n] : n \in {k \in Replicas : reg[k] # NoReg}}

RegisterTypeOK ==
  /\ hlc \in [Replicas -> Clocks \X (0 .. MaxLogical)]
  /\ \A c \in Copies : c.ts \in Clocks \X (0 .. MaxLogical) \X Replicas
                       /\ c.write \in 1 .. Len(puts)

\* Two writes never carry the same timestamp, on whatever replicas and in
\* whatever order messages arrive: otherwise replicas that hold them would keep
\* different values for ever, since neither is later (HLC, apply_delta).  It takes
\* a wall clock that is ahead after a restart.
TimestampIdentifiesWrite ==
  ~rewound => \A a, b \in Copies : a.ts = b.ts => a.write = b.write

\* A write that replaced another one is later than every copy of it, so that no
\* late or repeated message brings the replaced value back (put, receive).  It
\* takes deltas that carry the timestamp of the register, and no care about clocks:
\* a restart that sets the clock back forgets the value with it.
OverwriteIsLater ==
  ~early => \A a, b \in Copies : puts[b.write].over = a.write => Before(a.ts, b.ts)

\* The registers of the replicas implement a replicated version that is only
\* moved up, to what somebody wrote (put, apply_delta); a restart forgets.
Register == INSTANCE ReplicatedVersion WITH
  Sites <- Replicas,
  Versions <- Clocks \X (0 .. MaxLogical) \X Replicas,
  None <- NoReg.ts,
  Newer <- LAMBDA v, u : Before(u, v),
  version <- [n \in Replicas |-> reg[n].ts],
  issued <- UNION {{puts[i].returned, puts[i].kept} : i \in 1 .. Len(puts)}

ImplementsVersions == Register!VersionSpec
=============================================================================
