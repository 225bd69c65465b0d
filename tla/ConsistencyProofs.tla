-------------------------- MODULE ConsistencyProofs --------------------------
(* What the CRDT registers and counters, the persistent Raft log and the      *)
(* metadata store guarantee, for any number of replicas, writes, deltas,      *)
(* restarts, log entries and crashes.                                         *)
EXTENDS CrdtRegister, CrdtCounters, RaftLog, MetadataStore, FiniteSetTheorems, SequenceTheorems,
        WellFoundedInduction, TLAPS

-----------------------------------------------------------------------------
(* CRDT registers and the hybrid clock *)

\* The logical part of a clock never reaches its limit, at which it would stay: each
\* put ticks a clock twice at most and each applied delta once.
NoSaturation == 2 * MaxPuts + MaxApplies <= MaxLogical

Logical == 0 .. MaxLogical
Stamps == Clocks \X Logical \X Replicas
UpTo(a, b) == a[1] < b[1] \/ (a[1] = b[1] /\ a[2] <= b[2])
Less(a, b) == a[1] < b[1] \/ (a[1] = b[1] /\ a[2] < b[2])
Budget == 2 * Len(puts) + applies
Puts == [returned : Stamps, kept : Stamps, over : Nat]
Regs == [ts : Stamps, write : Nat \ {0}]

CrdtTypes ==
  /\ hlc \in [Replicas -> Clocks \X Logical]
  /\ reg \in [Replicas -> Regs \cup {NoReg}]
  /\ regNet \subseteq Regs
  /\ puts \in Seq(Puts) /\ Len(puts) <= MaxPuts
  /\ applies \in Nat /\ applies <= MaxApplies
  /\ early \in BOOLEAN /\ rewound \in BOOLEAN

\* Every tick of a clock is one of a put or of an applied delta.
Ticked ==
  /\ \A n \in Replicas : hlc[n][2] <= Budget
  /\ \A i \in 1 .. Len(puts) : puts[i].returned[2] <= Budget /\ puts[i].kept[2] <= Budget

\* A copy is one of a write, under a timestamp of that write.
CopyOf(c, writes, anyOf) ==
  /\ c.write \in 1 .. Len(writes)
  /\ c.ts \in {writes[c.write].returned, writes[c.write].kept}
  /\ ~anyOf => c.ts = writes[c.write].kept
CopiesKnown ==
  /\ \A m \in regNet : CopyOf(m, puts, early)
  /\ \A n \in Replicas : reg[n] # NoReg => CopyOf(reg[n], puts, early)

\* The clock of a replica has seen the register it keeps.
ClockAhead == \A n \in Replicas : reg[n] # NoReg => UpTo(reg[n].ts, hlc[n])

\* The clock is ahead of everything its replica stamped.
OwnStamps ==
  \A i \in 1 .. Len(puts) :
    /\ puts[i].returned[3] = puts[i].kept[3]
    /\ UpTo(puts[i].returned, hlc[puts[i].kept[3]]) /\ UpTo(puts[i].kept, hlc[puts[i].kept[3]])

StampsDiffer ==
  \A i, j \in 1 .. Len(puts) : \A a \in {puts[i].returned, puts[i].kept}, b \in {puts[j].returned, puts[j].kept} :
    a = b => i = j

\* A write is later than the one it replaced.
Overwrites ==
  \A i \in 1 .. Len(puts) :
    puts[i].over # 0 => puts[i].over \in 1 .. Len(puts) /\ Before(puts[puts[i].over].kept, puts[i].kept)

CrdtInv ==
  /\ CrdtTypes /\ Ticked /\ CopiesKnown /\ ClockAhead
  /\ ~rewound => OwnStamps /\ StampsDiffer
  /\ ~early => Overwrites

-----------------------------------------------------------------------------
\* now() of the hybrid clock is later than its last time as long as the
\* logical part can count on.
LEMMA TickLater ==
  ASSUME NEW c \in Clocks \X Logical, NEW now \in Clocks, c[2] < MaxLogical
  PROVE  /\ Tick(c, now) \in Clocks \X Logical /\ Less(c, Tick(c, now)) /\ Tick(c, now)[2] <= c[2] + 1
BY RegisterAssumption DEF Tick, SaturatingInc, Clocks, Logical, Less

\* receive() is later than both clocks.
LEMMA ReceiveLater ==
  ASSUME NEW c \in Clocks \X Logical, NEW remote \in Stamps, NEW now \in Clocks, NEW B \in Nat,
         c[2] <= B, remote[2] <= B, B < MaxLogical
  PROVE  /\ Receive(c, remote, now) \in Clocks \X Logical
         /\ Less(c, Receive(c, remote, now)) /\ Less(remote, Receive(c, remote, now))
         /\ Receive(c, remote, now)[2] <= B + 1
<1>1. c[1] \in Nat /\ c[2] \in Nat /\ remote[1] \in Nat /\ remote[2] \in Nat /\ remote[1] \in Clocks /\ c[1] \in Clocks
  BY RegisterAssumption DEF Clocks, Logical, Stamps
<1> QED
  BY <1>1, RegisterAssumption DEF Receive, SaturatingInc, Larger, Clocks, Logical, Less

\* No write at the start.
LEMMA CrdtInitial == RegisterInit => CrdtInv
<1> SUFFICES ASSUME RegisterInit PROVE CrdtInv
  OBVIOUS
<1>1. puts = <<>> /\ Len(puts) = 0 /\ regNet = {} /\ applies = 0 /\ early = FALSE /\ rewound = FALSE
      /\ (\A n \in Replicas : reg[n] = NoReg)
  BY DEF RegisterInit
<1>2. hlc \in [Replicas -> Clocks \X Logical] /\ \A n \in Replicas : hlc[n][2] = 0
  <2>1. \A now \in Clocks : <<now, 0>> \in Clocks \X Logical /\ <<now, 0>>[2] = 0
    BY RegisterAssumption DEF Logical
  <2> QED
    BY <2>1 DEF RegisterInit
<1>3. reg \in [Replicas -> Regs \cup {NoReg}]
  BY DEF RegisterInit
<1>4. CrdtTypes
  <2>1. puts \in Seq(Puts) /\ Len(puts) <= MaxPuts /\ applies \in Nat /\ applies <= MaxApplies
    BY <1>1, RegisterAssumption
  <2>2. regNet \subseteq Regs /\ early \in BOOLEAN /\ rewound \in BOOLEAN
    BY <1>1
  <2> QED
    BY <1>2, <1>3, <2>1, <2>2 DEF CrdtTypes
<1>5. Ticked /\ CopiesKnown /\ ClockAhead
  BY <1>1, <1>2 DEF Ticked, CopiesKnown, ClockAhead, Budget
<1>6. OwnStamps /\ StampsDiffer /\ Overwrites
  BY <1>1 DEF OwnStamps, StampsDiffer, Overwrites
<1> QED
  BY <1>4, <1>5, <1>6 DEF CrdtInv

\* The stamp that a replica makes of its clock.
LEMMA LessFacts ==
  ASSUME NEW n \in Replicas, NEW c \in Clocks \X Logical
  PROVE  /\ Stamp(n, c) \in Stamps /\ Stamp(n, c)[1] = c[1] /\ Stamp(n, c)[2] = c[2] /\ Stamp(n, c)[3] = n
BY DEF Stamp, Stamps

\* What put works out: both timestamps are later than the clock and in order.
LEMMA PutStamps ==
  ASSUME NoSaturation, CrdtInv, NEW n \in Replicas, Put(n)
  PROVE  \E first, second \in Clocks \X Logical :
           /\ Less(hlc[n], first) /\ UpTo(first, second)
           /\ first[2] <= Budget + 2 /\ second[2] <= Budget + 2
           /\ hlc' = [hlc EXCEPT ![n] = second]
           /\ reg' = [reg EXCEPT ![n] = [ts |-> Stamp(n, second), write |-> Len(puts) + 1]]
           /\ puts' = Append(puts, [returned |-> Stamp(n, first), kept |-> Stamp(n, second), over |-> reg[n].write])
           /\ (first = second \/ Less(first, second))
<1>0. CrdtTypes /\ Ticked
  BY DEF CrdtInv
<1>1. PICK now1 \in Clocks, now2 \in Clocks :
       LET first == Tick(hlc[n], now1)
           second == IF reg[n] = NoReg THEN first ELSE Tick(first, now2)
       IN /\ hlc' = [hlc EXCEPT ![n] = second]
          /\ reg' = [reg EXCEPT ![n] = [ts |-> Stamp(n, second), write |-> Len(puts) + 1]]
          /\ puts' = Append(puts, [returned |-> Stamp(n, first), kept |-> Stamp(n, second),
                                over |-> reg[n].write])
  BY DEF Put
<1> DEFINE first == Tick(hlc[n], now1)
<1> DEFINE second == IF reg[n] = NoReg THEN first ELSE Tick(first, now2)
<1>2. /\ hlc[n] \in Clocks \X Logical /\ hlc[n][2] \in Nat /\ hlc[n][2] <= Budget
      /\ Budget \in Nat /\ Budget + 2 <= MaxLogical /\ MaxLogical \in Nat
  <2>1. Len(puts) \in Nat /\ Len(puts) < MaxPuts /\ applies \in Nat /\ applies <= MaxApplies
    BY <1>0 DEF CrdtTypes, Put
  <2>2. hlc[n] \in Clocks \X Logical /\ hlc[n][2] <= Budget
    BY <1>0 DEF CrdtTypes, Ticked
  <2>3. hlc[n][2] \in Nat
    BY <2>2, RegisterAssumption DEF Logical
  <2> QED
    BY <2>1, <2>2, <2>3, RegisterAssumption DEF NoSaturation, Budget
<1>3. /\ first \in Clocks \X Logical /\ Less(hlc[n], first) /\ first[2] <= hlc[n][2] + 1
  BY <1>2, TickLater
<1>4. first[1] \in Nat /\ first[2] \in Nat
  BY <1>3, RegisterAssumption DEF Clocks, Logical
<1>5. /\ second \in Clocks \X Logical /\ (first = second \/ Less(first, second))
      /\ second[2] <= Budget + 2
  <2>1. CASE reg[n] = NoReg
    BY <1>2, <1>3, <1>4, <2>1
  <2>2. CASE reg[n] # NoReg
    <3> HIDE DEF first
    <3>1. /\ Tick(first, now2) \in Clocks \X Logical /\ Less(first, Tick(first, now2))
          /\ Tick(first, now2)[2] <= first[2] + 1
      BY <1>2, <1>3, <1>4, TickLater
    <3>2. Tick(first, now2)[2] \in Nat
      BY <3>1, RegisterAssumption DEF Logical
    <3> QED
      BY <1>2, <1>3, <1>4, <2>2, <3>1, <3>2
  <2> QED
    BY <2>1, <2>2
<1>7. /\ hlc' = [hlc EXCEPT ![n] = second]
      /\ reg' = [reg EXCEPT ![n] = [ts |-> Stamp(n, second), write |-> Len(puts) + 1]]
      /\ puts' = Append(puts, [returned |-> Stamp(n, first), kept |-> Stamp(n, second), over |-> reg[n].write])
  BY <1>1
<1> HIDE DEF first, second
<1>6. UpTo(first, second) /\ first[2] <= Budget + 2
  <2>1. first[2] <= Budget + 2
    BY <1>2, <1>3, <1>4
  <2>2. second[1] \in Nat /\ second[2] \in Nat
    BY <1>5, RegisterAssumption DEF Clocks, Logical
  <2>3. UpTo(first, second)
    BY <1>4, <1>5, <2>2 DEF UpTo, Less
  <2> QED
    BY <2>1, <2>3
<1> QED
  BY <1>3, <1>5, <1>6, <1>7

\* A put adds one write.
LEMMA Added ==
  ASSUME NEW p \in Puts, puts \in Seq(Puts), puts' = Append(puts, p)
  PROVE  /\ puts' \in Seq(Puts) /\ Len(puts') = Len(puts) + 1 /\ Len(puts) \in Nat
         /\ \A i \in 1 .. Len(puts) : puts'[i] = puts[i] /\ puts[i] \in Puts
         /\ puts'[Len(puts) + 1] = p
         /\ \A i \in 1 .. Len(puts') : i \in 1 .. Len(puts) \/ i = Len(puts) + 1
         /\ \A i \in 1 .. Len(puts) : i \in 1 .. Len(puts') /\ i # Len(puts) + 1
         /\ Len(puts) + 1 \in 1 .. Len(puts') /\ Len(puts) + 1 \in Nat \ {0}
<1>1. /\ puts' \in Seq(Puts) /\ Len(puts') = Len(puts) + 1 /\ Len(puts) \in Nat
      /\ puts'[Len(puts) + 1] = p
      /\ \A i \in 1 .. Len(puts) : puts'[i] = puts[i] /\ puts[i] \in Puts
  OBVIOUS
<1> QED
  BY <1>1

Pair(a) == a[1] \in Nat /\ a[2] \in Nat

\* Clocks and stamps are pairs of numbers; a stamp also names its replica.
LEMMA Pairs == (\A c \in Clocks \X Logical : Pair(c)) /\ (\A s \in Stamps : Pair(s) /\ s[3] \in Replicas)
BY RegisterAssumption DEF Pair, Clocks, Logical, Stamps

\* How the order of the clocks and that of the stamps fit together.
LEMMA Orders ==
  ASSUME NEW a, NEW b, NEW c, Pair(a), Pair(b), Pair(c)
  PROVE  /\ UpTo(a, b) /\ Less(b, c) => Less(a, c)
         /\ Less(a, b) /\ UpTo(b, c) => Less(a, c)
         /\ Less(a, b) => UpTo(a, b) /\ a # b /\ Before(a, b)
         /\ UpTo(a, a)
BY DEF Pair, UpTo, Less, Before

\* put and delete stamp the write later than the register they replace and
\* than everything this clock has stamped.
LEMMA PutStays ==
  ASSUME NoSaturation, CrdtInv, NEW n \in Replicas, Put(n)
  PROVE  CrdtInv'
<1>0. CrdtTypes /\ Ticked /\ CopiesKnown /\ ClockAhead
  BY DEF CrdtInv
<1>1. PICK first \in Clocks \X Logical, second \in Clocks \X Logical :
           /\ Less(hlc[n], first) /\ UpTo(first, second)
           /\ first[2] <= Budget + 2 /\ second[2] <= Budget + 2
           /\ hlc' = [hlc EXCEPT ![n] = second]
           /\ reg' = [reg EXCEPT ![n] = [ts |-> Stamp(n, second), write |-> Len(puts) + 1]]
           /\ puts' = Append(puts, [returned |-> Stamp(n, first), kept |-> Stamp(n, second), over |-> reg[n].write])
  BY PutStamps
<1> DEFINE p == [returned |-> Stamp(n, first), kept |-> Stamp(n, second), over |-> reg[n].write]
<1> DEFINE r == [ts |-> Stamp(n, second), write |-> Len(puts) + 1]
<1> DEFINE s1 == Stamp(n, first)
<1> DEFINE s2 == Stamp(n, second)
<1>2. /\ s1 \in Stamps /\ s2 \in Stamps /\ s1[3] = n /\ s2[3] = n
      /\ s1[1] = first[1] /\ s1[2] = first[2] /\ s2[1] = second[1] /\ s2[2] = second[2]
  BY LessFacts
<1>3. reg[n].write \in Nat /\ (reg[n].write # 0 => reg[n] # NoReg)
  BY <1>0 DEF CrdtTypes, Regs, NoReg
<1>4. p.returned = s1 /\ p.kept = s2 /\ p.over = reg[n].write
  OBVIOUS
<1>5. r.ts = s2 /\ r.write = Len(puts) + 1
  OBVIOUS
<1>6. p \in Puts
  BY <1>2, <1>3 DEF Puts
<1>7. /\ puts' \in Seq(Puts) /\ Len(puts') = Len(puts) + 1 /\ Len(puts) \in Nat
      /\ \A i \in 1 .. Len(puts) : puts'[i] = puts[i] /\ puts[i] \in Puts
      /\ puts'[Len(puts) + 1] = p
      /\ \A i \in 1 .. Len(puts') : i \in 1 .. Len(puts) \/ i = Len(puts) + 1
      /\ \A i \in 1 .. Len(puts) : i \in 1 .. Len(puts') /\ i # Len(puts) + 1
      /\ Len(puts) + 1 \in 1 .. Len(puts') /\ Len(puts) + 1 \in Nat \ {0}
  <2>1. puts \in Seq(Puts) /\ puts' = Append(puts, p)
    BY <1>0, <1>1 DEF CrdtTypes
  <2> HIDE DEF p
  <2> QED
    BY <1>6, <2>1, Added
<1>8. r \in Regs
  BY <1>2, <1>7 DEF Regs
<1>9. hlc' = [hlc EXCEPT ![n] = second] /\ reg' = [reg EXCEPT ![n] = r]
  BY <1>1
<1> HIDE DEF p, r, s1, s2
<1>10. UNCHANGED <<regNet, applies, early, rewound>>
  BY DEF Put
<1>11. /\ hlc' \in [Replicas -> Clocks \X Logical] /\ hlc'[n] = second /\ \A k \in Replicas \ {n} : hlc'[k] = hlc[k]
       /\ reg' \in [Replicas -> Regs \cup {NoReg}] /\ reg'[n] = r /\ \A k \in Replicas \ {n} : reg'[k] = reg[k]
  BY <1>0, <1>8, <1>9 DEF CrdtTypes
<1>12. Budget \in Nat /\ Budget' = Budget + 2 /\ Len(puts') <= MaxPuts
  BY <1>0, <1>7, <1>10, RegisterAssumption DEF Budget, CrdtTypes, Put
<1>13. CrdtTypes'
  BY <1>0, <1>7, <1>10, <1>11, <1>12 DEF CrdtTypes
<1>14. Ticked'
  <2>1. \A k \in Replicas : hlc[k][2] \in Nat /\ hlc[k][2] <= Budget
    <3>1. \A k \in Replicas : hlc[k] \in Clocks \X Logical
      BY <1>0 DEF CrdtTypes
    <3>2. \A k \in Replicas : hlc[k][2] \in Nat
      BY <3>1, Pairs DEF Pair
    <3> QED
      BY <1>0, <3>2 DEF Ticked
  <2>2. \A i \in 1 .. Len(puts) : /\ puts[i].returned[2] \in Nat /\ puts[i].returned[2] <= Budget
                                  /\ puts[i].kept[2] \in Nat /\ puts[i].kept[2] <= Budget
    BY <1>0, <1>7, Pairs DEF Ticked, Puts, Pair
  <2>3. \A k \in Replicas : hlc'[k][2] <= Budget'
    BY <1>1, <1>11, <1>12, <2>1
  <2>4. ASSUME NEW i \in 1 .. Len(puts') PROVE puts'[i].returned[2] <= Budget' /\ puts'[i].kept[2] <= Budget'
    <3>1. CASE i = Len(puts) + 1
      BY <1>1, <1>2, <1>4, <1>7, <1>12, <3>1
    <3>2. CASE i \in 1 .. Len(puts)
      BY <1>7, <1>12, <2>2, <3>2
    <3> QED
      BY <1>7, <3>1, <3>2
  <2> QED
    BY <2>3, <2>4 DEF Ticked
<1>15. \A c : CopyOf(c, puts, early) => CopyOf(c, puts', early')
  BY <1>7, <1>10 DEF CopyOf
<1>16. CopiesKnown'
  <2>1. CopyOf(r, puts', early')
    BY <1>4, <1>5, <1>7 DEF CopyOf
  <2>2. \A m \in regNet' : CopyOf(m, puts', early')
    BY <1>0, <1>10, <1>15 DEF CopiesKnown
  <2>3. \A k \in Replicas : reg'[k] # NoReg => CopyOf(reg'[k], puts', early')
    BY <1>0, <1>11, <1>15, <2>1 DEF CopiesKnown
  <2> QED
    BY <2>2, <2>3 DEF CopiesKnown
<1>17. Pair(hlc[n]) /\ Pair(first) /\ Pair(second) /\ Pair(s1) /\ Pair(s2)
  BY <1>0, <1>2, Pairs DEF CrdtTypes
<1>18. UpTo(s1, second) /\ UpTo(s2, second) /\ Less(hlc[n], s1) /\ Less(hlc[n], s2) /\ Less(hlc[n], second)
  BY <1>1, <1>2, <1>17 DEF Less, UpTo, Pair
<1>19. ClockAhead'
  BY <1>0, <1>5, <1>11, <1>18 DEF ClockAhead
<1>20. ASSUME ~rewound PROVE OwnStamps' /\ StampsDiffer'
  <2>1. OwnStamps /\ StampsDiffer
    BY <1>20 DEF CrdtInv
  <2>2. ASSUME NEW i \in 1 .. Len(puts)
        PROVE  /\ puts[i].returned \in Stamps /\ puts[i].kept \in Stamps /\ Pair(puts[i].returned) /\ Pair(puts[i].kept)
               /\ puts[i].kept[3] \in Replicas
    BY <1>7, Pairs DEF Puts
  <2>3. ASSUME NEW i \in 1 .. Len(puts), NEW a \in {puts[i].returned, puts[i].kept}, a[3] = n PROVE Less(a, s1) /\ Less(a, s2) /\ UpTo(a, second)
    <3>1. UpTo(a, hlc[n]) /\ Pair(a)
      BY <2>1, <2>2, <2>3 DEF OwnStamps
    <3>2. Less(a, s1) /\ Less(a, s2) /\ Less(a, second)
      BY <1>17, <1>18, <3>1, Orders
    <3> QED
      BY <1>17, <3>1, <3>2, Orders
  <2>4. OwnStamps'
    <3> SUFFICES ASSUME NEW i \in 1 .. Len(puts')
                 PROVE  /\ puts'[i].returned[3] = puts'[i].kept[3]
                        /\ UpTo(puts'[i].returned, hlc'[puts'[i].kept[3]]) /\ UpTo(puts'[i].kept, hlc'[puts'[i].kept[3]])
      BY DEF OwnStamps
    <3>1. CASE i = Len(puts) + 1
      BY <1>2, <1>4, <1>7, <1>11, <1>18, <3>1
    <3>2. CASE i \in 1 .. Len(puts) /\ puts[i].kept[3] # n
      BY <1>7, <1>11, <2>1, <2>2, <3>2 DEF OwnStamps
    <3>3. CASE i \in 1 .. Len(puts) /\ puts[i].kept[3] = n
      BY <1>7, <1>11, <2>1, <2>3, <3>3 DEF OwnStamps
    <3> QED
      BY <1>7, <3>1, <3>2, <3>3
  <2>5. StampsDiffer'
    <3>1. ASSUME NEW j \in 1 .. Len(puts), NEW a \in {s1, s2}, NEW b \in {puts[j].returned, puts[j].kept} PROVE a # b
      <4> SUFFICES ASSUME a = b PROVE FALSE
        OBVIOUS
      <4>1. b[3] = n
        BY <1>2
      <4>2. Less(b, a) /\ Pair(a)
        BY <1>17, <2>3, <4>1
      <4> QED
        BY <4>2, Orders
    <3> SUFFICES ASSUME NEW i \in 1 .. Len(puts'), NEW j \in 1 .. Len(puts'),
                        NEW a \in {puts'[i].returned, puts'[i].kept}, NEW b \in {puts'[j].returned, puts'[j].kept}, a = b
                 PROVE  i = j
      BY DEF StampsDiffer
    <3>2. CASE i \in 1 .. Len(puts) /\ j \in 1 .. Len(puts)
      BY <1>7, <2>1, <3>2 DEF StampsDiffer
    <3>3. CASE i = Len(puts) + 1 /\ j \in 1 .. Len(puts)
      BY <1>4, <1>7, <3>1, <3>3
    <3>4. CASE i \in 1 .. Len(puts) /\ j = Len(puts) + 1
      BY <1>4, <1>7, <3>1, <3>4
    <3> QED
      BY <1>7, <3>2, <3>3, <3>4
  <2> QED
    BY <2>4, <2>5
<1>21. ASSUME ~early PROVE Overwrites'
  <2>1. Overwrites
    BY <1>21 DEF CrdtInv
  <2> SUFFICES ASSUME NEW i \in 1 .. Len(puts'), puts'[i].over # 0
               PROVE  puts'[i].over \in 1 .. Len(puts') /\ Before(puts'[puts'[i].over].kept, puts'[i].kept)
    BY DEF Overwrites
  <2>2. CASE i \in 1 .. Len(puts)
    BY <1>7, <2>1, <2>2 DEF Overwrites
  <2>3. CASE i = Len(puts) + 1
    <3>1. puts'[i].kept = s2 /\ puts'[i].over = reg[n].write /\ reg[n] # NoReg
      BY <1>3, <1>4, <1>7, <2>3
    <3>2. reg[n].write \in 1 .. Len(puts) /\ reg[n].ts = puts[reg[n].write].kept /\ UpTo(reg[n].ts, hlc[n])
      BY <1>0, <1>21, <3>1 DEF CopiesKnown, CopyOf, ClockAhead
    <3>3. Pair(reg[n].ts)
      BY <1>0, <3>1, Pairs DEF CrdtTypes, Regs
    <3>4. Before(reg[n].ts, s2)
      <4>1. Less(reg[n].ts, s2)
        BY <1>17, <1>18, <3>2, <3>3, Orders
      <4> QED
        BY <1>17, <3>3, <4>1, Orders
    <3> QED
      BY <1>7, <3>1, <3>2, <3>4
  <2> QED
    BY <1>7, <2>2, <2>3
<1> QED
  BY <1>10, <1>13, <1>14, <1>16, <1>19, <1>20, <1>21 DEF CrdtInv

\* generate_delta copies the register, or a stamp that put returned.
LEMMA SendStays ==
  ASSUME CrdtInv, NEW n \in Replicas, SendState(n) \/ SendReturned(n)
  PROVE  CrdtInv'
<1>0. CrdtTypes /\ Ticked /\ CopiesKnown /\ ClockAhead
  BY DEF CrdtInv
<1>1. UNCHANGED <<hlc, reg, puts, applies, rewound>> /\ reg[n] # NoReg
  BY DEF SendState, SendReturned
<1>2. reg[n] \in Regs /\ CopyOf(reg[n], puts, early) /\ puts[reg[n].write] \in Puts
  BY <1>0, <1>1 DEF CrdtTypes, CopiesKnown, CopyOf
<1>3. PICK m \in Regs : /\ regNet' = regNet \cup {m} /\ CopyOf(m, puts, early') /\ early' \in BOOLEAN /\ (~early' => ~early)
  <2>1. CASE SendState(n)
    BY <1>0, <1>2, <2>1 DEF SendState, CrdtTypes
  <2>2. CASE SendReturned(n)
    <3> DEFINE ts == puts[reg[n].write].returned
    <3> DEFINE m == [ts |-> ts, write |-> reg[n].write]
    <3>1. ts \in Stamps /\ m \in Regs /\ m.ts = ts /\ m.write = reg[n].write
      BY <1>2 DEF Puts, Regs
    <3>2. regNet' = regNet \cup {m} /\ early' = (early \/ ts # reg[n].ts)
      BY <2>2 DEF SendReturned
    <3> HIDE DEF m
    <3>3. CopyOf(m, puts, early')
      BY <1>2, <3>1, <3>2 DEF CopyOf
    <3> QED
      BY <1>0, <3>1, <3>2, <3>3 DEF CrdtTypes
  <2> QED
    BY <2>1, <2>2
<1>4. CrdtTypes'
  BY <1>0, <1>1, <1>3 DEF CrdtTypes
<1>5. Ticked' /\ ClockAhead'
  BY <1>0, <1>1 DEF Ticked, ClockAhead, Budget
<1>6. CopiesKnown'
  <2>1. \A c : CopyOf(c, puts, early) => CopyOf(c, puts, early')
    BY <1>3 DEF CopyOf
  <2>2. \A k \in regNet' : CopyOf(k, puts, early')
    BY <1>0, <1>3, <2>1 DEF CopiesKnown
  <2>3. \A k \in Replicas : reg[k] # NoReg => CopyOf(reg[k], puts, early')
    BY <1>0, <2>1 DEF CopiesKnown
  <2> QED
    BY <1>1, <2>2, <2>3 DEF CopiesKnown
<1>7. (OwnStamps => OwnStamps') /\ (StampsDiffer => StampsDiffer') /\ (Overwrites => Overwrites')
  BY <1>1 DEF OwnStamps, StampsDiffer, Overwrites
<1> QED
  BY <1>1, <1>3, <1>4, <1>5, <1>6, <1>7 DEF CrdtInv

\* apply_delta advances the clock beyond the delta's stamp and keeps the later
\* value.
LEMMA ApplyStays ==
  ASSUME NoSaturation, CrdtInv, NEW n \in Replicas, NEW m \in regNet, ApplyRegister(n, m)
  PROVE  CrdtInv'
<1>0. CrdtTypes /\ Ticked /\ CopiesKnown /\ ClockAhead
  BY DEF CrdtInv
<1>1. /\ UNCHANGED <<regNet, puts, early, rewound>> /\ applies < MaxApplies /\ applies' = applies + 1
      /\ reg' = [reg EXCEPT ![n] = SetWithTimestamp(reg[n], m)]
  BY DEF ApplyRegister
<1>2. PICK now \in Clocks : hlc' = [hlc EXCEPT ![n] = Receive(hlc[n], m.ts, now)]
  BY DEF ApplyRegister
<1> DEFINE c == Receive(hlc[n], m.ts, now)
<1>3. Budget \in Nat /\ Budget' = Budget + 1 /\ Budget < MaxLogical /\ applies' \in Nat /\ applies' <= MaxApplies
  BY <1>0, <1>1, RegisterAssumption DEF CrdtTypes, Budget, NoSaturation
<1>4. m \in Regs /\ m.ts \in Stamps /\ CopyOf(m, puts, early) /\ m.ts[2] <= Budget
  BY <1>0 DEF CrdtTypes, Regs, CopiesKnown, CopyOf, Ticked
<1>5. c \in Clocks \X Logical /\ Less(hlc[n], c) /\ Less(m.ts, c) /\ c[2] <= Budget + 1
  <2>1. hlc[n] \in Clocks \X Logical /\ hlc[n][2] <= Budget
    BY <1>0 DEF CrdtTypes, Ticked
  <2> QED
    BY <1>3, <1>4, <2>1, ReceiveLater
<1> HIDE DEF c
<1>6. /\ hlc' \in [Replicas -> Clocks \X Logical] /\ hlc'[n] = c /\ \A k \in Replicas \ {n} : hlc'[k] = hlc[k]
      /\ reg' \in [Replicas -> Regs \cup {NoReg}] /\ (reg'[n] = m \/ reg'[n] = reg[n])
      /\ \A k \in Replicas \ {n} : reg'[k] = reg[k]
  BY <1>0, <1>1, <1>2, <1>4, <1>5 DEF CrdtTypes, SetWithTimestamp, c
<1>7. CrdtTypes'
  BY <1>0, <1>1, <1>3, <1>6 DEF CrdtTypes
<1>8. Ticked'
  <2>1. \A k \in Replicas : hlc[k][2] \in Nat /\ hlc[k][2] <= Budget
    <3>1. \A k \in Replicas : hlc[k] \in Clocks \X Logical
      BY <1>0 DEF CrdtTypes
    <3>2. \A k \in Replicas : hlc[k][2] \in Nat
      BY <3>1, Pairs DEF Pair
    <3> QED
      BY <1>0, <3>2 DEF Ticked
  <2>2. \A i \in 1 .. Len(puts) : /\ puts[i].returned[2] \in Nat /\ puts[i].returned[2] <= Budget
                                  /\ puts[i].kept[2] \in Nat /\ puts[i].kept[2] <= Budget
    <3>1. \A i \in 1 .. Len(puts) : puts[i] \in Puts
      BY <1>0 DEF CrdtTypes
    <3> QED
      BY <1>0, <3>1, Pairs DEF Ticked, Puts, Pair
  <2>3. \A k \in Replicas : hlc'[k][2] <= Budget'
    BY <1>3, <1>5, <1>6, <2>1
  <2>4. \A i \in 1 .. Len(puts) : puts[i].returned[2] <= Budget' /\ puts[i].kept[2] <= Budget'
    BY <1>3, <2>2
  <2> QED
    BY <1>1, <2>3, <2>4 DEF Ticked
<1>9. CopiesKnown'
  BY <1>0, <1>1, <1>4, <1>6 DEF CopiesKnown
<1>10. Pair(hlc[n]) /\ Pair(c) /\ Pair(m.ts)
  BY <1>0, <1>4, <1>5, Pairs DEF CrdtTypes
<1>11. ClockAhead'
  <2> SUFFICES ASSUME NEW k \in Replicas, reg'[k] # NoReg PROVE UpTo(reg'[k].ts, hlc'[k])
    BY DEF ClockAhead
  <2>1. CASE k # n
    BY <1>0, <1>6, <2>1 DEF ClockAhead
  <2>2. CASE k = n /\ reg'[n] = m
    BY <1>5, <1>6, <1>10, <2>2, Orders
  <2>3. CASE k = n /\ reg'[n] = reg[n]
    <3>1. UpTo(reg[n].ts, hlc[n]) /\ Pair(reg[n].ts)
      BY <1>0, <2>3, Pairs DEF ClockAhead, CrdtTypes, Regs
    <3>2. Less(reg[n].ts, c)
      BY <1>5, <1>10, <3>1, Orders
    <3> QED
      BY <1>6, <1>10, <2>3, <3>1, <3>2, Orders
  <2> QED
    BY <1>6, <2>1, <2>2, <2>3
<1>12. OwnStamps => OwnStamps'
  <2> SUFFICES ASSUME OwnStamps, NEW i \in 1 .. Len(puts), NEW a \in {puts[i].returned, puts[i].kept}
               PROVE  UpTo(a, hlc'[puts[i].kept[3]])
    BY <1>1 DEF OwnStamps
  <2>1. Pair(a) /\ puts[i].kept[3] \in Replicas /\ UpTo(a, hlc[puts[i].kept[3]])
    <3>1. puts[i] \in Puts
      BY <1>0 DEF CrdtTypes
    <3>2. a \in Stamps /\ puts[i].kept \in Stamps
      BY <3>1 DEF Puts
    <3>3. UpTo(a, hlc[puts[i].kept[3]])
      BY a \in {puts[i].returned, puts[i].kept} DEF OwnStamps
    <3> QED
      BY <3>2, <3>3, Pairs
  <2>2. CASE puts[i].kept[3] = n
    <3>1. Less(a, c)
      BY <1>5, <1>10, <2>1, <2>2, Orders
    <3> QED
      BY <1>6, <1>10, <2>1, <2>2, <3>1, Orders
  <2> QED
    BY <1>6, <2>1, <2>2
<1>13. (StampsDiffer => StampsDiffer') /\ (Overwrites => Overwrites')
  BY <1>1 DEF StampsDiffer, Overwrites
<1> QED
  BY <1>1, <1>7, <1>8, <1>9, <1>11, <1>12, <1>13 DEF CrdtInv

\* A replica that starts again has no register, and a clock that may be behind
\* the old one.
LEMMA RestartStays ==
  ASSUME CrdtInv, NEW n \in Replicas, RestartStore(n)
  PROVE  CrdtInv'
<1>0. CrdtTypes /\ Ticked /\ CopiesKnown /\ ClockAhead
  BY DEF CrdtInv
<1>1. UNCHANGED <<regNet, puts, applies, early>> /\ reg' = [reg EXCEPT ![n] = NoReg]
  BY DEF RestartStore
<1>2. PICK now \in Clocks : hlc' = [hlc EXCEPT ![n] = <<now, 0>>] /\ rewound' = (rewound \/ now <= hlc[n][1])
  BY DEF RestartStore
<1>3. <<now, 0>> \in Clocks \X Logical /\ now \in Nat
  BY RegisterAssumption DEF Clocks, Logical
<1>4. /\ hlc' \in [Replicas -> Clocks \X Logical] /\ hlc'[n] = <<now, 0>> /\ \A k \in Replicas \ {n} : hlc'[k] = hlc[k]
      /\ reg' \in [Replicas -> Regs \cup {NoReg}] /\ reg'[n] = NoReg /\ \A k \in Replicas \ {n} : reg'[k] = reg[k]
  BY <1>0, <1>1, <1>2, <1>3 DEF CrdtTypes
<1>5. CrdtTypes'
  <2>1. rewound' \in BOOLEAN
    BY <1>2
  <2> QED
    BY <1>0, <1>1, <1>4, <2>1 DEF CrdtTypes
<1>6. Ticked'
  <2>1. Budget \in Nat /\ Budget' = Budget
    BY <1>0, <1>1 DEF Budget, CrdtTypes
  <2>2. \A k \in Replicas : hlc'[k][2] <= Budget
    BY <1>0, <1>4, <2>1 DEF Ticked
  <2> QED
    BY <1>0, <1>1, <2>1, <2>2 DEF Ticked
<1>7. CopiesKnown' /\ ClockAhead'
  BY <1>0, <1>1, <1>4 DEF CopiesKnown, ClockAhead
<1>8. ASSUME ~rewound', OwnStamps PROVE OwnStamps'
  <2> SUFFICES ASSUME NEW i \in 1 .. Len(puts), NEW a \in {puts[i].returned, puts[i].kept}
               PROVE  UpTo(a, hlc'[puts[i].kept[3]])
    BY <1>1, <1>8 DEF OwnStamps
  <2>1. Pair(a) /\ puts[i].kept[3] \in Replicas /\ UpTo(a, hlc[puts[i].kept[3]])
    <3>1. puts[i] \in Puts
      BY <1>0 DEF CrdtTypes
    <3>2. a \in Stamps /\ puts[i].kept \in Stamps
      BY <3>1 DEF Puts
    <3>3. UpTo(a, hlc[puts[i].kept[3]])
      BY <1>8, a \in {puts[i].returned, puts[i].kept} DEF OwnStamps
    <3> QED
      BY <3>2, <3>3, Pairs
  <2>2. CASE puts[i].kept[3] = n
    <3>1. Pair(hlc[n]) /\ ~(now <= hlc[n][1])
      BY <1>0, <1>2, <1>8, Pairs DEF CrdtTypes
    <3> QED
      BY <1>3, <1>4, <2>1, <2>2, <3>1 DEF UpTo, Pair
  <2> QED
    BY <1>4, <2>1, <2>2
<1>9. (StampsDiffer => StampsDiffer') /\ (Overwrites => Overwrites')
  BY <1>1 DEF StampsDiffer, Overwrites
<1>10. ~rewound' => ~rewound
  BY <1>2
<1> QED
  BY <1>1, <1>5, <1>6, <1>7, <1>8, <1>9, <1>10 DEF CrdtInv

\* Every step keeps the invariant, one case per action.
LEMMA CrdtPreserved == ASSUME NoSaturation, CrdtInv, [RegisterNext]_registerVars PROVE CrdtInv'
<1>1. CASE UNCHANGED registerVars
  BY <1>1 DEF registerVars, CrdtInv, CrdtTypes, Ticked, Budget, CopiesKnown, CopyOf, ClockAhead, OwnStamps, StampsDiffer, Overwrites
<1> QED
  BY <1>1, PutStays, SendStays, ApplyStays, RestartStays DEF RegisterNext

\* For any number of replicas, puts, deltas and restarts: as long as no
\* logical clock saturates and no restart sets a clock back, copies under one
\* timestamp are copies of one write (HLC::now, HLC::receive, apply_delta).
THEOREM StampsIdentify == ASSUME NoSaturation PROVE RegisterSpec => []TimestampIdentifiesWrite
<1>1. CrdtInv => TimestampIdentifiesWrite
  BY DEF CrdtInv, TimestampIdentifiesWrite, StampsDiffer, CopiesKnown, CopyOf, Copies
<1> QED
  BY <1>1, CrdtInitial, CrdtPreserved, PTL DEF RegisterSpec

\* For any number of replicas, puts, deltas and restarts: as long as no
\* logical clock saturates and deltas carry the timestamp of the register, a
\* write is later than every copy of the write it replaced, even when clocks
\* are set back (put, delete, set_with_timestamp).
THEOREM OverwritesLater == ASSUME NoSaturation PROVE RegisterSpec => []OverwriteIsLater
<1>1. CrdtInv => OverwriteIsLater
  <2> SUFFICES ASSUME CrdtInv, ~early, NEW a \in Copies, NEW b \in Copies, puts[b.write].over = a.write
               PROVE  Before(a.ts, b.ts)
    BY DEF OverwriteIsLater
  <2>1. CopyOf(a, puts, early) /\ CopyOf(b, puts, early)
    BY DEF CrdtInv, CopiesKnown, Copies
  <2> QED
    BY <2>1 DEF CopyOf, CrdtInv, Overwrites
<1> QED
  BY <1>1, CrdtInitial, CrdtPreserved, PTL DEF RegisterSpec

-----------------------------------------------------------------------------
Held == [n \in Replicas |-> reg[n].ts]
Issued == UNION {{puts[i].returned, puts[i].kept} : i \in 1 .. Len(puts)}

\* The initial states are initial states of the abstract register.
LEMMA StartsAsVersions == RegisterInit => Register!VersionInit
<1> SUFFICES ASSUME RegisterInit PROVE Register!VersionInit
  OBVIOUS
<1>1. [n \in Replicas |-> reg[n].ts] = [n \in Replicas |-> NoReg.ts]
  BY DEF RegisterInit
<1>2. UNION {{puts[i].returned, puts[i].kept} : i \in 1 .. Len(puts)} = {}
  BY DEF RegisterInit
<1> QED
  BY <1>1, <1>2 DEF Register!VersionInit

\* The issued versions are the timestamps of the writes.
LEMMA IssuedMeans == \A v : v \in Issued <=> \E i \in 1 .. Len(puts) : v = puts[i].returned \/ v = puts[i].kept
BY DEF Issued

\* A put is a Write of the abstract register.
LEMMA PutWrites ==
  ASSUME NoSaturation, CrdtInv, NEW n \in Replicas, Put(n)
  PROVE  Register!Write(n)
<1>0. CrdtTypes /\ ClockAhead
  BY DEF CrdtInv
<1>1. PICK first \in Clocks \X Logical, second \in Clocks \X Logical :
           /\ Less(hlc[n], first) /\ UpTo(first, second)
           /\ reg' = [reg EXCEPT ![n] = [ts |-> Stamp(n, second), write |-> Len(puts) + 1]]
           /\ puts' = Append(puts, [returned |-> Stamp(n, first), kept |-> Stamp(n, second), over |-> reg[n].write])
           /\ (first = second \/ Less(first, second))
  BY PutStamps
<1> DEFINE p == [returned |-> Stamp(n, first), kept |-> Stamp(n, second), over |-> reg[n].write]
<1> DEFINE s1 == Stamp(n, first)
<1> DEFINE s2 == Stamp(n, second)
<1>2. /\ s1 \in Stamps /\ s2 \in Stamps /\ s1[3] = n /\ s2[3] = n
      /\ s1[1] = first[1] /\ s1[2] = first[2] /\ s2[1] = second[1] /\ s2[2] = second[2]
  BY LessFacts
<1>3. Pair(hlc[n]) /\ Pair(first) /\ Pair(second)
  BY <1>0, Pairs DEF CrdtTypes
<1>4. s1 = s2 \/ Before(s1, s2)
  <2>1. CASE first = second
    BY <2>1
  <2>2. CASE Less(first, second)
    <3> HIDE DEF s1, s2
    <3> QED
      BY <1>2, <2>2 DEF Less, Before
  <2> QED
    BY <1>1, <2>1, <2>2
<1>5. p.returned = s1 /\ p.kept = s2 /\ p \in Puts
  <2>1. reg[n].write \in Nat
    BY <1>0 DEF CrdtTypes, Regs, NoReg
  <2> QED
    BY <1>2, <2>1 DEF Puts
<1>6. puts' = Append(puts, p) /\ reg'[n].ts = s2 /\ \A k \in Replicas \ {n} : reg'[k] = reg[k]
  BY <1>0, <1>1 DEF CrdtTypes
<1> HIDE DEF p, s1, s2
<1>7. reg[n].ts = NoReg.ts \/ (Before(reg[n].ts, s1) /\ Before(reg[n].ts, s2))
  <2> SUFFICES ASSUME reg[n] # NoReg PROVE Before(reg[n].ts, s1) /\ Before(reg[n].ts, s2)
    OBVIOUS
  <2>1. UpTo(reg[n].ts, hlc[n]) /\ Pair(reg[n].ts)
    BY <1>0, Pairs DEF ClockAhead, CrdtTypes, Regs
  <2>2. Less(reg[n].ts, first) /\ Less(reg[n].ts, second)
    <3>1. Less(reg[n].ts, first)
      BY <1>1, <1>3, <2>1, Orders
    <3> QED
      BY <1>1, <1>3, <2>1, <3>1, Orders
  <2> QED
    BY <1>2, <2>2 DEF Less, Before
<1>8. Issued' = Issued \cup {s1, s2}
  <2>1. /\ \A i \in 1 .. Len(puts) : puts'[i] = puts[i]
        /\ puts'[Len(puts) + 1] = p
        /\ \A i \in 1 .. Len(puts') : i \in 1 .. Len(puts) \/ i = Len(puts) + 1
        /\ \A i \in 1 .. Len(puts) : i \in 1 .. Len(puts')
        /\ Len(puts) + 1 \in 1 .. Len(puts')
    BY <1>0, <1>5, <1>6, Added DEF CrdtTypes
  <2>2. \A v : v \in Issued' <=> \E i \in 1 .. Len(puts') : v = puts'[i].returned \/ v = puts'[i].kept
    BY DEF Issued
  <2>3. \A v : v \in Issued' <=> v \in Issued \/ v = s1 \/ v = s2
    BY <1>5, <2>1, <2>2, IssuedMeans
  <2> QED
    BY <2>3
<1>9. Held'[n] = s2 /\ Held[n] = reg[n].ts /\ Held' = [Held EXCEPT ![n] = Held'[n]]
  BY <1>6 DEF Held
<1>10. /\ Held'[n] \in Clocks \X (0 .. MaxLogical) \X Replicas
       /\ Register!Above(Held'[n], Held[n])
       /\ \E u \in Issued' : /\ Register!Above(u, Held[n])
                             /\ u = Held'[n] \/ Before(u, Held'[n])
                             /\ Issued' = Issued \cup {u, Held'[n]}
  BY <1>2, <1>4, <1>7, <1>8, <1>9 DEF Register!Above, Stamps, Logical
<1> QED
  BY <1>9, <1>10 DEF Register!Write, Held, Issued

\* A delta that is applied is a Synchronise of the abstract register, or
\* nothing.
LEMMA ApplySynchronises ==
  ASSUME CrdtInv, NEW n \in Replicas, NEW m \in regNet, ApplyRegister(n, m)
  PROVE  Register!Synchronise(n) \/ UNCHANGED <<Held, Issued>>
<1>0. CrdtTypes /\ CopiesKnown
  BY DEF CrdtInv
<1>1. UNCHANGED puts /\ reg' = [reg EXCEPT ![n] = SetWithTimestamp(reg[n], m)]
  BY DEF ApplyRegister
<1>2. Issued' = Issued
  BY <1>1 DEF Issued
<1>3. m.ts \in Issued
  BY <1>0, IssuedMeans DEF CopiesKnown, CopyOf
<1>4. CASE reg[n] = NoReg \/ Before(reg[n].ts, m.ts)
  <2>1. reg'[n] = m /\ \A k \in Replicas \ {n} : reg'[k] = reg[k]
    BY <1>0, <1>1, <1>4 DEF CrdtTypes, SetWithTimestamp
  <2>2. Held' = [Held EXCEPT ![n] = m.ts] /\ Register!Above(m.ts, Held[n])
    BY <1>4, <2>1 DEF Held, Register!Above
  <2>3. Register!Synchronise(n)
    BY <1>2, <1>3, <2>2 DEF Register!Synchronise, Held, Issued
  <2> QED
    BY <2>3
<1>5. CASE ~(reg[n] = NoReg \/ Before(reg[n].ts, m.ts))
  <2>1. reg' = reg
    BY <1>0, <1>1, <1>5 DEF CrdtTypes, SetWithTimestamp
  <2> QED
    BY <1>2, <2>1 DEF Held
<1> QED
  BY <1>4, <1>5

\* A restart is a Forget of the abstract register.
LEMMA RestartForgets ==
  ASSUME CrdtInv, NEW n \in Replicas, RestartStore(n)
  PROVE  Register!Forget(n)
<1>1. CrdtTypes /\ UNCHANGED puts /\ reg' = [reg EXCEPT ![n] = NoReg]
  BY DEF CrdtInv, RestartStore
<1>2. Issued' = Issued /\ Held' = [Held EXCEPT ![n] = NoReg.ts]
  BY <1>1 DEF Issued, Held, CrdtTypes
<1> QED
  BY <1>2 DEF Register!Forget, Held, Issued

\* Every step is a step of the abstract register or leaves it alone.
LEMMA StepsAsVersions ==
  ASSUME NoSaturation, CrdtInv, [RegisterNext]_registerVars
  PROVE  [Register!VersionNext]_<<Held, Issued>>
<1>1. ASSUME UNCHANGED <<reg, puts>> PROVE UNCHANGED <<Held, Issued>>
  BY <1>1 DEF Held, Issued
<1>2. CASE UNCHANGED registerVars
  BY <1>1, <1>2 DEF registerVars
<1>3. ASSUME NEW n \in Replicas, SendState(n) \/ SendReturned(n) PROVE UNCHANGED <<Held, Issued>>
  BY <1>1, <1>3 DEF SendState, SendReturned
<1>4. ASSUME NEW n \in Replicas, Put(n) \/ RestartStore(n) \/ \E m \in regNet : ApplyRegister(n, m)
      PROVE  Register!VersionNext \/ UNCHANGED <<Held, Issued>>
  BY <1>4, PutWrites, RestartForgets, ApplySynchronises DEF Register!VersionNext
<1> QED
  BY <1>2, <1>3, <1>4 DEF RegisterNext

\* The registers implement the replicated version of ReplicatedVersion as long
\* as no logical clock saturates: the version of a replica only moves up, to
\* something that was written, until the replica starts again (put,
\* apply_delta, a restart).
THEOREM RegisterRefines == ASSUME NoSaturation PROVE RegisterSpec => ImplementsVersions
<1>1. ASSUME CrdtInv, [RegisterNext]_registerVars
      PROVE  [Register!VersionNext]_<<[n \in Replicas |-> reg[n].ts], UNION {{puts[i].returned, puts[i].kept} : i \in 1 .. Len(puts)}>>
  BY <1>1, StepsAsVersions DEF Held, Issued
<1> QED
  BY <1>1, StartsAsVersions, CrdtInitial, CrdtPreserved, PTL DEF RegisterSpec, ImplementsVersions, Register!VersionSpec

-----------------------------------------------------------------------------
(* The persistent log *)

(* The least and the greatest element of a set of numbers *)

\* A set of natural numbers that is not empty has a least element.
LEMMA LeastElement ==
  ASSUME NEW S, S \subseteq Nat, S # {}
  PROVE  \E i \in S : \A j \in S : i <= j
<1>1. PICK i \in S : \A j \in S : <<j, i>> \notin OpToRel(<, Nat)
  BY NatLessThanWellFounded, WFMin
<1>2. \A j \in S : ~(j < i)
  BY <1>1 DEF OpToRel
<1> QED
  BY <1>2

\* One that has a bound has a greatest element.
LEMMA GreatestElement ==
  ASSUME NEW n \in Nat, NEW S, S \subseteq 0 .. n, S # {}
  PROVE  \E i \in S : \A j \in S : j <= i
<1> DEFINE T == {k \in 0 .. n : n - k \in S}
<1>1. T \subseteq Nat /\ T # {}
  <2>1. PICK i \in S : TRUE
    OBVIOUS
  <2>2. n - i \in 0 .. n /\ n - (n - i) = i
    BY <2>1
  <2>3. n - i \in T
    BY <2>1, <2>2
  <2>4. T \subseteq Nat
    OBVIOUS
  <2> HIDE DEF T
  <2> QED
    BY <2>3, <2>4
<1>2. PICK k \in T : \A m \in T : k <= m
  BY <1>1, LeastElement
<1>3. n - k \in S /\ k \in 0 .. n
  BY <1>2
<1>4. ASSUME NEW j \in S PROVE j <= n - k
  <2>1. n - j \in 0 .. n /\ n - (n - j) = j
    BY <1>4
  <2>2. n - j \in T
    BY <2>1
  <2> QED
    BY <2>2, <1>2, <1>3
<1> QED
  BY <1>3, <1>4
-----------------------------------------------------------------------------
(* Answers survive a crash *)

Trees == [log : [Indices -> Nat], vote : Nat, committed : Nat, purged : 0 .. MaxIndex]
RaftOps == {"idle", "save_vote", "append", "save_committed", "truncate", "purge", "purged"}

RaftTypes ==
  /\ tree \in Trees /\ tree \in durable /\ durable \subseteq Trees
  /\ acked \in [log : [Indices -> Nat], vote : Nat, committed : Nat]
  /\ job \in [op : RaftOps, todo : SUBSET Indices, arg : Nat, drops : SUBSET (Indices \X Nat)]
  /\ gone \subseteq Indices \X Nat

\* What an operation is about to answer for is in the tree; a purge goes up to an
\* index of the log.
AnswerReady ==
  /\ job.op = "save_vote" => tree.vote = job.arg
  /\ job.op = "save_committed" => tree.committed = job.arg
  /\ job.op = "purge" => job.arg \in Indices

\* Only save_vote leaves trees with different votes behind until it flushes.
OneVote == job.op # "save_vote" => \A d \in durable : d.vote = tree.vote

\* What is removed is not acknowledged any more; a truncated entry has a term
\* below the vote, and is gone from the tree once its key is done.
Removing ==
  /\ \A i \in job.todo : acked.log[i] = 0
  /\ job.op = "truncate" => \A e \in job.drops : /\ e[2] # 0 /\ e[2] < tree.vote
                                                 /\ e[1] \in job.todo \/ tree.log[e[1]] = 0

\* Terms that were truncated are below every vote that may come back.
GoneIsOld == \A e \in gone : e[2] # 0 /\ \A d \in durable : e[2] < d.vote

RaftInv == RaftTypes /\ AnswerReady /\ OneVote /\ Removing /\ GoneIsOld /\ AnswersSurviveCrash

\* The highest of some indices is one of them.
LEMMA HighestIsGreatest ==
  ASSUME NEW S, S \subseteq 0 .. MaxIndex, S # {}
  PROVE  Highest(S, 0) \in S /\ \A i \in S : i <= Highest(S, 0)
<1>1. \E i \in S : \A j \in S : j <= i
  BY RaftLogAssumption, GreatestElement
<1>2. Highest(S, 0) = CHOOSE i \in S : \A j \in S : j <= i
  BY DEF Highest
<1> QED
  BY <1>1, <1>2

\* The library's last index is at least every index that is present.
LEMMA LastLogBounds ==
  ASSUME NEW d \in Trees
  PROVE  LastLog(d) \in 0 .. MaxIndex /\ \A i \in Present(d) : i <= LastLog(d)
<1> DEFINE S == {LastLogId(d), d.purged}
<1>1. Present(d) \subseteq 0 .. MaxIndex /\ d.purged \in 0 .. MaxIndex
  BY RaftLogAssumption DEF Trees, Present, Indices
<1>2. LastLogId(d) \in 0 .. MaxIndex /\ \A i \in Present(d) : i <= LastLogId(d)
  <2>1. CASE Present(d) = {}
    BY <2>1, RaftLogAssumption DEF LastLogId, Highest
  <2>2. CASE Present(d) # {}
    BY <1>1, <2>2, HighestIsGreatest DEF LastLogId
  <2> QED
    BY <2>1, <2>2
<1>3. S \subseteq 0 .. MaxIndex /\ S # {}
  BY <1>1, <1>2
<1>4. Highest(S, 0) \in S /\ LastLogId(d) <= Highest(S, 0)
  BY <1>3, HighestIsGreatest
<1>5. LastLog(d) = Highest(S, 0)
  BY DEF LastLog
<1> HIDE DEF S
<1>6. LastLog(d) \in 0 .. MaxIndex /\ LastLogId(d) <= LastLog(d)
  BY <1>3, <1>4, <1>5
<1> QED
  BY <1>1, <1>2, <1>6, RaftLogAssumption

\* The log is empty at the start.
LEMMA RaftInitial == RaftLogInit => RaftInv
BY RaftLogAssumption DEF RaftLogInit, RaftInv, RaftTypes, AnswerReady, OneVote, Removing, GoneIsOld,
   AnswersSurviveCrash, EmptyTree, NoJob, Trees, RaftOps

\* Every step keeps the invariant, one case per action.
LEMMA RaftPreserved == RaftInv /\ [RaftLogNext]_raftVars => RaftInv'
<1> SUFFICES ASSUME RaftInv, [RaftLogNext]_raftVars PROVE RaftInv'
  OBVIOUS
<1>0. RaftTypes /\ AnswerReady /\ OneVote /\ Removing /\ GoneIsOld /\ AnswersSurviveCrash
  BY DEF RaftInv
<1>t. tree \in Trees /\ tree.vote \in Nat /\ tree.committed \in Nat
      /\ tree.log \in [Indices -> Nat] /\ tree.purged \in 0 .. MaxIndex
  BY <1>0 DEF RaftTypes, Trees
<1> USE RaftLogAssumption
<1>1. ASSUME NEW v \in 1 .. MaxVote, SaveVote(v) PROVE RaftInv'
  <2> DEFINE new == [tree EXCEPT !.vote = v]
  <2>1. tree' = new /\ durable' = durable \cup {new} /\ acked' = acked /\ gone' = gone
        /\ job' = [op |-> "save_vote", todo |-> {}, arg |-> v, drops |-> {}]
    BY <1>1 DEF SaveVote, SledWrite, Begin
  <2>2. new \in Trees /\ new.vote = v /\ new.log = tree.log /\ new.committed = tree.committed
        /\ v > tree.vote /\ v \in Nat
    BY <1>1, <1>t DEF Trees, SaveVote
  <2> HIDE DEF new
  <2>3. RaftTypes'
    BY <1>0, <2>1, <2>2 DEF RaftTypes, RaftOps
  <2>4. AnswerReady' /\ OneVote' /\ Removing'
    BY <1>0, <2>1, <2>2 DEF AnswerReady, OneVote, Removing
  <2>5. GoneIsOld'
    BY <1>0, <1>t, <2>1, <2>2 DEF GoneIsOld, RaftTypes, Trees
  <2>6. AnswersSurviveCrash'
    BY <1>0, <1>t, <2>1, <2>2 DEF AnswersSurviveCrash, RaftTypes, Trees
  <2> QED
    BY <2>3, <2>4, <2>5, <2>6 DEF RaftInv
<1>2. ASSUME NEW last \in Indices, AppendEntries(last) PROVE RaftInv'
  <2> DEFINE log == [i \in Indices |-> IF i > LastLog(tree) /\ i <= last THEN tree.vote ELSE tree.log[i]]
             new == [tree EXCEPT !.log = log]
  <2>1. tree' = new /\ durable' = durable \cup {new} /\ acked' = acked /\ gone' = gone
        /\ job' = [op |-> "append", todo |-> {}, arg |-> 0, drops |-> {}]
    BY <1>2, <1>t DEF AppendEntries, SledWrite, Begin
  <2>2. new \in Trees /\ new.vote = tree.vote /\ new.log = log /\ new.committed = tree.committed
    BY <1>t DEF Trees
  <2>3. \A i \in Indices : log[i] = tree.log[i] \/ (log[i] = tree.vote /\ tree.log[i] = 0)
    BY <1>t, LastLogBounds DEF Present, Indices
  <2> HIDE DEF new, log
  <2>4. RaftTypes'
    BY <1>0, <2>1, <2>2 DEF RaftTypes, RaftOps
  <2>5. AnswerReady' /\ Removing'
    BY <1>0, <2>1, <2>2 DEF AnswerReady, Removing
  <2>6. job.op # "save_vote"
    BY <1>2 DEF AppendEntries, NoJob
  <2>7. OneVote' /\ GoneIsOld'
    BY <1>0, <1>t, <2>1, <2>2, <2>6 DEF OneVote, GoneIsOld, RaftTypes
  <2>8. AnswersSurviveCrash'
    <3>1. new.vote >= acked.vote /\ new.committed >= acked.committed
      BY <1>0, <2>2 DEF AnswersSurviveCrash, RaftTypes
    <3>2. ASSUME NEW i \in Indices
          PROVE  (acked.log[i] # 0 => new.log[i] = acked.log[i]) /\ <<i, new.log[i]>> \notin gone
      <4>1. (acked.log[i] # 0 => tree.log[i] = acked.log[i]) /\ <<i, tree.log[i]>> \notin gone
        BY <1>0 DEF AnswersSurviveCrash, RaftTypes
      <4>2. <<i, tree.vote>> \notin gone
        BY <1>0, <1>t DEF GoneIsOld, RaftTypes
      <4> QED
        BY <4>1, <4>2, <2>2, <2>3
    <3> QED
      BY <1>0, <2>1, <3>1, <3>2 DEF AnswersSurviveCrash
  <2> QED
    BY <2>4, <2>5, <2>7, <2>8 DEF RaftInv
<1>3. ASSUME NEW c \in Indices, SaveCommitted(c) PROVE RaftInv'
  <2> DEFINE new == [tree EXCEPT !.committed = c]
  <2>1. tree' = new /\ durable' = durable \cup {new} /\ acked' = acked /\ gone' = gone
        /\ job' = [op |-> "save_committed", todo |-> {}, arg |-> c, drops |-> {}]
    BY <1>3 DEF SaveCommitted, SledWrite, Begin
  <2>2. new \in Trees /\ new.vote = tree.vote /\ new.log = tree.log /\ new.committed = c
        /\ c > tree.committed /\ c \in Nat /\ job.op # "save_vote"
    BY <1>3, <1>t DEF Trees, SaveCommitted, Indices, NoJob
  <2> HIDE DEF new
  <2>3. RaftTypes'
    BY <1>0, <2>1, <2>2 DEF RaftTypes, RaftOps
  <2>4. AnswerReady' /\ OneVote' /\ Removing'
    BY <1>0, <2>1, <2>2 DEF AnswerReady, OneVote, Removing
  <2>5. GoneIsOld'
    BY <1>0, <1>t, <2>1, <2>2 DEF GoneIsOld, RaftTypes, Trees
  <2>6. AnswersSurviveCrash'
    BY <1>0, <1>t, <2>1, <2>2 DEF AnswersSurviveCrash, RaftTypes, Trees
  <2> QED
    BY <2>3, <2>4, <2>5, <2>6 DEF RaftInv
<1>4. ASSUME NEW op \in {"truncate", "purge"}, NEW todo \in SUBSET Present(tree), NEW to \in Indices,
             NEW log \in [Indices -> Nat], UNCHANGED <<tree, durable, gone>>, job = NoJob,
             job' = [op |-> op, todo |-> todo, arg |-> to, drops |-> {<<k, tree.log[k]>> : k \in todo}],
             acked' = [acked EXCEPT !.log = log],
             \A k \in todo : log[k] = 0 /\ (op = "truncate" => tree.log[k] < tree.vote),
             \A k \in Indices : log[k] \in {0, acked.log[k]}
      PROVE  RaftInv'
  <2>1. todo \subseteq Indices /\ \A k \in todo : tree.log[k] # 0
    BY <1>4 DEF Present
  <2>2. acked' \in [log : [Indices -> Nat], vote : Nat, committed : Nat]
        /\ acked'.log = log /\ acked'.vote = acked.vote /\ acked'.committed = acked.committed
    BY <1>0, <1>4 DEF RaftTypes
  <2>3. job'.drops \in SUBSET (Indices \X Nat) /\ job'.todo = todo /\ job'.op = op
        /\ \A e \in job'.drops : e[1] \in todo /\ e[2] = tree.log[e[1]]
    BY <1>4, <1>t, <2>1
  <2>4. RaftTypes'
    <3>1. to \in Nat /\ op \in RaftOps
      BY <1>4 DEF RaftOps, Indices
    <3> DEFINE d == {<<k, tree.log[k]>> : k \in todo}
    <3>2. job' = [op |-> op, todo |-> todo, arg |-> to, drops |-> d] /\ d \in SUBSET (Indices \X Nat)
      BY <1>4, <2>3
    <3> HIDE DEF d
    <3>3. job' \in [op : RaftOps, todo : SUBSET Indices, arg : Nat, drops : SUBSET (Indices \X Nat)]
      BY <2>1, <3>1, <3>2
    <3> QED
      BY <1>0, <1>4, <2>2, <3>3 DEF RaftTypes
  <2>5. AnswerReady' /\ OneVote'
    BY <1>0, <1>4, <2>3 DEF AnswerReady, OneVote, NoJob
  <2>6. Removing'
    BY <1>4, <2>1, <2>2, <2>3 DEF Removing
  <2>7. GoneIsOld'
    BY <1>0, <1>4 DEF GoneIsOld
  <2>8. AnswersSurviveCrash'
    BY <1>0, <1>4, <2>2 DEF AnswersSurviveCrash
  <2> QED
    BY <2>4, <2>5, <2>6, <2>7, <2>8 DEF RaftInv
<1>5. ASSUME NEW i \in Indices, Truncate(i) PROVE RaftInv'
  <2> DEFINE todo == {k \in Present(tree) : k >= i}
             log == [k \in Indices |-> IF k >= i THEN 0 ELSE acked.log[k]]
  <2>1. job' = [op |-> "truncate", todo |-> todo, arg |-> i, drops |-> {<<k, tree.log[k]>> : k \in todo}]
    BY <1>5 DEF Truncate, Begin
  <2>2. acked' = [acked EXCEPT !.log = log]
    BY <1>5, <1>0 DEF Truncate, RaftTypes
  <2>3. log \in [Indices -> Nat] /\ \A k \in Indices : log[k] \in {0, acked.log[k]}
    BY <1>0 DEF RaftTypes
  <2>4. \A k \in todo : log[k] = 0 /\ tree.log[k] < tree.vote
    BY <1>5 DEF Truncate, Present
  <2>5. todo \in SUBSET Present(tree)
    OBVIOUS
  <2> HIDE DEF todo, log
  <2> QED
    BY <1>4, <1>5, <2>1, <2>2, <2>3, <2>4, <2>5 DEF Truncate
<1>6. ASSUME NEW i \in Indices, Purge(i) PROVE RaftInv'
  <2> DEFINE todo == {k \in Present(tree) : k <= i}
             log == [k \in Indices |-> IF k <= i THEN 0 ELSE acked.log[k]]
  <2>1. job' = [op |-> "purge", todo |-> todo, arg |-> i, drops |-> {<<k, tree.log[k]>> : k \in todo}]
    BY <1>6 DEF Purge, Begin
  <2>2. acked' = [acked EXCEPT !.log = log]
    BY <1>6, <1>0 DEF Purge, RaftTypes
  <2>3. log \in [Indices -> Nat] /\ \A k \in Indices : log[k] \in {0, acked.log[k]}
    BY <1>0 DEF RaftTypes
  <2>4. \A k \in todo : log[k] = 0
    BY DEF Present
  <2>5. todo \in SUBSET Present(tree)
    OBVIOUS
  <2> HIDE DEF todo, log
  <2> QED
    BY <1>4, <1>6, <2>1, <2>2, <2>3, <2>4, <2>5 DEF Purge
<1>7. ASSUME RemoveKey PROVE RaftInv'
  <2> DEFINE i == Lowest(job.todo)
             new == [tree EXCEPT !.log[i] = 0]
  <2>1. i \in job.todo /\ i \in Indices
    <3>1. job.todo \subseteq Nat /\ job.todo # {} /\ job.todo \subseteq Indices
      BY <1>0, <1>7 DEF RemoveKey, RaftTypes, Indices
    <3>2. \E k \in job.todo : \A j \in job.todo : k <= j
      BY <3>1, LeastElement
    <3> QED
      BY <3>1, <3>2 DEF Lowest
  <2>2. tree' = new /\ durable' = durable \cup {new} /\ acked' = acked /\ gone' = gone
        /\ job' = [job EXCEPT !.todo = @ \ {i}]
    BY <1>7 DEF RemoveKey, SledWrite
  <2> HIDE DEF i
  <2>3. new \in Trees /\ new.vote = tree.vote /\ new.log = [tree.log EXCEPT ![i] = 0]
        /\ new.committed = tree.committed
    BY <1>t DEF Trees
  <2>4. job'.op = job.op /\ job'.todo = job.todo \ {i} /\ job'.drops = job.drops /\ job'.arg = job.arg
        /\ job' \in [op : RaftOps, todo : SUBSET Indices, arg : Nat, drops : SUBSET (Indices \X Nat)]
    BY <1>0, <2>2 DEF RaftTypes
  <2> HIDE DEF new
  <2>5. RaftTypes'
    BY <1>0, <2>2, <2>3, <2>4 DEF RaftTypes
  <2>6. AnswerReady' /\ OneVote' /\ GoneIsOld'
    BY <1>0, <1>t, <2>2, <2>3, <2>4 DEF AnswerReady, OneVote, GoneIsOld, RaftTypes
  <2>7. Removing'
    <3>1. \A k \in job'.todo : acked.log[k] = 0
      BY <1>0, <2>4 DEF Removing
    <3>2. ASSUME job.op = "truncate", NEW e \in job.drops
          PROVE  e[2] # 0 /\ e[2] < tree.vote /\ (e[1] \in job'.todo \/ new.log[e[1]] = 0)
      <4>1. e[2] # 0 /\ e[2] < tree.vote /\ (e[1] \in job.todo \/ tree.log[e[1]] = 0) /\ e[1] \in Indices
        BY <1>0, <3>2 DEF Removing, RaftTypes
      <4> QED
        BY <4>1, <2>3, <2>4, <1>t
    <3> QED
      BY <3>1, <3>2, <2>2, <2>3, <2>4 DEF Removing
  <2>8. AnswersSurviveCrash'
    <3>1. ASSUME NEW k \in Indices
          PROVE  (acked.log[k] # 0 => new.log[k] = acked.log[k]) /\ <<k, new.log[k]>> \notin gone
      <4>1. (acked.log[k] # 0 => tree.log[k] = acked.log[k]) /\ <<k, tree.log[k]>> \notin gone
        BY <1>0 DEF AnswersSurviveCrash, RaftTypes
      <4>2. acked.log[i] = 0 /\ <<k, 0>> \notin gone
        BY <1>0, <2>1 DEF GoneIsOld, Removing
      <4> QED
        BY <4>1, <4>2, <2>3, <1>t
    <3>2. new.vote >= acked.vote /\ new.committed >= acked.committed
      BY <1>0, <2>3 DEF AnswersSurviveCrash, RaftTypes
    <3> QED
      BY <1>0, <2>2, <3>1, <3>2 DEF AnswersSurviveCrash
  <2> QED
    BY <2>5, <2>6, <2>7, <2>8 DEF RaftInv
<1>8. ASSUME SetLastPurged PROVE RaftInv'
  <2> DEFINE new == [tree EXCEPT !.purged = job.arg]
  <2>1. tree' = new /\ durable' = durable \cup {new} /\ acked' = acked /\ gone' = gone
        /\ job' = [job EXCEPT !.op = "purged"] /\ job.op = "purge"
    BY <1>8 DEF SetLastPurged, SledWrite
  <2>2. job.arg \in 0 .. MaxIndex
    BY <1>0, <2>1 DEF AnswerReady, Indices
  <2>3. new \in Trees /\ new.vote = tree.vote /\ new.log = tree.log /\ new.committed = tree.committed
    BY <1>t, <2>2 DEF Trees
  <2>4. job'.op = "purged" /\ job'.todo = job.todo
        /\ job' \in [op : RaftOps, todo : SUBSET Indices, arg : Nat, drops : SUBSET (Indices \X Nat)]
    BY <1>0, <2>1 DEF RaftTypes, RaftOps
  <2> HIDE DEF new
  <2>5. RaftTypes'
    BY <1>0, <2>1, <2>3, <2>4 DEF RaftTypes
  <2>6. AnswerReady' /\ OneVote' /\ GoneIsOld' /\ Removing'
    BY <1>0, <1>t, <2>1, <2>3, <2>4 DEF AnswerReady, OneVote, GoneIsOld, RaftTypes, Removing
  <2>7. AnswersSurviveCrash'
    BY <1>0, <2>1, <2>3 DEF AnswersSurviveCrash, RaftTypes
  <2> QED
    BY <2>5, <2>6, <2>7 DEF RaftInv
<1>9. ASSUME FlushAndAck PROVE RaftInv'
  <2>1. tree' = tree /\ durable' = {tree} /\ gone' = gone /\ job' = NoJob
    BY <1>9 DEF FlushAndAck, SledFlush
  <2>2. /\ acked' \in [log : [Indices -> Nat], vote : Nat, committed : Nat]
        /\ acked'.log \in {acked.log, tree.log}
        /\ acked'.vote \in {acked.vote, tree.vote}
        /\ acked'.committed \in {acked.committed, tree.committed}
    BY <1>0, <1>t, <1>9 DEF FlushAndAck, RaftTypes, AnswerReady
  <2>3. RaftTypes'
    BY <1>0, <2>1, <2>2 DEF RaftTypes, RaftOps, NoJob
  <2>4. AnswerReady' /\ OneVote' /\ Removing' /\ GoneIsOld'
    BY <1>0, <2>1 DEF AnswerReady, OneVote, Removing, GoneIsOld, NoJob, RaftTypes
  <2>5. AnswersSurviveCrash'
    BY <1>0, <1>t, <2>1, <2>2 DEF AnswersSurviveCrash, RaftTypes
  <2> QED
    BY <2>3, <2>4, <2>5 DEF RaftInv
<1>10. ASSUME Removed PROVE RaftInv'
  <2>1. tree' = tree /\ durable' \in {durable, {tree}} /\ acked' = acked /\ job' = NoJob
        /\ job.op # "save_vote" /\ job.todo = {}
    BY <1>10 DEF Removed, SledFlush
  <2>2. gone' \subseteq Indices \X Nat
    BY <1>0, <1>10 DEF Removed, RaftTypes
  <2>3. RaftTypes'
    BY <1>0, <2>1, <2>2 DEF RaftTypes, RaftOps, NoJob
  <2>4. AnswerReady' /\ OneVote' /\ Removing'
    BY <1>0, <2>1 DEF AnswerReady, OneVote, Removing, NoJob, RaftTypes
  <2>5. CASE gone' = gone
    BY <1>0, <2>1, <2>3, <2>4, <2>5 DEF GoneIsOld, AnswersSurviveCrash, RaftInv, RaftTypes
  <2>6. CASE gone' # gone
    <3>1. durable' = {tree} /\ gone' = gone \cup job.drops /\ job.op = "truncate"
      BY <1>10, <2>6 DEF Removed, SledFlush
    <3>2. \A e \in job.drops : e[2] # 0 /\ e[2] < tree.vote /\ tree.log[e[1]] = 0
      BY <1>0, <2>1, <3>1 DEF Removing
    <3>3. GoneIsOld'
      BY <1>0, <2>1, <3>1, <3>2 DEF GoneIsOld, RaftTypes
    <3>4. ASSUME NEW k \in Indices PROVE <<k, tree.log[k]>> \notin gone'
      BY <1>0, <3>1, <3>2 DEF AnswersSurviveCrash, RaftTypes
    <3>5. AnswersSurviveCrash'
      BY <1>0, <2>1, <3>1, <3>4 DEF AnswersSurviveCrash, RaftTypes
    <3> QED
      BY <2>3, <2>4, <3>3, <3>5 DEF RaftInv
  <2> QED
    BY <2>5, <2>6
<1>11. ASSUME Crash PROVE RaftInv'
  <2>1. PICK d \in durable : tree' = d /\ durable' = {d}
    BY <1>11 DEF Crash
  <2>2. acked' = acked /\ gone' = gone /\ job' = NoJob
    BY <1>11 DEF Crash
  <2>3. RaftTypes'
    BY <1>0, <2>1, <2>2 DEF RaftTypes, RaftOps, NoJob
  <2>4. AnswerReady' /\ OneVote' /\ Removing' /\ GoneIsOld'
    BY <1>0, <2>1, <2>2 DEF AnswerReady, OneVote, Removing, GoneIsOld, NoJob
  <2>5. AnswersSurviveCrash'
    BY <1>0, <2>1, <2>2 DEF AnswersSurviveCrash
  <2> QED
    BY <2>3, <2>4, <2>5 DEF RaftInv
<1>12. CASE UNCHANGED raftVars
  BY <1>0, <1>12 DEF raftVars, RaftInv, RaftTypes, AnswerReady, OneVote, Removing, GoneIsOld, AnswersSurviveCrash
<1> QED
  BY <1>1, <1>2, <1>3, <1>5, <1>6, <1>7, <1>8, <1>9, <1>10, <1>11, <1>12 DEF RaftLogNext

\* Whatever operations come in whatever order, and wherever in the middle of one
\* the process dies: a vote, an entry or a commit index that was answered for is
\* there afterwards, and a truncated entry is not (persistent_log.rs).
THEOREM SurvivesCrash == RaftLogSpec => []AnswersSurviveCrash
<1>1. RaftInv => AnswersSurviveCrash
  BY DEF RaftInv
<1> QED
  BY <1>1, RaftInitial, RaftPreserved, PTL DEF RaftLogSpec

-----------------------------------------------------------------------------
(* The metadata store: its cache and the state machine of the leader *)

MetadataTypes ==
  /\ raftLog \in Seq(Requests)
  /\ raftLeader \in StoreNodes
  /\ applied \in [StoreNodes -> Nat]
  /\ machine = [n \in StoreNodes |-> machine[n]]
  /\ cache = [n \in StoreNodes |-> cache[n]]
  /\ mpc \in [Writers -> {"idle", "raft", "cache"}]
  /\ mloc = [w \in Writers |-> mloc[w]]
  /\ disturbances \in Nat
  /\ \A n \in StoreNodes : applied[n] <= Len(raftLog)

\* No writer is on its way, and the leader has applied the whole log.
AtRest ==
  /\ applied[raftLeader] = Len(raftLog)
  /\ cache[raftLeader] = machine[raftLeader]

\* The write of w is the last of the log.  The cache is behind the machine by this
\* request as soon as the leader has applied it.
UnderWay(w) ==
  /\ \A u \in Writers \ {w} : mpc[u] = "idle"
  /\ mloc[w].node = raftLeader /\ mloc[w].index = Len(raftLog)
  /\ Len(raftLog) > 0 /\ mloc[w].request = raftLog[Len(raftLog)]
  /\ \/ /\ mpc[w] = "raft"
        /\ applied[raftLeader] = Len(raftLog) - 1
        /\ machine[raftLeader] = cache[raftLeader]
     \/ /\ applied[raftLeader] = Len(raftLog)
        /\ machine[raftLeader] = ApplyRequest(cache[raftLeader], mloc[w].request)

OneByOne ==
  IF \A w \in Writers : mpc[w] = "idle" THEN AtRest
  ELSE \A w \in Writers : mpc[w] # "idle" => UnderWay(w)

MetadataInv == MetadataTypes /\ raced \in BOOLEAN /\ (~raced /\ disturbances = 0 => OneByOne)

\* Everything is empty at the start.
LEMMA MetadataInitial == MetadataInit => MetadataInv
<1> SUFFICES ASSUME MetadataInit PROVE MetadataInv
  OBVIOUS
<1>1. raftLog \in Seq(Requests) /\ Len(raftLog) = 0
  BY DEF MetadataInit
<1>2. /\ machine = [n \in StoreNodes |-> machine[n]] /\ cache = [n \in StoreNodes |-> cache[n]]
      /\ mloc = [w \in Writers |-> mloc[w]]
  BY DEF MetadataInit
<1>3. MetadataTypes
  BY <1>1, <1>2 DEF MetadataInit, MetadataTypes
<1>4. OneByOne
  BY <1>1 DEF MetadataInit, OneByOne, AtRest
<1> QED
  BY <1>3, <1>4 DEF MetadataInit, MetadataInv

\* A request becomes the last of the log.
LEMMA SubmitKeeps ==
  ASSUME MetadataInv, NEW w \in Writers, NEW r \in Requests, Submit(w, r) PROVE MetadataInv'
<1> DEFINE work == [node |-> raftLeader, request |-> r, index |-> Len(raftLog) + 1]
<1>0. MetadataTypes /\ raced \in BOOLEAN
  BY DEF MetadataInv
<1>1. /\ mpc[w] = "idle" /\ raftLog' = Append(raftLog, r) /\ MGoto(w, "raft", work)
      /\ raced' = (raced \/ \E u \in Writers \ {w} : mpc[u] # "idle")
      /\ UNCHANGED <<raftLeader, applied, machine, cache, disturbances>>
  BY DEF Submit
<1>2. work.node = raftLeader /\ work.request = r /\ work.index = Len(raftLog) + 1
  OBVIOUS
<1> HIDE DEF work
<1>3. /\ raftLog' \in Seq(Requests) /\ Len(raftLog') = Len(raftLog) + 1
      /\ raftLog'[Len(raftLog) + 1] = r /\ Len(raftLog) \in Nat
  BY <1>0, <1>1 DEF MetadataTypes
<1>4. /\ mpc' \in [Writers -> {"idle", "raft", "cache"}] /\ mloc' = [u \in Writers |-> mloc'[u]]
      /\ mpc'[w] = "raft" /\ mloc'[w] = work /\ \A u \in Writers \ {w} : mpc'[u] = mpc[u]
  BY <1>0, <1>1 DEF MetadataTypes, MGoto
<1>5. MetadataTypes'
  BY <1>0, <1>1, <1>3, <1>4 DEF MetadataTypes
<1>6. ASSUME ~raced', disturbances' = 0 PROVE OneByOne'
  <2>1. ~raced /\ disturbances = 0 /\ (\A u \in Writers \ {w} : mpc[u] = "idle")
    BY <1>0, <1>1, <1>6
  <2>2. AtRest
    BY <1>1, <2>1 DEF MetadataInv, OneByOne
  <2>3. UnderWay(w)'
    BY <1>0, <1>1, <1>2, <1>3, <1>4, <2>1, <2>2 DEF UnderWay, AtRest, MetadataTypes
  <2>4. \A u \in Writers : mpc'[u] # "idle" => u = w
    BY <1>4, <2>1
  <2> QED
    BY <1>4, <2>3, <2>4 DEF OneByOne
<1>7. raced' \in BOOLEAN
  BY <1>1
<1> QED
  BY <1>5, <1>6, <1>7 DEF MetadataInv

\* The leader applies the last request, or has nothing to apply.
LEMMA ApplyKeeps == ASSUME MetadataInv, NEW n \in StoreNodes, ApplyEntry(n) PROVE MetadataInv'
<1>0. MetadataTypes
  BY DEF MetadataInv
<1>1. /\ applied[n] < Len(raftLog) /\ applied' = [applied EXCEPT ![n] = @ + 1]
      /\ machine' = [machine EXCEPT ![n] = ApplyRequest(machine[n], raftLog[applied[n] + 1])]
      /\ UNCHANGED <<raftLog, raftLeader, cache, mpc, mloc, disturbances, raced>>
  BY DEF ApplyEntry
<1>2. MetadataTypes'
  <2>1. machine' = [m \in StoreNodes |-> machine'[m]]
    BY <1>0, <1>1 DEF MetadataTypes
  <2>2. applied' \in [StoreNodes -> Nat] /\ \A m \in StoreNodes : applied'[m] <= Len(raftLog')
    BY <1>0, <1>1 DEF MetadataTypes
  <2> QED
    BY <1>0, <1>1, <2>1, <2>2 DEF MetadataTypes
<1>3. CASE n # raftLeader
  <2>1. applied'[raftLeader] = applied[raftLeader] /\ machine'[raftLeader] = machine[raftLeader]
    BY <1>0, <1>1, <1>3 DEF MetadataTypes
  <2> QED
    BY <1>1, <1>2, <2>1 DEF MetadataInv, OneByOne, AtRest, UnderWay
<1>4. CASE n = raftLeader
  <2>1. ASSUME ~raced, disturbances = 0 PROVE OneByOne'
    <3>1. ~ \A w \in Writers : mpc[w] = "idle"
      BY <1>0, <1>1, <1>4, <2>1 DEF MetadataInv, OneByOne, AtRest, MetadataTypes
    <3>2. ASSUME NEW w \in Writers, mpc[w] # "idle" PROVE UnderWay(w)'
      <4>1. UnderWay(w)
        BY <2>1, <3>1, <3>2 DEF MetadataInv, OneByOne
      <4>2. applied[n] = Len(raftLog) - 1 /\ Len(raftLog) \in Nat /\ applied[n] \in Nat
        BY <1>0, <1>1, <1>4, <4>1 DEF UnderWay, MetadataTypes
      <4>3. applied'[n] = Len(raftLog) /\ machine'[n] = ApplyRequest(machine[n], mloc[w].request)
        BY <1>0, <1>1, <1>4, <4>1, <4>2 DEF UnderWay, MetadataTypes
      <4>4. machine[n] = cache[n]
        BY <1>4, <4>1, <4>2 DEF UnderWay
      <4> QED
        BY <1>1, <1>4, <4>1, <4>3, <4>4 DEF UnderWay
    <3> QED
      BY <1>1, <3>1, <3>2 DEF OneByOne
  <2> QED
    BY <1>1, <1>2, <2>1 DEF MetadataInv
<1> QED
  BY <1>3, <1>4

\* The answer comes after the leader has applied the request.
LEMMA AnsweredKeeps == ASSUME MetadataInv, NEW w \in Writers, Answered(w) PROVE MetadataInv'
<1>0. MetadataTypes
  BY DEF MetadataInv
<1>1. /\ mpc[w] = "raft" /\ applied[mloc[w].node] >= mloc[w].index /\ MGoto(w, "cache", mloc[w])
      /\ UNCHANGED <<raftLog, raftLeader, applied, machine, cache, disturbances, raced>>
  BY DEF Answered
<1>2. /\ mpc' \in [Writers -> {"idle", "raft", "cache"}] /\ mloc' = [u \in Writers |-> mloc'[u]]
      /\ mpc'[w] = "cache" /\ mloc'[w] = mloc[w] /\ \A u \in Writers \ {w} : mpc'[u] = mpc[u]
  BY <1>0, <1>1 DEF MetadataTypes, MGoto
<1>3. MetadataTypes'
  BY <1>0, <1>1, <1>2 DEF MetadataTypes
<1>4. ASSUME ~raced, disturbances = 0 PROVE OneByOne'
  <2>1. UnderWay(w)
    BY <1>1, <1>4 DEF MetadataInv, OneByOne
  <2>2. UnderWay(w)'
    BY <1>0, <1>1, <1>2, <2>1 DEF UnderWay, MetadataTypes
  <2>3. \A u \in Writers : mpc'[u] # "idle" => u = w
    BY <1>2, <2>1 DEF UnderWay
  <2> QED
    BY <1>2, <2>2, <2>3 DEF OneByOne
<1> QED
  BY <1>1, <1>3, <1>4 DEF MetadataInv

\* The cache applies the request to what it was before.
LEMMA CacheKeeps == ASSUME MetadataInv, NEW w \in Writers, UpdateCache(w) PROVE MetadataInv'
<1>0. MetadataTypes
  BY DEF MetadataInv
<1>1. /\ mpc[w] = "cache" /\ MGoto(w, "idle", NoWrite)
      /\ cache' = [cache EXCEPT ![mloc[w].node] = ApplyRequest(cache[mloc[w].node], mloc[w].request)]
      /\ UNCHANGED <<raftLog, raftLeader, applied, machine, disturbances, raced>>
  BY DEF UpdateCache
<1>2. /\ mpc' \in [Writers -> {"idle", "raft", "cache"}] /\ mloc' = [u \in Writers |-> mloc'[u]]
      /\ mpc'[w] = "idle" /\ \A u \in Writers \ {w} : mpc'[u] = mpc[u]
  BY <1>0, <1>1 DEF MetadataTypes, MGoto
<1>3. cache' = [n \in StoreNodes |-> cache'[n]]
  BY <1>0, <1>1 DEF MetadataTypes
<1>4. MetadataTypes'
  BY <1>0, <1>1, <1>2, <1>3 DEF MetadataTypes
<1>5. ASSUME ~raced, disturbances = 0 PROVE OneByOne'
  <2>1. UnderWay(w)
    BY <1>1, <1>5 DEF MetadataInv, OneByOne
  <2>2. /\ applied[raftLeader] = Len(raftLog)
        /\ machine[raftLeader] = ApplyRequest(cache[raftLeader], mloc[w].request)
    BY <1>1, <2>1 DEF UnderWay
  <2>3. cache'[raftLeader] = ApplyRequest(cache[raftLeader], mloc[w].request)
    BY <1>0, <1>1, <2>1 DEF UnderWay, MetadataTypes
  <2>4. AtRest'
    BY <1>1, <2>2, <2>3 DEF AtRest
  <2>5. \A u \in Writers : mpc'[u] = "idle"
    BY <1>2, <2>1 DEF UnderWay
  <2> QED
    BY <2>4, <2>5 DEF OneByOne
<1> QED
  BY <1>1, <1>4, <1>5 DEF MetadataInv

\* A write that fails has lost its leader.
LEMMA FailKeeps == ASSUME MetadataInv, NEW w \in Writers, WriteFails(w) PROVE MetadataInv'
<1>0. MetadataTypes
  BY DEF MetadataInv
<1>1. /\ mpc[w] = "raft" /\ raftLeader # mloc[w].node /\ MGoto(w, "idle", NoWrite)
      /\ UNCHANGED <<raftLog, raftLeader, applied, machine, cache, disturbances, raced>>
  BY DEF WriteFails
<1>2. mpc' \in [Writers -> {"idle", "raft", "cache"}] /\ mloc' = [u \in Writers |-> mloc'[u]]
  BY <1>0, <1>1 DEF MetadataTypes, MGoto
<1>3. MetadataTypes'
  BY <1>0, <1>1, <1>2 DEF MetadataTypes
<1>4. ~(~raced /\ disturbances = 0)
  BY <1>1 DEF MetadataInv, OneByOne, UnderWay
<1> QED
  BY <1>1, <1>3, <1>4 DEF MetadataInv

\* A change of the leader and a restart end what is promised.
LEMMA DisturbanceKeeps ==
  ASSUME MetadataInv, NEW n \in StoreNodes, LeaderChanges(n) \/ RestartNode(n) PROVE MetadataInv'
<1>0. MetadataTypes
  BY DEF MetadataInv
<1>1. disturbances' = disturbances + 1 /\ UNCHANGED <<raftLog, raced>>
  BY DEF LeaderChanges, RestartNode
<1>2. CASE LeaderChanges(n)
  <2>1. MetadataTypes'
    BY <1>0, <1>1, <1>2 DEF MetadataTypes, LeaderChanges
  <2> QED
    BY <1>0, <1>1, <2>1 DEF MetadataInv, MetadataTypes
<1>3. CASE RestartNode(n)
  <2>1. mpc' \in [Writers -> {"idle", "raft", "cache"}] /\ mloc' = [u \in Writers |-> mloc'[u]]
    BY <1>0, <1>3 DEF MetadataTypes, RestartNode
  <2>2. applied' \in [StoreNodes -> Nat] /\ \A m \in StoreNodes : applied'[m] <= Len(raftLog)
    BY <1>0, <1>3 DEF MetadataTypes, RestartNode
  <2>3. machine' = [m \in StoreNodes |-> machine'[m]] /\ cache' = [m \in StoreNodes |-> cache'[m]]
    BY <1>0, <1>3 DEF MetadataTypes, RestartNode
  <2>4. MetadataTypes'
    BY <1>0, <1>1, <1>3, <2>1, <2>2, <2>3 DEF MetadataTypes, RestartNode
  <2> QED
    BY <1>0, <1>1, <2>4 DEF MetadataInv, MetadataTypes
<1> QED
  BY <1>2, <1>3

\* Every step of the store keeps the invariant.
LEMMA MetadataPreserved == MetadataInv /\ [MetadataNext]_metadataVars => MetadataInv'
<1> SUFFICES ASSUME MetadataInv, [MetadataNext]_metadataVars PROVE MetadataInv'
  OBVIOUS
<1>1. CASE UNCHANGED metadataVars
  BY <1>1 DEF metadataVars, MetadataInv, MetadataTypes, OneByOne, AtRest, UnderWay
<1> QED
  BY <1>1, SubmitKeeps, ApplyKeeps, AnsweredKeeps, CacheKeeps, FailKeeps, DisturbanceKeeps
     DEF MetadataNext, WriterStep

\* As long as writes come one after the other and neither the leader changes nor a
\* node restarts, what the leader's cache answers between two writes is what its
\* state machine holds.
THEOREM CacheFollows == MetadataSpec => []CacheIsMachine
<1>1. MetadataInv => CacheIsMachine
  BY DEF MetadataInv, OneByOne, AtRest, CacheIsMachine
<1> QED
  BY <1>1, MetadataInitial, MetadataPreserved, PTL DEF MetadataSpec

-----------------------------------------------------------------------------
(***************************************************************************)
(* Sums over the slots.  Slots adds up along a choice of an element of     *)
(* every set of nodes; what it computes is shown by induction on the size  *)
(* of such sets, as the absence of a least size at which it would fail.    *)
(***************************************************************************)
Pick(s) == CHOOSE x \in s : TRUE
SumStep(f, g, s) == IF s = {} THEN 0 ELSE f[Pick(s)] + g[s \ {Pick(s)}]
Sums(f) == CHOOSE g : g = [s \in SUBSET Counting |-> SumStep(f, g, s)]

\* The sum is the last one of those over the subsets.
LEMMA SlotsAreSums == ASSUME NEW f PROVE Slots(f) = Sums(f)[Counting]
BY DEF Slots, MapThenSumSet, MapThenFoldSet, Sums, SumStep, Pick

\* A set of nodes has a size, and is smaller by one without its pick.
LEMMA PickSizes ==
  ASSUME NEW s \in SUBSET Counting
  PROVE  /\ IsFiniteSet(s) /\ Cardinality(s) \in Nat
         /\ Cardinality(s) <= Cardinality(Counting) /\ Cardinality(Counting) \in Nat
         /\ s # {} => /\ Pick(s) \in s /\ s \ {Pick(s)} \in SUBSET Counting
                      /\ Cardinality(s) # 0 /\ Cardinality(s \ {Pick(s)}) = Cardinality(s) - 1
         /\ Cardinality(s) = 0 => s = {}
<1>1. IsFiniteSet(s) /\ Cardinality(s) <= Cardinality(Counting)
  BY CounterAssumption, FS_Subset
<1>2. Cardinality(s) \in Nat /\ Cardinality(Counting) \in Nat
  BY <1>1, CounterAssumption, FS_CardinalityType
<1>3. s # {} => Pick(s) \in s
  BY DEF Pick
<1>4. Cardinality(s) = 0 <=> s = {}
  BY <1>1, FS_EmptySet
<1>5. s # {} => Cardinality(s \ {Pick(s)}) = Cardinality(s) - 1
  BY <1>1, <1>3, FS_RemoveElement
<1> QED
  BY <1>1, <1>2, <1>3, <1>4, <1>5

\* g adds up the sets of at most n nodes.
SumsUpTo(f, g, n) ==
  /\ g \in [SUBSET Counting -> Nat]
  /\ \A s \in SUBSET Counting : Cardinality(s) <= n => g[s] = SumStep(f, g, s)

\* From one size to the next.
LEMMA SumsExtend ==
  ASSUME NEW f \in [Counting -> Nat], NEW n \in Nat, NEW g, SumsUpTo(f, g, n)
  PROVE  \E h : SumsUpTo(f, h, n + 1)
<1> DEFINE h == [s \in SUBSET Counting |-> IF Cardinality(s) <= n THEN g[s] ELSE SumStep(f, g, s)]
<1>1. g \in [SUBSET Counting -> Nat]
  BY DEF SumsUpTo
<1>2. ASSUME NEW s \in SUBSET Counting PROVE SumStep(f, g, s) \in Nat
  <2>1. CASE s = {}
    BY <2>1 DEF SumStep
  <2>2. CASE s # {}
    <3>1. Pick(s) \in Counting /\ s \ {Pick(s)} \in SUBSET Counting
      BY <2>2, PickSizes
    <3>2. f[Pick(s)] \in Nat /\ g[s \ {Pick(s)}] \in Nat
      BY <1>1, <3>1
    <3> QED
      BY <2>2, <3>2 DEF SumStep
  <2> QED
    BY <2>1, <2>2
<1>3. h \in [SUBSET Counting -> Nat]
  BY <1>1, <1>2
<1>5. ASSUME NEW s \in SUBSET Counting, Cardinality(s) <= n + 1 PROVE h[s] = SumStep(f, h, s)
  <2>1. h[s] = SumStep(f, g, s)
    <3>1. CASE Cardinality(s) <= n
      BY <3>1 DEF SumsUpTo
    <3>2. CASE ~(Cardinality(s) <= n)
      BY <3>2
    <3> QED
      BY <3>1, <3>2
  <2>2. CASE s = {}
    BY <2>1, <2>2 DEF SumStep
  <2>3. CASE s # {}
    <3>1. s \ {Pick(s)} \in SUBSET Counting /\ Cardinality(s \ {Pick(s)}) <= n
      BY <1>5, <2>3, PickSizes
    <3>2. h[s \ {Pick(s)}] = g[s \ {Pick(s)}]
      BY <3>1
    <3> HIDE DEF h
    <3> QED
      BY <2>1, <2>3, <3>2 DEF SumStep
  <2> QED
    BY <2>2, <2>3
<1> HIDE DEF h
<1>6. SumsUpTo(f, h, n + 1)
  BY <1>3, <1>5 DEF SumsUpTo
<1> QED
  BY <1>6

\* There are sums for the sets of every size.
LEMMA SumsForAll == ASSUME NEW f \in [Counting -> Nat], NEW n \in Nat PROVE \E g : SumsUpTo(f, g, n)
<1> DEFINE Bad == {i \in Nat : ~\E g : SumsUpTo(f, g, i)}
<1>1. SUFFICES ASSUME Bad # {} PROVE FALSE
  OBVIOUS
<1>2. PICK i \in Bad : \A j \in Bad : i <= j
  BY <1>1, LeastElement
<1>3. i # 0
  <2> DEFINE g == [s \in SUBSET Counting |-> 0]
  <2>1. g \in [SUBSET Counting -> Nat]
    OBVIOUS
  <2>2. \A s \in SUBSET Counting : Cardinality(s) <= 0 => g[s] = SumStep(f, g, s)
    <3> SUFFICES ASSUME NEW s \in SUBSET Counting, Cardinality(s) <= 0 PROVE g[s] = SumStep(f, g, s)
      OBVIOUS
    <3>1. Cardinality(s) \in Nat /\ (Cardinality(s) = 0 => s = {})
      BY PickSizes
    <3>2. s = {}
      BY <3>1
    <3> QED
      BY <3>2 DEF SumStep
  <2> HIDE DEF g
  <2>3. SumsUpTo(f, g, 0)
    BY <2>1, <2>2 DEF SumsUpTo
  <2> QED
    BY <1>2, <2>3
<1>4. i - 1 \in Nat /\ i - 1 < i /\ (i - 1) + 1 = i
  BY <1>2, <1>3
<1>5. \E g : SumsUpTo(f, g, i - 1)
  BY <1>2, <1>4
<1> QED
  BY <1>2, <1>4, <1>5, SumsExtend

\* The sums that Slots goes through add up.
LEMMA SumsAddUp ==
  ASSUME NEW f \in [Counting -> Nat]
  PROVE  /\ Sums(f) \in [SUBSET Counting -> Nat]
         /\ \A s \in SUBSET Counting : Sums(f)[s] = SumStep(f, Sums(f), s)
<1> DEFINE n == Cardinality(Counting)
<1>1. n \in Nat /\ \A s \in SUBSET Counting : Cardinality(s) <= n
  BY PickSizes
<1>2. PICK g : SumsUpTo(f, g, n)
  BY <1>1, SumsForAll
<1>3. g = [s \in SUBSET Counting |-> SumStep(f, g, s)]
  BY <1>1, <1>2 DEF SumsUpTo
<1>4. Sums(f) = [s \in SUBSET Counting |-> SumStep(f, Sums(f), s)]
  BY <1>3 DEF Sums
<1> DEFINE h == Sums(f)
<1>5. h = [s \in SUBSET Counting |-> SumStep(f, h, s)]
  BY <1>4
<1> HIDE DEF h
<1>6. \A s \in SUBSET Counting : h[s] = SumStep(f, h, s)
  BY <1>5
<1>7. \A s \in SUBSET Counting : h[s] \in Nat
  <2> DEFINE Bad == {i \in Nat : \E s \in SUBSET Counting : Cardinality(s) = i /\ h[s] \notin Nat}
  <2>1. SUFFICES ASSUME Bad # {} PROVE FALSE
    BY PickSizes
  <2>2. PICK i \in Bad : \A j \in Bad : i <= j
    BY <2>1, LeastElement
  <2>3. PICK s \in SUBSET Counting : Cardinality(s) = i /\ h[s] \notin Nat
    BY <2>2
  <2>4. s # {} /\ h[s] = f[Pick(s)] + h[s \ {Pick(s)}]
    BY <1>6, <2>3 DEF SumStep
  <2>5. Pick(s) \in s /\ s \ {Pick(s)} \in SUBSET Counting /\ Cardinality(s \ {Pick(s)}) = i - 1 /\ i - 1 \in Nat
    BY <2>3, <2>4, PickSizes
  <2>6. h[s \ {Pick(s)}] \in Nat
    BY <2>2, <2>5
  <2> QED
    BY <2>3, <2>4, <2>5, <2>6
<1>8. h \in [SUBSET Counting -> Nat]
  BY <1>5, <1>7
<1> QED
  BY <1>6, <1>8 DEF h

\* A sum of natural numbers is one.
LEMMA SlotsType == ASSUME NEW f \in [Counting -> Nat] PROVE Slots(f) \in Nat
BY SumsAddUp, SlotsAreSums

\* Sums add: what every slot of h has beyond f, the sum of h has beyond the sum of f.
LEMMA SlotsAdd ==
  ASSUME NEW f \in [Counting -> Nat], NEW d \in [Counting -> Nat], NEW h \in [Counting -> Nat],
         \A k \in Counting : h[k] = f[k] + d[k]
  PROVE  Slots(h) = Slots(f) + Slots(d)
<1> DEFINE F == Sums(f)
           D == Sums(d)
           H == Sums(h)
           Bad == {i \in Nat : \E s \in SUBSET Counting : Cardinality(s) = i /\ H[s] # F[s] + D[s]}
<1>1. /\ F \in [SUBSET Counting -> Nat] /\ \A s \in SUBSET Counting : F[s] = SumStep(f, F, s)
      /\ D \in [SUBSET Counting -> Nat] /\ \A s \in SUBSET Counting : D[s] = SumStep(d, D, s)
      /\ H \in [SUBSET Counting -> Nat] /\ \A s \in SUBSET Counting : H[s] = SumStep(h, H, s)
  BY SumsAddUp
<1> HIDE DEF F, D, H
<1>2. ASSUME Bad # {} PROVE FALSE
  <2>1. PICK i \in Bad : \A j \in Bad : i <= j
    BY <1>2, LeastElement
  <2>2. PICK s \in SUBSET Counting : Cardinality(s) = i /\ H[s] # F[s] + D[s]
    BY <2>1
  <2> DEFINE r == s \ {Pick(s)}
  <2>3. s # {}
    <3>1. s = {} => H[s] = 0 /\ F[s] = 0 /\ D[s] = 0
      BY <1>1 DEF SumStep
    <3> QED
      BY <2>2, <3>1
  <2>4. H[s] = h[Pick(s)] + H[r] /\ F[s] = f[Pick(s)] + F[r] /\ D[s] = d[Pick(s)] + D[r]
    BY <1>1, <2>3 DEF SumStep
  <2>5. Pick(s) \in Counting /\ r \in SUBSET Counting /\ Cardinality(r) = i - 1 /\ i - 1 \in Nat
    BY <2>2, <2>3, PickSizes
  <2> HIDE DEF r
  <2>6. H[r] = F[r] + D[r]
    <3>1. i - 1 \notin Bad
      BY <2>1, <2>5
    <3> QED
      BY <2>5, <3>1
  <2>7. h[Pick(s)] = f[Pick(s)] + d[Pick(s)] /\ f[Pick(s)] \in Nat /\ d[Pick(s)] \in Nat
    BY <2>5
  <2>8. F[r] \in Nat /\ D[r] \in Nat
    BY <1>1, <2>5
  <2> QED
    BY <2>2, <2>4, <2>6, <2>7, <2>8
<1>3. \A s \in SUBSET Counting : H[s] = F[s] + D[s]
  BY <1>2, PickSizes
<1>4. Slots(f) = F[Counting] /\ Slots(d) = D[Counting] /\ Slots(h) = H[Counting]
  BY SlotsAreSums DEF F, D, H
<1> QED
  BY <1>3, <1>4

\* Slots that are nowhere larger have no larger sum.
LEMMA SlotsMonotone ==
  ASSUME NEW f \in [Counting -> Nat], NEW h \in [Counting -> Nat], \A k \in Counting : f[k] <= h[k]
  PROVE  Slots(f) <= Slots(h)
<1> DEFINE d == [k \in Counting |-> h[k] - f[k]]
<1>1. d \in [Counting -> Nat] /\ \A k \in Counting : h[k] = f[k] + d[k]
  OBVIOUS
<1> HIDE DEF d
<1>2. Slots(h) = Slots(f) + Slots(d)
  BY <1>1, SlotsAdd
<1>3. Slots(f) \in Nat /\ Slots(d) \in Nat
  BY <1>1, SlotsType
<1> QED
  BY <1>2, <1>3

-----------------------------------------------------------------------------
(***************************************************************************)
(* The counters.  No slot of a grow-only counter, and no delta, shows more *)
(* than was counted into the slot.                                         *)
(***************************************************************************)
Counters == [node : Counting \cup {0}, up : [Counting -> Nat], down : [Counting -> Nat]]
Deltas == [kind : {"g", "pn"}, node : Counting, up : Nat, down : Nat]
Tallies == [g : Nat, up : Nat, down : Nat]

CounterTypes ==
  /\ gc \in [Counting -> Counters] /\ pn \in [Counting -> Counters]
  /\ counterNet \subseteq Deltas
  /\ counted \in [Counting -> Tallies]
  /\ adopted \in BOOLEAN /\ counterRestarts \in [Counting -> Nat]

SlotInv ==
  /\ \A n, k \in Counting : gc[n].up[k] <= counted[k].g
  /\ \A m \in counterNet : m.kind = "g" => m.up <= counted[m.node].g

OwnSlotInv ==
  ~adopted =>
    \A n \in Counting :
      /\ gc[n].node \in {0, n} /\ pn[n].node \in {0, n}
      /\ counterRestarts[n] = 0 => /\ gc[n].up[n] = counted[n].g
                                   /\ pn[n].up[n] >= counted[n].up
                                   /\ pn[n].down[n] >= counted[n].down

CounterInv == CounterTypes /\ SlotInv /\ OwnSlotInv

\* The larger of two numbers.
LEMMA MaxOfTwo == ASSUME NEW a \in Nat, NEW b \in Nat PROVE Max({a, b}) = IF a >= b THEN a ELSE b
<1> DEFINE m == IF a >= b THEN a ELSE b
<1>1. m \in {a, b} /\ \A y \in {a, b} : m >= y
  OBVIOUS
<1>2. \A x \in {a, b} : (\A y \in {a, b} : x >= y) => x = m
  OBVIOUS
<1> HIDE DEF m
<1>3. Max({a, b}) \in {a, b} /\ \A y \in {a, b} : Max({a, b}) >= y
  BY <1>1 DEF Max
<1> QED
  BY <1>2, <1>3 DEF m

\* A counter that is opened belongs to a node.
LEMMA OpenedFields ==
  ASSUME NEW c \in Counters, NEW n \in Counting
  PROVE  /\ Opened(c, n) \in Counters /\ Opened(c, n).node \in Counting
         /\ Opened(c, n).node = IF c.node = 0 THEN n ELSE c.node
         /\ Opened(c, n).up = c.up /\ Opened(c, n).down = c.down
BY CounterAssumption DEF Opened, Counters

\* increment_by counts one in the slot of the counter's node.
LEMMA BumpFields ==
  ASSUME NEW c \in Counters, c.node \in Counting, NEW side \in {"up", "down"}
  PROVE  /\ Bump(c, side) \in Counters /\ Bump(c, side).node = c.node
         /\ side = "up" => /\ Bump(c, side).up = [c.up EXCEPT ![c.node] = @ + 1]
                           /\ Bump(c, side).down = c.down
         /\ side = "down" => /\ Bump(c, side).down = [c.down EXCEPT ![c.node] = @ + 1]
                             /\ Bump(c, side).up = c.up
BY DEF Bump, Counters

\* merge takes the larger of the two in the slot of the delta.
LEMMA MergeFields ==
  ASSUME NEW c \in Counters, NEW m \in Deltas
  PROVE  /\ Merge(c, m) \in Counters /\ Merge(c, m).node = c.node
         /\ \A k \in Counting :
              /\ Merge(c, m).up[k] = IF k = m.node /\ ~(c.up[k] >= m.up) THEN m.up ELSE c.up[k]
              /\ Merge(c, m).down[k] = IF k = m.node /\ ~(c.down[k] >= m.down) THEN m.down ELSE c.down[k]
<1> DEFINE u == [c.up EXCEPT ![m.node] = Max({@, m.up})]
           d == [c.down EXCEPT ![m.node] = Max({@, m.down})]
<1>0. /\ m.node \in Counting /\ m.up \in Nat /\ m.down \in Nat
      /\ c.up \in [Counting -> Nat] /\ c.down \in [Counting -> Nat] /\ c.node \in Counting \cup {0}
  BY DEF Deltas, Counters
<1>1. /\ Max({c.up[m.node], m.up}) = IF c.up[m.node] >= m.up THEN c.up[m.node] ELSE m.up
      /\ Max({c.down[m.node], m.down}) = IF c.down[m.node] >= m.down THEN c.down[m.node] ELSE m.down
  BY <1>0, MaxOfTwo
<1>2. /\ Max({c.up[m.node], m.up}) \in Nat /\ Max({c.down[m.node], m.down}) \in Nat
  BY <1>0, <1>1
<1>3. u \in [Counting -> Nat] /\ d \in [Counting -> Nat]
  BY <1>0, <1>2
<1>4. \A k \in Counting : /\ u[k] = IF k = m.node /\ ~(c.up[k] >= m.up) THEN m.up ELSE c.up[k]
                          /\ d[k] = IF k = m.node /\ ~(c.down[k] >= m.down) THEN m.down ELSE c.down[k]
  BY <1>0, <1>1
<1>5. Merge(c, m) = [c EXCEPT !.up = u, !.down = d]
  BY DEF Merge, Counters
<1> HIDE DEF u, d
<1>6. Merge(c, m) \in Counters /\ Merge(c, m).node = c.node /\ Merge(c, m).up = u /\ Merge(c, m).down = d
  BY <1>0, <1>3, <1>5 DEF Counters
<1> QED
  BY <1>4, <1>6

\* Nothing adds up to nothing.
LEMMA SlotsZero == Slots(Zero) = 0 /\ Zero \in [Counting -> Nat]
<1>1. Zero \in [Counting -> Nat] /\ \A k \in Counting : Zero[k] = Zero[k] + Zero[k]
  BY DEF Zero
<1>2. Slots(Zero) = Slots(Zero) + Slots(Zero) /\ Slots(Zero) \in Nat
  BY <1>1, SlotsAdd, SlotsType
<1> DEFINE z == Slots(Zero)
<1>3. z = z + z /\ z \in Nat
  BY <1>2
<1> HIDE DEF z
<1>4. z = 0
  BY <1>3
<1> QED
  BY <1>1, <1>4 DEF z

\* The fields, as numbers.
LEMMA CounterFields ==
  ASSUME CounterInv
  PROVE  /\ 0 \notin Counting
         /\ \A i \in Counting :
              /\ gc[i] \in Counters /\ pn[i] \in Counters
              /\ gc[i].node \in Counting \cup {0} /\ pn[i].node \in Counting \cup {0}
              /\ gc[i].up \in [Counting -> Nat] /\ pn[i].up \in [Counting -> Nat]
              /\ pn[i].down \in [Counting -> Nat]
              /\ counted[i] \in Tallies /\ counted[i].g \in Nat
              /\ counted[i].up \in Nat /\ counted[i].down \in Nat
BY CounterAssumption DEF CounterInv, CounterTypes, Counters, Tallies

\* Nothing is counted at the start.
LEMMA CounterInitial == CounterInit => CounterInv
<1> SUFFICES ASSUME CounterInit PROVE CounterInv
  OBVIOUS
<1>1. NoCounter \in Counters /\ NoCounter.node = 0 /\ NoCounter.up = Zero /\ NoCounter.down = Zero
  BY SlotsZero DEF NoCounter, Counters
<1>2. CounterTypes
  BY <1>1, SlotsZero DEF CounterInit, CounterTypes, Tallies
<1>3. \A n \in Counting : /\ gc[n].node = 0 /\ gc[n].up = Zero /\ pn[n].node = 0
                          /\ pn[n].up = Zero /\ pn[n].down = Zero
                          /\ counted[n].g = 0 /\ counted[n].up = 0 /\ counted[n].down = 0
  BY <1>1 DEF CounterInit
<1>4. counterNet = {} /\ \A k \in Counting : Zero[k] = 0
  BY DEF CounterInit, Zero
<1> QED
  BY <1>2, <1>3, <1>4 DEF CounterInv, SlotInv, OwnSlotInv

\* A count of a grow-only counter.
LEMMA IncrementCounts ==
  ASSUME CounterInv, NEW n \in Counting, GCounterIncrement(n)
  PROVE  CounterInv'
<1> DEFINE o == Opened(gc[n], n)
           b == o.node
           c == Bump(o, "up")
<1>0. CounterTypes /\ SlotInv /\ OwnSlotInv
  BY DEF CounterInv
<1>1. /\ gc' = [gc EXCEPT ![n] = c] /\ counted' = [counted EXCEPT ![b].g = @ + 1]
      /\ UNCHANGED <<pn, counterNet, adopted, counterRestarts>>
  BY DEF GCounterIncrement, counterHistory
<1>2. /\ o \in Counters /\ b \in Counting /\ b = IF gc[n].node = 0 THEN n ELSE gc[n].node
      /\ o.up = gc[n].up
  BY CounterFields, OpenedFields
<1> HIDE DEF o
<1>3. c \in Counters /\ c.node = b /\ c.up = [gc[n].up EXCEPT ![b] = @ + 1]
  BY <1>2, BumpFields
<1> HIDE DEF b, c
<1>4. /\ gc'[n] = c /\ \A i \in Counting : i # n => gc'[i] = gc[i]
      /\ \A i \in Counting : counted'[i].g = (IF i = b THEN counted[i].g + 1 ELSE counted[i].g)
      /\ \A i \in Counting : counted'[i].up = counted[i].up /\ counted'[i].down = counted[i].down
      /\ counted' \in [Counting -> Tallies]
  BY <1>0, <1>1, <1>2, CounterFields DEF CounterTypes, Tallies
<1>5. CounterTypes'
  BY <1>0, <1>1, <1>3, <1>4 DEF CounterTypes
<1>6. ASSUME NEW i \in Counting, NEW k \in Counting PROVE gc'[i].up[k] <= counted'[k].g
  <2>1. gc[i].up[k] <= counted[k].g /\ gc[i].up[k] \in Nat /\ counted[k].g \in Nat
    BY <1>0, CounterFields DEF SlotInv
  <2>2. gc'[i].up[k] = gc[i].up[k] \/ (k = b /\ gc'[i].up[k] = gc[i].up[k] + 1)
    BY <1>2, <1>3, <1>4, CounterFields
  <2> QED
    BY <1>4, <2>1, <2>2
<1>7. ASSUME NEW m \in counterNet', m.kind = "g" PROVE m.up <= counted'[m.node].g
  <2>1. m.node \in Counting /\ m.up \in Nat /\ m.up <= counted[m.node].g
    BY <1>0, <1>1, <1>7 DEF CounterTypes, Deltas, SlotInv
  <2>2. counted[m.node].g \in Nat
    BY <2>1, CounterFields
  <2> QED
    BY <1>4, <2>1, <2>2
<1>8. ASSUME ~adopted, NEW i \in Counting
      PROVE  /\ gc'[i].node \in {0, i}
             /\ counterRestarts[i] = 0 => gc'[i].up[i] = counted'[i].g
  <2>1. gc[n].node \in {0, n} /\ gc[i].node \in {0, i} /\ (counterRestarts[i] = 0 => gc[i].up[i] = counted[i].g)
    BY <1>0, <1>8 DEF OwnSlotInv
  <2>2. b = n
    BY <1>2, <2>1
  <2>3. gc'[i].up[i] = IF i = n THEN gc[i].up[i] + 1 ELSE gc[i].up[i]
    BY <1>3, <1>4, <2>2, CounterFields
  <2> QED
    BY <1>3, <1>4, <2>1, <2>2, <2>3
<1>9. OwnSlotInv'
  BY <1>0, <1>1, <1>4, <1>8 DEF OwnSlotInv
<1> QED
  BY <1>5, <1>6, <1>7, <1>9 DEF CounterInv, SlotInv

\* A count of a PN-counter leaves the grow-only counters alone.
LEMMA ChangeCounts ==
  ASSUME CounterInv, NEW n \in Counting, NEW side \in {"up", "down"}, PNCounterChange(n, side)
  PROVE  CounterInv'
<1> DEFINE o == Opened(pn[n], n)
           b == o.node
           c == Bump(o, side)
<1>0. CounterTypes /\ SlotInv /\ OwnSlotInv
  BY DEF CounterInv
<1>1. /\ pn' = [pn EXCEPT ![n] = c] /\ counted' = [counted EXCEPT ![b][side] = @ + 1]
      /\ UNCHANGED <<gc, counterNet, adopted, counterRestarts>>
  BY DEF PNCounterChange, counterHistory
<1>2. /\ o \in Counters /\ b \in Counting /\ b = IF pn[n].node = 0 THEN n ELSE pn[n].node
      /\ o.up = pn[n].up /\ o.down = pn[n].down
  BY CounterFields, OpenedFields
<1> HIDE DEF o
<1>3. /\ c \in Counters /\ c.node = b
      /\ side = "up" => c.up = [pn[n].up EXCEPT ![b] = @ + 1] /\ c.down = pn[n].down
      /\ side = "down" => c.down = [pn[n].down EXCEPT ![b] = @ + 1] /\ c.up = pn[n].up
  BY <1>2, BumpFields
<1> HIDE DEF b, c
<1>4. pn'[n] = c /\ \A i \in Counting : i # n => pn'[i] = pn[i]
  BY <1>0, <1>1 DEF CounterTypes
<1>5. /\ counted' \in [Counting -> Tallies]
      /\ \A i \in Counting : /\ counted'[i].g = counted[i].g
                             /\ i # b => counted'[i] = counted[i]
      /\ side = "up" => /\ counted'[b].up = counted[b].up + 1
                        /\ counted'[b].down = counted[b].down
      /\ side = "down" => /\ counted'[b].down = counted[b].down + 1
                          /\ counted'[b].up = counted[b].up
  <2>1. CASE side = "up"
    <3>1. counted' = [counted EXCEPT ![b].up = @ + 1]
      BY <1>0, <1>1, <1>2, <2>1 DEF CounterTypes
    <3> QED
      BY <1>0, <1>2, <2>1, <3>1, CounterFields DEF CounterTypes, Tallies
  <2>2. CASE side = "down"
    <3>1. counted' = [counted EXCEPT ![b].down = @ + 1]
      BY <1>0, <1>1, <1>2, <2>2 DEF CounterTypes
    <3> QED
      BY <1>0, <1>2, <2>2, <3>1, CounterFields DEF CounterTypes, Tallies
  <2> QED
    BY <2>1, <2>2
<1>6. CounterTypes'
  BY <1>0, <1>1, <1>3, <1>5 DEF CounterTypes
<1>7. SlotInv'
  BY <1>0, <1>1, <1>5 DEF SlotInv, CounterTypes, Deltas
<1>8. ASSUME ~adopted, NEW i \in Counting
      PROVE  /\ pn'[i].node \in {0, i}
             /\ counterRestarts[i] = 0 => pn'[i].up[i] >= counted'[i].up /\ pn'[i].down[i] >= counted'[i].down
  <2>0. pn[n].node \in {0, n} /\ pn[i].node \in {0, i}
    BY <1>0, <1>8 DEF OwnSlotInv
  <2>1. b = n
    BY <1>2, <2>0
  <2>2. CASE i # n
    BY <1>0, <1>4, <1>5, <1>8, <2>1, <2>2 DEF OwnSlotInv
  <2>3. CASE i = n
    <3>0. counterRestarts[n] = 0 => pn[n].up[n] >= counted[n].up /\ pn[n].down[n] >= counted[n].down
      BY <1>0, <1>8 DEF OwnSlotInv
    <3>1. /\ pn[n].up[n] \in Nat /\ pn[n].down[n] \in Nat
          /\ counted[n].up \in Nat /\ counted[n].down \in Nat
          /\ pn[n].up \in [Counting -> Nat] /\ pn[n].down \in [Counting -> Nat]
      BY CounterFields
    <3>2. CASE side = "up"
      BY <1>3, <1>4, <1>5, <2>1, <2>3, <3>0, <3>1, <3>2
    <3>3. CASE side = "down"
      BY <1>3, <1>4, <1>5, <2>1, <2>3, <3>0, <3>1, <3>3
    <3> QED
      BY <3>2, <3>3
  <2> QED
    BY <2>2, <2>3
<1>9. OwnSlotInv'
  BY <1>0, <1>1, <1>5, <1>8 DEF OwnSlotInv
<1> QED
  BY <1>6, <1>7, <1>9 DEF CounterInv

\* A delta of a grow-only counter says what is in the slot it names.
LEMMA GenerateCounted ==
  ASSUME CounterInv, NEW n \in Counting, GenerateCounts(n)
  PROVE  CounterInv'
<1>0. CounterTypes /\ SlotInv /\ OwnSlotInv
  BY DEF CounterInv
<1>1. UNCHANGED <<gc, pn, counted, adopted, counterRestarts>>
  BY DEF GenerateCounts, counterHistory
<1> DEFINE u == Slots(pn[n].up)
           d == Slots(pn[n].down)
<1>2. u \in Nat /\ d \in Nat
  BY CounterFields, SlotsType
<1>3. ASSUME NEW m \in counterNet', m \notin counterNet
      PROVE  \/ gc[n].node # 0 /\ m = [kind |-> "g", node |-> gc[n].node, up |-> gc[n].up[gc[n].node], down |-> 0]
             \/ pn[n].node # 0 /\ m = [kind |-> "pn", node |-> pn[n].node, up |-> u, down |-> d]
  BY <1>3 DEF GenerateCounts
<1> HIDE DEF u, d
<1>4. ASSUME NEW m \in counterNet', m \notin counterNet
      PROVE  m \in Deltas /\ (m.kind = "g" => m.node = gc[n].node /\ m.up = gc[n].up[m.node])
  <2>1. CASE gc[n].node # 0 /\ m = [kind |-> "g", node |-> gc[n].node, up |-> gc[n].up[gc[n].node], down |-> 0]
    BY <2>1, CounterFields DEF Deltas
  <2>2. CASE pn[n].node # 0 /\ m = [kind |-> "pn", node |-> pn[n].node, up |-> u, down |-> d]
    BY <1>2, <2>2, CounterFields DEF Deltas
  <2> QED
    BY <1>3, <1>4, <2>1, <2>2
<1>5. CounterTypes'
  BY <1>0, <1>1, <1>4 DEF CounterTypes
<1>6. ASSUME NEW m \in counterNet', m.kind = "g" PROVE m.up <= counted[m.node].g
  <2>1. CASE m \in counterNet
    BY <1>0, <1>6, <2>1 DEF SlotInv
  <2>2. CASE m \notin counterNet
    <3>1. m.node \in Counting /\ m.up = gc[n].up[m.node]
      BY <1>4, <1>6, <2>2 DEF Deltas
    <3> QED
      BY <1>0, <3>1 DEF SlotInv
  <2> QED
    BY <2>1, <2>2
<1> QED
  BY <1>0, <1>1, <1>5, <1>6 DEF CounterInv, SlotInv, OwnSlotInv

\* A delta arrives: a slot becomes what some counter had in it, or stays.
LEMMA ApplyCounted ==
  ASSUME CounterInv, NEW n \in Counting, NEW m \in counterNet, ApplyCounts(n, m)
  PROVE  CounterInv'
<1>0. /\ CounterTypes /\ SlotInv /\ OwnSlotInv
      /\ m \in Deltas /\ m.node \in Counting /\ m.up \in Nat /\ m.down \in Nat
  BY DEF CounterInv, CounterTypes, Deltas
<1>1. UNCHANGED <<counterNet, counted, counterRestarts>>
  BY DEF ApplyCounts
<1>2. CASE m.kind = "g"
  <2> DEFINE o == Opened(gc[n], m.node)
             c == Merge(o, m)
  <2>1. /\ gc' = [gc EXCEPT ![n] = c] /\ UNCHANGED pn
        /\ adopted' = (adopted \/ (m.node # n /\ gc[n].node = 0))
    BY <1>2 DEF ApplyCounts
  <2>2. /\ o \in Counters /\ o.node = (IF gc[n].node = 0 THEN m.node ELSE gc[n].node) /\ o.up = gc[n].up
    BY <1>0, CounterFields, OpenedFields
  <2> HIDE DEF o
  <2>3. /\ c \in Counters /\ c.node = o.node
        /\ \A k \in Counting : c.up[k] = IF k = m.node /\ ~(gc[n].up[k] >= m.up) THEN m.up ELSE gc[n].up[k]
    BY <1>0, <2>2, MergeFields
  <2> HIDE DEF c
  <2>4. gc'[n] = c /\ \A i \in Counting : i # n => gc'[i] = gc[i]
    BY <1>0, <2>1 DEF CounterTypes
  <2>5. CounterTypes'
    BY <1>0, <1>1, <2>1, <2>3 DEF CounterTypes
  <2>6. ASSUME NEW i \in Counting, NEW k \in Counting
        PROVE  gc'[i].up[k] = gc[i].up[k] \/ (i = n /\ k = m.node /\ gc'[i].up[k] = m.up /\ gc[i].up[k] <= m.up)
    <3>1. gc[i].up[k] \in Nat
      BY CounterFields
    <3> QED
      BY <1>0, <2>3, <2>4, <3>1
  <2>7. m.up <= counted[m.node].g
    BY <1>0, <1>2 DEF SlotInv
  <2>8. SlotInv'
    <3>1. \A i, k \in Counting : gc'[i].up[k] <= counted[k].g
      BY <1>0, <2>6, <2>7 DEF SlotInv
    <3> QED
      BY <1>0, <1>1, <3>1 DEF SlotInv
  <2>9. ASSUME ~adopted', NEW i \in Counting
        PROVE  /\ gc'[i].node \in {0, i}
               /\ counterRestarts[i] = 0 => gc'[i].up[i] = counted[i].g
    <3>0. ~adopted /\ (gc[n].node # 0 \/ m.node = n)
      BY <2>1, <2>9
    <3>1. gc[i].node \in {0, i} /\ gc[n].node \in {0, n}
      BY <1>0, <3>0 DEF OwnSlotInv
    <3>2. gc'[i].node \in {0, i}
      BY <2>2, <2>3, <2>4, <3>0, <3>1
    <3>3. ASSUME counterRestarts[i] = 0 PROVE gc'[i].up[i] = counted[i].g
      <4> DEFINE x == gc[i].up[i]
                 y == m.up
                 z == gc'[i].up[i]
      <4>1. x = counted[i].g
        BY <1>0, <3>0, <3>3 DEF OwnSlotInv
      <4>2. x \in Nat /\ y \in Nat
        BY <1>0, CounterFields
      <4>3. z = x \/ (z = y /\ x <= y /\ y <= x)
        BY <2>6, <2>7, <4>1
      <4> HIDE DEF x, y, z
      <4>4. z = x
        BY <4>2, <4>3
      <4> QED
        BY <4>1, <4>4 DEF x, z
    <3> QED
      BY <3>2, <3>3
  <2>10. OwnSlotInv'
    <3>1. ~adopted' => ~adopted
      BY <2>1
    <3> QED
      BY <1>0, <1>1, <2>1, <2>9, <3>1 DEF OwnSlotInv
  <2> QED
    BY <2>5, <2>8, <2>10 DEF CounterInv
<1>3. CASE m.kind = "pn"
  <2> DEFINE o == Opened(pn[n], m.node)
             c == Merge(o, m)
  <2>1. /\ pn' = [pn EXCEPT ![n] = c] /\ UNCHANGED gc
        /\ adopted' = (adopted \/ (m.node # n /\ pn[n].node = 0))
    BY <1>3 DEF ApplyCounts
  <2>2. /\ o \in Counters /\ o.node = (IF pn[n].node = 0 THEN m.node ELSE pn[n].node)
        /\ o.up = pn[n].up /\ o.down = pn[n].down
    BY <1>0, CounterFields, OpenedFields
  <2> HIDE DEF o
  <2>3. /\ c \in Counters /\ c.node = o.node
        /\ \A k \in Counting :
             /\ c.up[k] = IF k = m.node /\ ~(pn[n].up[k] >= m.up) THEN m.up ELSE pn[n].up[k]
             /\ c.down[k] = IF k = m.node /\ ~(pn[n].down[k] >= m.down) THEN m.down ELSE pn[n].down[k]
    BY <1>0, <2>2, MergeFields
  <2> HIDE DEF c
  <2>4. pn'[n] = c /\ \A i \in Counting : i # n => pn'[i] = pn[i]
    BY <1>0, <2>1 DEF CounterTypes
  <2>5. CounterTypes'
    BY <1>0, <1>1, <2>1, <2>3 DEF CounterTypes
  <2>6. SlotInv'
    BY <1>0, <1>1, <2>1 DEF SlotInv
  <2>7. ASSUME ~adopted', NEW i \in Counting
        PROVE  /\ pn'[i].node \in {0, i}
               /\ counterRestarts[i] = 0 => pn'[i].up[i] >= counted[i].up /\ pn'[i].down[i] >= counted[i].down
    <3>0. ~adopted /\ (pn[n].node # 0 \/ m.node = n)
      BY <2>1, <2>7
    <3>1. /\ pn[i].node \in {0, i} /\ pn[n].node \in {0, n}
          /\ counterRestarts[i] = 0 => pn[i].up[i] >= counted[i].up /\ pn[i].down[i] >= counted[i].down
      BY <1>0, <3>0 DEF OwnSlotInv
    <3>2. pn'[i].node \in {0, i}
      BY <2>2, <2>3, <2>4, <3>0, <3>1
    <3>3. /\ pn[i].up[i] \in Nat /\ pn[i].down[i] \in Nat
          /\ counted[i].up \in Nat /\ counted[i].down \in Nat
      BY CounterFields
    <3>4. pn'[i].up[i] >= pn[i].up[i] /\ pn'[i].down[i] >= pn[i].down[i] /\ pn'[i].up[i] \in Nat /\ pn'[i].down[i] \in Nat
      <4>1. CASE i # n
        BY <2>4, <3>3, <4>1
      <4>2. CASE i = n
        BY <1>0, <2>3, <2>4, <3>3, <4>2
      <4> QED
        BY <4>1, <4>2
    <3> QED
      BY <3>1, <3>2, <3>3, <3>4
  <2>8. OwnSlotInv'
    <3>1. ~adopted' => ~adopted
      BY <2>1
    <3> QED
      BY <1>0, <1>1, <2>1, <2>7, <3>1 DEF OwnSlotInv
  <2> QED
    BY <2>5, <2>6, <2>8 DEF CounterInv
<1> QED
  BY <1>2, <1>3 DEF ApplyCounts

\* A replica that restarts has empty slots.
LEMMA RestartCounted ==
  ASSUME CounterInv, NEW n \in Counting, RestartCounters(n)
  PROVE  CounterInv'
<1>0. CounterTypes /\ SlotInv /\ OwnSlotInv
  BY DEF CounterInv
<1>1. /\ gc' = [gc EXCEPT ![n] = NoCounter] /\ pn' = [pn EXCEPT ![n] = NoCounter]
      /\ counterRestarts' = [counterRestarts EXCEPT ![n] = @ + 1]
      /\ UNCHANGED <<counterNet, counted, adopted>>
  BY DEF RestartCounters
<1>2. NoCounter \in Counters /\ NoCounter.node = 0 /\ \A k \in Counting : NoCounter.up[k] = 0
  BY SlotsZero DEF NoCounter, Counters, Zero
<1>3. /\ gc'[n] = NoCounter /\ pn'[n] = NoCounter
      /\ \A i \in Counting : i # n => /\ gc'[i] = gc[i] /\ pn'[i] = pn[i]
                                      /\ counterRestarts'[i] = counterRestarts[i]
      /\ counterRestarts'[n] = counterRestarts[n] + 1 /\ counterRestarts[n] \in Nat
      /\ counterRestarts' \in [Counting -> Nat]
  BY <1>0, <1>1 DEF CounterTypes
<1>4. CounterTypes'
  BY <1>0, <1>1, <1>2, <1>3 DEF CounterTypes
<1>5. ASSUME NEW i \in Counting, NEW k \in Counting PROVE gc'[i].up[k] <= counted'[k].g
  <2>1. counted[k].g \in Nat /\ gc[i].up[k] <= counted[k].g
    BY <1>0, CounterFields DEF SlotInv
  <2> QED
    BY <1>1, <1>2, <1>3, <2>1
<1>6. SlotInv'
  BY <1>0, <1>1, <1>5 DEF SlotInv
<1>7. counterRestarts'[n] # 0
  BY <1>3
<1>8. OwnSlotInv'
  BY <1>0, <1>1, <1>2, <1>3, <1>7 DEF OwnSlotInv
<1> QED
  BY <1>4, <1>6, <1>8 DEF CounterInv

\* Every step keeps what the slots show.
LEMMA CounterPreserved == CounterInv /\ [CounterNext]_counterVars => CounterInv'
<1> SUFFICES ASSUME CounterInv, [CounterNext]_counterVars PROVE CounterInv'
  OBVIOUS
<1>1. CASE UNCHANGED counterVars
  BY <1>1 DEF counterVars, counterHistory, CounterInv, CounterTypes, SlotInv, OwnSlotInv
<1>2. ASSUME NEW n \in Counting, GCounterIncrement(n) PROVE CounterInv'
  BY <1>2, IncrementCounts
<1>3. ASSUME NEW n \in Counting, NEW side \in {"up", "down"}, PNCounterChange(n, side) PROVE CounterInv'
  BY <1>3, ChangeCounts
<1>4. ASSUME NEW n \in Counting, GenerateCounts(n) PROVE CounterInv'
  BY <1>4, GenerateCounted
<1>5. ASSUME NEW n \in Counting, NEW m \in counterNet, ApplyCounts(n, m) PROVE CounterInv'
  BY <1>5, ApplyCounted
<1>6. ASSUME NEW n \in Counting, RestartCounters(n) PROVE CounterInv'
  BY <1>6, RestartCounted
<1> QED
  BY <1>1, <1>2, <1>3, <1>4, <1>5, <1>6 DEF CounterNext

\* Slots that show no more than was counted into them add up to no more.
LEMMA CountsFromSlots == CounterInv => CountsOnce
<1> SUFFICES ASSUME CounterInv PROVE CountsOnce
  OBVIOUS
<1>1. ASSUME NEW n \in Counting PROVE Slots(gc[n].up) <= GAsked
  <2> DEFINE a == [k \in Counting |-> counted[k].g]
  <2>1. gc[n].up \in [Counting -> Nat] /\ a \in [Counting -> Nat]
    BY CounterFields
  <2>2. \A k \in Counting : gc[n].up[k] <= a[k]
    BY DEF CounterInv, SlotInv
  <2> HIDE DEF a
  <2>3. Slots(gc[n].up) <= Slots(a)
    BY <2>1, <2>2, SlotsMonotone
  <2> QED
    BY <2>3 DEF GAsked, a
<1>2. ~adopted => \A n, m \in Counting : counterRestarts[n] = 0 =>
         /\ gc[n].up[n] = counted[n].g /\ gc[m].up[n] <= gc[n].up[n]
         /\ pn[n].up[n] >= counted[n].up /\ pn[n].down[n] >= counted[n].down
  BY DEF CounterInv, OwnSlotInv, SlotInv
<1> QED
  BY <1>1, <1>2 DEF CountsOnce

\* However often and in whatever order deltas arrive and whoever restarts, a
\* grow-only counter never shows more than was counted, and a replica that made
\* its own counters and did not restart keeps every count of its own (g_counter.rs
\* and pn_counter.rs under crdt_store.rs).
THEOREM CountedOnce == CounterSpec => []CountsOnce
<1>1. CounterSpec => []CounterInv
  BY CounterInitial, CounterPreserved, PTL DEF CounterSpec
<1> QED
  BY <1>1, CountsFromSlots, PTL

==============================================================================
