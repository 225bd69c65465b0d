----------------------------- MODULE BlockProofs -----------------------------
(* What thin pools, copy-on-write blocks and the extent map of a volume       *)
(* guarantee, for any number of threads, chunks, blocks and contents and for  *)
(* volumes of any size.                                                       *)
EXTENDS ThinPool, CowBlocks, ExtentMap, FiniteSetTheorems, SequenceTheorems, WellFoundedInduction, TLAPS

-----------------------------------------------------------------------------
(* The thin pool *)

(* Chunks: one owner, and how far the pool is overrun *)

PoolLabels == {"idle", "allocate", "new", "count", "freed"}

Ids == 1 .. nextChunk - 1

\* A thread has a chunk in its hands exactly between its allocation and its count.
PoolTypes ==
  /\ nextChunk \in Nat \ {0}
  /\ ppc \in [Allocators -> PoolLabels]
  /\ ploc \in [Allocators -> Nat]
  /\ owned \in [Allocators -> SUBSET Nat]
  /\ freeList \in Seq(Nat)
  /\ \A t \in Allocators : (ploc[t] = 0 /\ ppc[t] # "count") \/ (ploc[t] \in Ids /\ ppc[t] = "count")
  /\ \A t \in Allocators : owned[t] \subseteq Ids
  /\ \A i \in 1 .. Len(freeList) : freeList[i] \in Ids

Has(t) == owned[t] \cup {ploc[t]}

OwnersApart == \A t, u \in Allocators : \A c \in Has(t) \cap Has(u) : t = u \/ c = 0

FreeIsFree ==
  /\ \A i \in 1 .. Len(freeList) : \A t \in Allocators : freeList[i] \notin Has(t)
  /\ \A i, j \in 1 .. Len(freeList) : i # j => freeList[i] # freeList[j]

PoolInv == PoolTypes /\ OwnersApart /\ FreeIsFree

\* Nothing is allocated at the start.
LEMMA PoolInitial == PoolInit => PoolInv
BY DEF PoolInit, PoolInv, PoolTypes, OwnersApart, FreeIsFree, PoolLabels, Has, Ids

\* A step in which nobody gets a chunk and the free list stays as it is.
LEMMA PoolGivesNothing ==
  ASSUME PoolInv, UNCHANGED freeList, \A t \in Allocators : Has(t)' \subseteq Has(t) \cup {0}
  PROVE  OwnersApart' /\ FreeIsFree'
<1>1. OwnersApart'
  BY DEF PoolInv, OwnersApart
<1>2. \A i \in 1 .. Len(freeList) : freeList[i] # 0
  BY DEF PoolInv, PoolTypes, Ids
<1>3. FreeIsFree'
  BY <1>2 DEF PoolInv, FreeIsFree
<1> QED
  BY <1>1, <1>3

\* allocate_chunk takes the head of the free list, which nobody owns.
LEMMA RecycleKeepsPool ==
  ASSUME PoolInv, NEW t \in Allocators, Recycle(t)
  PROVE  PoolInv'
<1> DEFINE n == Len(freeList)
           c == freeList[n]
<1>0. PoolTypes /\ OwnersApart /\ FreeIsFree
  BY DEF PoolInv
<1>1. n \in Nat /\ n # 0 /\ n \in 1 .. n
  BY <1>0 DEF Recycle, PoolTypes
<1>2. c \in Ids /\ c # 0
  BY <1>0, <1>1 DEF PoolTypes, Ids
<1>3. /\ freeList' \in Seq(Nat)
      /\ Len(freeList') = n - 1
      /\ \A i \in 1 .. n - 1 : freeList'[i] = freeList[i]
  <2>1. freeList \in Seq(Nat) /\ freeList' = SubSeq(freeList, 1, n - 1)
    BY <1>0 DEF Recycle, PoolTypes
  <2>2. \A i \in 1 .. n - 1 : freeList[i] \in Nat
    BY <2>1, <1>1, ElementOfSeq
  <2> HIDE DEF n
  <2>3. n - 1 \in Int /\ (n - 1) - 1 + 1 = n - 1 /\ (IF 1 <= n - 1 THEN (n - 1) - 1 + 1 ELSE 0) = n - 1
        /\ \A i \in 1 .. n - 1 : 1 + i - 1 = i
    BY <1>1
  <2>4. /\ SubSeq(freeList, 1, n - 1) \in Seq(Nat)
        /\ Len(SubSeq(freeList, 1, n - 1)) = IF 1 <= n - 1 THEN (n - 1) - 1 + 1 ELSE 0
        /\ \A i \in 1 .. (n - 1) - 1 + 1 : SubSeq(freeList, 1, n - 1)[i] = freeList[1 + i - 1]
    BY <2>2, <2>3, SubSeqProperties
  <2> QED
    BY <2>1, <2>3, <2>4
<1>4. owned' = owned /\ ploc' = [ploc EXCEPT ![t] = c] /\ nextChunk' = nextChunk
      /\ ppc' = [ppc EXCEPT ![t] = "count"]
  BY DEF Recycle, PGoto
<1>5. \A i \in 1 .. n - 1 : i \in 1 .. n /\ i # n
  BY <1>1
<1>6. PoolTypes'
  <2>1. \A i \in 1 .. Len(freeList') : freeList'[i] \in Ids
    BY <1>0, <1>3, <1>5 DEF PoolTypes
  <2>2. Ids' = Ids
    BY <1>4 DEF Ids
  <2>3. c \in Nat
    BY <1>2 DEF Ids
  <2> HIDE DEF c
  <2> QED
    BY <2>1, <2>2, <2>3, <1>0, <1>2, <1>3, <1>4 DEF PoolTypes, PoolLabels
<1>7. \A u \in Allocators : u # t => Has(u)' = Has(u)
  BY <1>0, <1>4 DEF Has, PoolTypes
<1>8. \A x \in Has(t)' : x \in Has(t) \/ x = c
  BY <1>0, <1>4 DEF Has, PoolTypes
<1>9. \A u \in Allocators : c \notin Has(u)
  BY <1>0, <1>1 DEF FreeIsFree
<1> HIDE DEF c
<1>10. OwnersApart'
  BY <1>0, <1>7, <1>8, <1>9 DEF OwnersApart
<1>11. \A i \in 1 .. n - 1 : freeList[i] # c /\ \A u \in Allocators : freeList[i] \notin Has(u)
  BY <1>0, <1>1, <1>5 DEF FreeIsFree, c
<1>12. FreeIsFree'
  <2>1. ASSUME NEW i \in 1 .. n - 1, NEW u \in Allocators PROVE freeList'[i] \notin Has(u)'
    BY <1>3, <1>7, <1>8, <1>11
  <2>2. ASSUME NEW i \in 1 .. n - 1, NEW j \in 1 .. n - 1, i # j PROVE freeList'[i] # freeList'[j]
    BY <2>2, <1>0, <1>3, <1>5 DEF FreeIsFree
  <2> QED
    BY <2>1, <2>2, <1>3 DEF FreeIsFree
<1> QED
  BY <1>6, <1>10, <1>12 DEF PoolInv

\* free_chunk puts a chunk of its owner on the free list.
LEMMA FreeKeepsPool ==
  ASSUME PoolInv, NEW t \in Allocators, NEW c \in owned[t], FreeChunk(t, c)
  PROVE  PoolInv'
<1> DEFINE n == Len(freeList)
<1>0. PoolTypes /\ OwnersApart /\ FreeIsFree
  BY DEF PoolInv
<1>1. n \in Nat /\ c \in Ids /\ c \in Nat /\ c # 0 /\ ploc[t] = 0
  BY <1>0 DEF PoolTypes, Ids, FreeChunk
<1>2. /\ freeList' \in Seq(Nat)
      /\ Len(freeList') = n + 1
      /\ \A i \in 1 .. n : freeList'[i] = freeList[i]
      /\ freeList'[n + 1] = c
  BY <1>0, <1>1, AppendProperties DEF FreeChunk, PoolTypes
<1>3. owned' = [owned EXCEPT ![t] = @ \ {c}] /\ ploc' = ploc /\ nextChunk' = nextChunk
      /\ ppc' = [ppc EXCEPT ![t] = "freed"]
  BY <1>0, <1>1 DEF FreeChunk, PGoto, PoolTypes
<1>4. PoolTypes'
  BY <1>0, <1>1, <1>2, <1>3 DEF PoolTypes, PoolLabels, Ids, FreeChunk
<1>5. \A u \in Allocators : Has(u)' \subseteq Has(u)
  BY <1>0, <1>3 DEF Has, PoolTypes
<1>6. OwnersApart'
  BY <1>0, <1>5 DEF OwnersApart
<1>7. \A u \in Allocators : c \notin Has(u)'
  <2>1. c \notin Has(t)'
    BY <1>0, <1>1, <1>3 DEF Has, PoolTypes
  <2>2. c \in Has(t)
    BY DEF Has
  <2> QED
    BY <2>1, <2>2, <1>0, <1>1, <1>5 DEF OwnersApart
<1>8. \A i \in 1 .. n : freeList[i] # c
  BY <1>0 DEF FreeIsFree, Has
<1>9. FreeIsFree'
  <2>1. ASSUME NEW i \in 1 .. n + 1, NEW u \in Allocators PROVE freeList'[i] \notin Has(u)'
    <3>1. CASE i = n + 1
      BY <3>1, <1>2, <1>7
    <3>2. CASE i # n + 1
      <4>1. i \in 1 .. n
        BY <3>2, <1>1
      <4> QED
        BY <4>1, <1>0, <1>2, <1>5 DEF FreeIsFree
    <3> QED
      BY <3>1, <3>2
  <2>2. ASSUME NEW i \in 1 .. n + 1, NEW j \in 1 .. n + 1, i # j PROVE freeList'[i] # freeList'[j]
    <3>1. \/ i \in 1 .. n /\ j \in 1 .. n
          \/ i \in 1 .. n /\ j = n + 1
          \/ i = n + 1 /\ j \in 1 .. n
      BY <2>2, <1>1
    <3> QED
      BY <3>1, <2>2, <1>0, <1>2, <1>8 DEF FreeIsFree
  <2> QED
    BY <2>1, <2>2, <1>2 DEF FreeIsFree
<1> QED
  BY <1>4, <1>6, <1>9 DEF PoolInv

\* Every step keeps the invariant, one case per action.
LEMMA PoolPreserved == PoolInv /\ [PoolNext]_poolVars => PoolInv'
<1> SUFFICES ASSUME PoolInv, [PoolNext]_poolVars PROVE PoolInv'
  OBVIOUS
<1>0. PoolTypes /\ OwnersApart /\ FreeIsFree
  BY DEF PoolInv
<1>1. ASSUME NEW t \in Allocators, SpaceCheck(t) \/ NewChunkSeen(t) \/ UncountChunk(t) PROVE PoolInv'
  <2>1. PoolTypes' /\ UNCHANGED freeList
    BY <1>0, <1>1 DEF SpaceCheck, NewChunkSeen, UncountChunk, PGoto, PoolTypes, PoolLabels, Ids
  <2>2. \A u \in Allocators : Has(u)' \subseteq Has(u) \cup {0}
    BY <1>0, <1>1 DEF SpaceCheck, NewChunkSeen, UncountChunk, PGoto, PoolTypes, Has
  <2> QED
    BY <2>1, <2>2, PoolGivesNothing DEF PoolInv
<1>2. ASSUME NEW t \in Allocators, NewChunk(t) PROVE PoolInv'
  <2>1. PoolTypes' /\ freeList' = freeList
    BY <1>0, <1>2 DEF NewChunk, PGoto, PoolTypes, PoolLabels, Ids
  <2>2. \A u \in Allocators : u # t => Has(u)' = Has(u)
    BY <1>0, <1>2 DEF NewChunk, PGoto, PoolTypes, Has
  <2>3. \A x \in Has(t)' : x \in Has(t) \/ x = nextChunk
    BY <1>0, <1>2 DEF NewChunk, PGoto, PoolTypes, Has
  <2>4. /\ \A u \in Allocators : nextChunk \notin Has(u)
        /\ \A i \in 1 .. Len(freeList) : freeList[i] # nextChunk
    BY <1>0 DEF PoolTypes, Has, Ids
  <2>5. OwnersApart'
    BY <1>0, <2>2, <2>3, <2>4 DEF OwnersApart
  <2>6. FreeIsFree'
    BY <1>0, <2>1, <2>2, <2>3, <2>4 DEF FreeIsFree
  <2> QED
    BY <2>1, <2>5, <2>6 DEF PoolInv
<1>3. ASSUME NEW t \in Allocators, CountChunk(t) PROVE PoolInv'
  <2>1. PoolTypes' /\ UNCHANGED freeList
    BY <1>0, <1>3 DEF CountChunk, PGoto, PoolTypes, PoolLabels, Ids
  <2>2. \A u \in Allocators : Has(u)' \subseteq Has(u) \cup {0}
    BY <1>0, <1>3 DEF CountChunk, PGoto, PoolTypes, Has
  <2> QED
    BY <2>1, <2>2, PoolGivesNothing DEF PoolInv
<1>4. CASE UNCHANGED poolVars
  BY <1>0, <1>4 DEF poolVars, PoolInv, PoolTypes, OwnersApart, FreeIsFree, Has, Ids
<1> QED
  BY <1>1, <1>2, <1>3, <1>4, RecycleKeepsPool, FreeKeepsPool DEF PoolNext

\* A chunk that was given out is owned, or is on its way to its owner.
LEMMA GivenMembers ==
  \A g \in Given : g # 0 /\ \E t \in Allocators : g \in owned[t] \/ g = ploc[t]
<1> SUFFICES ASSUME NEW g \in Given
             PROVE  g # 0 /\ \E t \in Allocators : g \in owned[t] \/ g = ploc[t]
  OBVIOUS
<1> DEFINE U == UNION {owned[t] : t \in Allocators}
           P == {ploc[t] : t \in Allocators}
<1>1. Given = (U \cup P) \ {0}
  BY DEF Given
<1> HIDE DEF U, P
<1>2. g # 0 /\ (g \in U \/ g \in P)
  BY <1>1
<1> QED
  BY <1>2, Zenon DEF U, P

\* A chunk belongs to one volume at most, and to none while it is free, whatever
\* threads allocate and free at once (ChunkAllocator::allocate, free_chunk).
THEOREM OneOwner == PoolSpec => []ChunkHasOneOwner
<1>1. PoolInv => ChunkHasOneOwner
  <2> SUFFICES ASSUME PoolInv PROVE ChunkHasOneOwner
    OBVIOUS
  <2>1. \A t, u \in Allocators : t # u => Has(t) \cap Has(u) \subseteq {0}
    BY DEF PoolInv, OwnersApart
  <2>2. \A g \in Given : \E t \in Allocators : g \in Has(t)
    BY GivenMembers DEF Has
  <2>3. \A i \in 1 .. Len(freeList) : freeList[i] \notin Given
    BY <2>2 DEF PoolInv, FreeIsFree
  <2> QED
    BY <2>1, <2>3 DEF PoolInv, FreeIsFree, Has, ChunkHasOneOwner
<1> QED
  BY <1>1, PoolInitial, PoolPreserved, PTL DEF PoolSpec
-----------------------------------------------------------------------------
(* The size of the pool *)

InUse == UNION {owned[t] : t \in Allocators}
Freeing == {t \in Allocators : ppc[t] = "freed"}

\* The count is never behind the chunks in use, and the threads on their way to a
\* chunk are within the bound already.
CountInv ==
  /\ chunkCount \in Int /\ crowd \in Nat
  /\ IsFiniteSet(InUse)
  /\ chunkCount >= Cardinality(InUse) + Cardinality(Freeing)
  /\ PoolChunks > 0 => Cardinality(InUse) + Cardinality(Allocating) <= PoolChunks + crowd - 1

\* A chunk in use has an owner.
LEMMA InUseMembers == \A c : c \in InUse <=> \E t \in Allocators : c \in owned[t]
BY DEF InUse

\* Finitely many threads are in the middle of a call.
LEMMA PoolThreadsFinite ==
  /\ IsFiniteSet(Freeing) /\ Cardinality(Freeing) \in Nat
  /\ IsFiniteSet(Allocating) /\ Cardinality(Allocating) \in Nat
<1>1. Freeing \in SUBSET Allocators /\ Allocating \in SUBSET Allocators
  BY DEF Freeing, Allocating
<1>2. IsFiniteSet(Freeing) /\ IsFiniteSet(Allocating)
  BY <1>1, PoolAssumption, FS_Subset
<1> QED
  BY <1>2, FS_CardinalityType

\* The count is zero at the start.
LEMMA CountInitial == PoolInit => CountInv
<1> SUFFICES ASSUME PoolInit PROVE CountInv
  OBVIOUS
<1>1. InUse = {} /\ Freeing = {} /\ Allocating = {}
  BY DEF PoolInit, InUse, Freeing, Allocating
<1> QED
  BY <1>1, FS_EmptySet, PoolAssumption DEF PoolInit, CountInv

\* Every step keeps the relation of the count and the chunks in use, one case
\* per action.
LEMMA CountPreserved == PoolInv /\ CountInv /\ [PoolNext]_poolVars => CountInv'
<1> SUFFICES ASSUME PoolInv, CountInv, [PoolNext]_poolVars PROVE CountInv'
  OBVIOUS
<1>0. PoolTypes /\ OwnersApart /\ PoolChunks \in Nat
  BY PoolAssumption DEF PoolInv
<1>f. /\ IsFiniteSet(InUse) /\ Cardinality(InUse) \in Nat
      /\ IsFiniteSet(Freeing) /\ Cardinality(Freeing) \in Nat
      /\ IsFiniteSet(Allocating) /\ Cardinality(Allocating) \in Nat
  BY PoolThreadsFinite, FS_CardinalityType DEF CountInv
<1>1. ASSUME NEW t \in Allocators, SpaceCheck(t) PROVE CountInv'
  <2>1. /\ InUse' = InUse /\ Freeing' = Freeing
        /\ Allocating' = Allocating \cup {t} /\ t \notin Allocating
    BY <1>0, <1>1 DEF SpaceCheck, PGoto, PoolTypes, InUse, Freeing, Allocating
  <2>2. Cardinality(Allocating') = Cardinality(Allocating) + 1
    BY <1>f, <2>1, FS_AddElement
  <2>3. crowd' \in Nat /\ crowd' >= Cardinality(Allocating) + 1
    BY <1>1, <1>f DEF SpaceCheck, CountInv
  <2> QED
    BY <1>0, <1>1, <1>f, <2>1, <2>2, <2>3 DEF SpaceCheck, CountInv
<1>2. ASSUME NEW t \in Allocators, Recycle(t) \/ NewChunkSeen(t) \/ NewChunk(t) PROVE CountInv'
  <2>1. InUse' = InUse /\ Freeing' = Freeing /\ Allocating' = Allocating
    BY <1>0, <1>2 DEF Recycle, NewChunkSeen, NewChunk, PGoto, PoolTypes, InUse, Freeing, Allocating
  <2> QED
    BY <1>2, <2>1 DEF Recycle, NewChunkSeen, NewChunk, CountInv
<1>3. ASSUME NEW t \in Allocators, CountChunk(t) PROVE CountInv'
  <2>1. Freeing' = Freeing /\ Allocating' = Allocating \ {t} /\ t \in Allocating
    BY <1>0, <1>3 DEF CountChunk, PGoto, PoolTypes, Freeing, Allocating
  <2>2. InUse' = InUse \cup {ploc[t]}
    <3>1. owned' = [owned EXCEPT ![t] = @ \cup {ploc[t]}] /\ DOMAIN owned = Allocators
      BY <1>0, <1>3 DEF CountChunk, PoolTypes
    <3>2. \A c : c \in InUse' <=> c \in InUse \/ c = ploc[t]
      <4>1. \A c : c \in InUse' <=> \E u \in Allocators : c \in owned'[u]
        BY DEF InUse
      <4> QED
        BY <3>1, <4>1, InUseMembers
    <3> QED
      BY <3>2
  <2>3. IsFiniteSet(InUse') /\ Cardinality(InUse') <= Cardinality(InUse) + 1
    <3>1. /\ IsFiniteSet(InUse \cup {ploc[t]})
          /\ Cardinality(InUse \cup {ploc[t]})
               = IF ploc[t] \in InUse THEN Cardinality(InUse) ELSE Cardinality(InUse) + 1
      BY <1>f, FS_AddElement
    <3> QED
      BY <1>f, <2>2, <3>1
  <2>4. Cardinality(Allocating') = Cardinality(Allocating) - 1 /\ Cardinality(InUse') \in Nat
    BY <1>f, <2>1, <2>3, FS_RemoveElement, FS_CardinalityType
  <2> QED
    BY <1>0, <1>3, <1>f, <2>1, <2>3, <2>4 DEF CountChunk, CountInv
<1>4. ASSUME NEW t \in Allocators, NEW c \in owned[t], FreeChunk(t, c) PROVE CountInv'
  <2>1. Freeing' = Freeing \cup {t} /\ t \notin Freeing /\ Allocating' = Allocating
    BY <1>0, <1>4 DEF FreeChunk, PGoto, PoolTypes, Freeing, Allocating
  <2>2. InUse' = InUse \ {c} /\ c \in InUse
    <3>1. owned' = [owned EXCEPT ![t] = @ \ {c}] /\ DOMAIN owned = Allocators /\ c # 0
      BY <1>0, <1>4 DEF FreeChunk, PoolTypes, Ids
    <3>2. \A u \in Allocators : c \in owned[u] => u = t
      BY <1>0, <3>1 DEF OwnersApart, Has
    <3>3. \A d : d \in InUse' <=> d \in InUse /\ d # c
      <4>1. \A d : d \in InUse' <=> \E u \in Allocators : d \in owned'[u]
        BY DEF InUse
      <4> QED
        BY <3>1, <3>2, <4>1, InUseMembers
    <3> QED
      BY <3>3, InUseMembers
  <2>3. IsFiniteSet(InUse') /\ Cardinality(InUse') = Cardinality(InUse) - 1
        /\ Cardinality(Freeing') = Cardinality(Freeing) + 1
    BY <1>f, <2>1, <2>2, FS_AddElement, FS_RemoveElement
  <2> QED
    BY <1>0, <1>4, <1>f, <2>1, <2>3 DEF FreeChunk, CountInv
<1>5. ASSUME NEW t \in Allocators, UncountChunk(t) PROVE CountInv'
  <2>1. /\ InUse' = InUse /\ Allocating' = Allocating
        /\ Freeing' = Freeing \ {t} /\ t \in Freeing
    BY <1>0, <1>5 DEF UncountChunk, PGoto, PoolTypes, InUse, Freeing, Allocating
  <2>2. Cardinality(Freeing') = Cardinality(Freeing) - 1
    BY <1>f, <2>1, FS_RemoveElement
  <2> QED
    BY <1>0, <1>5, <1>f, <2>1, <2>2 DEF UncountChunk, CountInv
<1>6. CASE UNCHANGED poolVars
  BY <1>6 DEF poolVars, CountInv, InUse, Freeing, Allocating
<1> QED
  BY <1>1, <1>2, <1>3, <1>4, <1>5, <1>6 DEF PoolNext

\* However many threads pass the space check together, the chunks they are given
\* exceed the pool by less than the number of those threads (thin.rs:86).
THEOREM OverrunBounded == PoolSpec => []PoolOverrunBounded
<1>1. PoolInv /\ CountInv => PoolOverrunBounded
  <2> SUFFICES ASSUME PoolInv, CountInv, PoolChunks > 0
               PROVE  Cardinality(Given) <= PoolChunks + crowd - 1
    BY DEF PoolOverrunBounded
  <2> DEFINE Counting == {t \in Allocators : ppc[t] = "count"}
             Hands == {ploc[t] : t \in Counting}
             f == [t \in Counting |-> ploc[t]]
  <2>1. Counting \in SUBSET Allocating /\ IsFiniteSet(Allocating)
    BY PoolThreadsFinite DEF Allocating
  <2>2. IsFiniteSet(Counting) /\ Cardinality(Counting) <= Cardinality(Allocating)
    BY <2>1, FS_Subset
  <2>3. f \in Surjection(Counting, Hands)
    BY DEF Surjection
  <2>4. IsFiniteSet(Hands) /\ Cardinality(Hands) <= Cardinality(Counting)
    <3> HIDE DEF Counting, Hands, f
    <3> QED
      BY <2>2, <2>3, FS_Surjection
  <2>5. Given \subseteq InUse \cup Hands
    <3>1. \A t \in Allocators : ploc[t] # 0 => t \in Counting
      BY DEF PoolInv, PoolTypes
    <3> QED
      BY <3>1, GivenMembers, InUseMembers
  <2> HIDE DEF Counting, Hands
  <2>6. IsFiniteSet(InUse) /\ IsFiniteSet(InUse \cup Hands) /\ IsFiniteSet(InUse \cap Hands)
        /\ Cardinality(InUse \cup Hands)
             = Cardinality(InUse) + Cardinality(Hands) - Cardinality(InUse \cap Hands)
    BY <2>4, FS_Union, FS_Intersection DEF CountInv
  <2>7. Cardinality(Given) <= Cardinality(InUse \cup Hands) /\ IsFiniteSet(Given)
    BY <2>5, <2>6, FS_Subset
  <2>8. Cardinality(InUse) \in Nat /\ Cardinality(Hands) \in Nat /\ Cardinality(InUse \cap Hands) \in Nat
        /\ Cardinality(Counting) \in Nat /\ Cardinality(Allocating) \in Nat /\ Cardinality(Given) \in Nat
    BY <2>1, <2>2, <2>4, <2>6, <2>7, FS_CardinalityType
  <2> QED
    BY <2>2, <2>4, <2>6, <2>7, <2>8, PoolAssumption DEF CountInv
<1> QED
  BY <1>1, PoolInitial, PoolPreserved, CountInitial, CountPreserved, PTL DEF PoolSpec

-----------------------------------------------------------------------------
(* Copy-on-write blocks *)

CowLabels == {"idle", "create", "store", "copy", "check", "unindex", "delete"}
CowTasks == [content : Contents \cup {"none"}, id : BlockIds \cup {0}, todo : Seq(BlockIds)]

CInHand ==
  \A t \in CowThreads :
    /\ cpc[t] \in {"create", "store", "copy"} => cloc[t].content \in Contents
    /\ cpc[t] = "store" => cloc[t].id \in BlockIds
    /\ cpc[t] \in {"unindex", "delete"} => cloc[t].todo # <<>>

CowTypes ==
  /\ cowBlocks \in [BlockIds -> [content : Contents \cup {"none"}, refs : Nat]]
  /\ checksumIndex \in [Contents -> BlockIds \cup {0}]
  /\ pendingDeletes \in Seq(BlockIds)
  /\ nextInline \in Nat \ {0} /\ nextExternal \in Nat \ {0}
  /\ cpc \in [CowThreads -> CowLabels] /\ cloc \in [CowThreads -> CowTasks]
  /\ held \in [BlockIds -> [Contents -> Nat]]
  /\ raced \in BOOLEAN
  /\ CInHand

Listed(id) == \E i \in 1 .. Len(pendingDeletes) : pendingDeletes[i] = id
ToClean(id) == \E t \in CowThreads : CleaningUp(t) /\ \E i \in 1 .. Len(cloc[t].todo) : cloc[t].todo[i] = id
Waits(id) == Listed(id) \/ ToClean(id) \/ id \in skipped

DeadWaits == \A id \in BlockIds : (Present(id) /\ cowBlocks[id].refs = 0) => Waits(id)

\* All blocks come from one of the two counters.
Uniform == Inline = Contents \/ Inline = {}
NextId == IF Inline = Contents THEN nextInline ELSE nextExternal

Fresh(id) == id >= NextId \/ \E t \in CowThreads : cpc[t] = "store" /\ cloc[t].id = id

\* An id is given out once.
StoresApart ==
  /\ \A t \in CowThreads : cpc[t] = "store" => cloc[t].id < NextId
  /\ \A t, u \in CowThreads : (cpc[t] = "store" /\ cpc[u] = "store" /\ cloc[t].id = cloc[u].id) => t = u

FreshEmpty == \A id \in BlockIds : Fresh(id) => (cowBlocks[id] = NoBlock /\ \A c \in Contents : held[id][c] = 0)

\* An entry of the index leads to a block with its content, now or once it is stored.
IndexTrue ==
  \A c \in Contents : checksumIndex[c] # 0 =>
    /\ checksumIndex[c] < NextId
    /\ \A t \in CowThreads : (cpc[t] = "store" /\ cloc[t].id = checksumIndex[c]) => cloc[t].content = c
    /\ Present(checksumIndex[c]) => cowBlocks[checksumIndex[c]].content = c

\* What a cleanup is about to remove has no reference.
CleaningDead ==
  \A t \in CowThreads : cpc[t] \in {"unindex", "delete"} =>
    /\ ~Fresh(Head(cloc[t].todo))
    /\ ~raced => cowBlocks[Head(cloc[t].todo)].refs = 0

HeldCounted ==
  ~raced => \A id \in BlockIds, c \in Contents :
    held[id][c] = IF cowBlocks[id].content = c THEN cowBlocks[id].refs ELSE 0

CowIds == StoresApart /\ FreshEmpty /\ IndexTrue /\ CleaningDead /\ HeldCounted

CowInv == CowTypes /\ DeadWaits /\ (Uniform => CowIds)

-----------------------------------------------------------------------------
\* The locals that the calls store.
LEMMA IdleTask == /\ NoWork \in CowTasks
                  /\ \A c \in Contents : [NoWork EXCEPT !.content = c] \in CowTasks /\ [NoWork EXCEPT !.content = c].content = c
                  /\ \A s \in Seq(BlockIds) : [NoWork EXCEPT !.todo = s] \in CowTasks /\ [NoWork EXCEPT !.todo = s].todo = s
<1>1. NoWork \in CowTasks
  BY EmptySeq DEF NoWork, CowTasks
<1> QED
  BY <1>1 DEF NoWork, CowTasks

\* No block at the start.
LEMMA CowInitial == CowInit => CowInv
<1> SUFFICES ASSUME CowInit PROVE CowInv
  OBVIOUS
<1>1. /\ nextInline = 1 /\ nextExternal = 1 /\ raced = FALSE /\ pendingDeletes = <<>>
      /\ \A t \in CowThreads : cpc[t] = "idle" /\ cloc[t] = NoWork
      /\ \A c \in Contents : checksumIndex[c] = 0
      /\ \A id \in BlockIds : cowBlocks[id] = NoBlock /\ \A c \in Contents : held[id][c] = 0
  BY DEF CowInit
<1>2. cpc \in [CowThreads -> CowLabels] /\ cloc \in [CowThreads -> CowTasks]
  BY IdleTask DEF CowInit, CowLabels
<1>3. /\ checksumIndex \in [Contents -> BlockIds \cup {0}]
      /\ held \in [BlockIds -> [Contents -> Nat]]
      /\ pendingDeletes \in Seq(BlockIds)
  BY EmptySeq DEF CowInit
<1>4. cowBlocks \in [BlockIds -> [content : Contents \cup {"none"}, refs : Nat]]
  BY DEF CowInit, NoBlock
<1>5. CInHand
  BY <1>1 DEF CInHand
<1>n. nextInline \in Nat \ {0} /\ nextExternal \in Nat \ {0}
  BY <1>1
<1>r. raced \in BOOLEAN
  BY <1>1
<1>6. CowTypes
  BY <1>2, <1>3, <1>4, <1>5, <1>n, <1>r DEF CowTypes
<1>7. DeadWaits
  BY <1>1 DEF DeadWaits, Present
<1>8. CowIds
  BY <1>1 DEF CowIds, StoresApart, FreshEmpty, IndexTrue, CleaningDead, HeldCounted, NoBlock
<1> QED
  BY <1>6, <1>7, <1>8 DEF CowInv

\* What a step of one thread leaves of the others.
LEMMA CMoved ==
  ASSUME CowTypes, NEW t \in CowThreads, NEW label \in CowLabels, NEW work \in CowTasks, CGoto(t, label, work),
         label \in {"create", "store", "copy"} => work.content \in Contents,
         label = "store" => work.id \in BlockIds,
         label \in {"unindex", "delete"} => work.todo # <<>>
  PROVE  /\ cpc' \in [CowThreads -> CowLabels] /\ cloc' \in [CowThreads -> CowTasks]
         /\ cpc'[t] = label /\ cloc'[t] = work
         /\ \A u \in CowThreads \ {t} : cpc'[u] = cpc[u] /\ cloc'[u] = cloc[u]
         /\ CInHand'
<1>1. /\ cpc' \in [CowThreads -> CowLabels] /\ cloc' \in [CowThreads -> CowTasks]
      /\ cpc'[t] = label /\ cloc'[t] = work
      /\ \A u \in CowThreads \ {t} : cpc'[u] = cpc[u] /\ cloc'[u] = cloc[u]
  BY DEF CGoto, CowTypes
<1>2. CInHand'
  BY <1>1 DEF CInHand, CowTypes
<1> QED
  BY <1>1, <1>2

\* The count of one block changes, and what its users hold.
LEMMA Recounted ==
  ASSUME CowTypes, NEW id \in BlockIds, NEW c \in Contents, NEW r \in Nat, NEW h \in Nat,
         cowBlocks' = [cowBlocks EXCEPT ![id].refs = r], held' = [held EXCEPT ![id][c] = h], Counted(id)
  PROVE  /\ cowBlocks' \in [BlockIds -> [content : Contents \cup {"none"}, refs : Nat]]
         /\ held' \in [BlockIds -> [Contents -> Nat]]
         /\ cowBlocks'[id].refs = r /\ cowBlocks'[id].content = cowBlocks[id].content
         /\ held'[id][c] = h /\ \A d \in Contents \ {c} : held'[id][d] = held[id][d]
         /\ \A k \in BlockIds \ {id} : cowBlocks'[k] = cowBlocks[k] /\ held'[k] = held[k]
         /\ raced' \in BOOLEAN /\ (raced => raced')
         /\ ~raced' => \A t \in CowThreads : cpc[t] \in {"unindex", "delete"} => Head(cloc[t].todo) # id
<1>1. /\ cowBlocks' \in [BlockIds -> [content : Contents \cup {"none"}, refs : Nat]]
      /\ cowBlocks'[id].refs = r /\ cowBlocks'[id].content = cowBlocks[id].content
      /\ \A k \in BlockIds \ {id} : cowBlocks'[k] = cowBlocks[k]
  BY DEF CowTypes
<1>2. /\ held' \in [BlockIds -> [Contents -> Nat]]
      /\ held'[id][c] = h /\ \A d \in Contents \ {c} : held'[id][d] = held[id][d]
      /\ \A k \in BlockIds \ {id} : held'[k] = held[k]
  BY DEF CowTypes
<1>3. raced' \in BOOLEAN /\ (raced => raced')
  BY Zenon DEF Counted, CowTypes
<1>4. ~raced' => \A t \in CowThreads : cpc[t] \in {"unindex", "delete"} => Head(cloc[t].todo) # id
  BY DEF Counted
<1> QED
  BY <1>1, <1>2, <1>3, <1>4

\* One more reference.
LEMMA OneMore ==
  ASSUME CowTypes, NEW id \in BlockIds, NEW c \in Contents,
         cowBlocks' = [cowBlocks EXCEPT ![id].refs = @ + 1], Hold(id, c, 1), Counted(id)
  PROVE  /\ cowBlocks' \in [BlockIds -> [content : Contents \cup {"none"}, refs : Nat]]
         /\ held' \in [BlockIds -> [Contents -> Nat]]
         /\ cowBlocks'[id].refs = cowBlocks[id].refs + 1 /\ cowBlocks'[id].content = cowBlocks[id].content
         /\ held'[id][c] = held[id][c] + 1 /\ \A d \in Contents \ {c} : held'[id][d] = held[id][d]
         /\ \A k \in BlockIds \ {id} : cowBlocks'[k] = cowBlocks[k] /\ held'[k] = held[k]
         /\ raced' \in BOOLEAN /\ (raced => raced')
         /\ ~raced' => \A t \in CowThreads : cpc[t] \in {"unindex", "delete"} => Head(cloc[t].todo) # id
<1>1. PICK r \in Nat, h \in Nat : r = cowBlocks[id].refs + 1 /\ h = held[id][c] + 1
  <2>1. (cowBlocks[id].refs + 1) \in Nat /\ (held[id][c] + 1) \in Nat
    BY DEF CowTypes
  <2> QED
    BY <2>1
<1>2. cowBlocks' = [cowBlocks EXCEPT ![id].refs = r] /\ held' = [held EXCEPT ![id][c] = h]
  BY <1>1 DEF Hold
<1> QED
  BY <1>1, <1>2, Recounted

\* One less, which is listed when it was the last.
LEMMA OneLess ==
  ASSUME CowTypes, NEW id \in BlockIds, NEW c \in Contents, Release(id, c)
  PROVE  /\ cowBlocks' \in [BlockIds -> [content : Contents \cup {"none"}, refs : Nat]]
         /\ held' \in [BlockIds -> [Contents -> Nat]]
         /\ cowBlocks[id].refs > 0 /\ held[id][c] > 0 /\ Present(id)
         /\ cowBlocks'[id].refs = cowBlocks[id].refs - 1 /\ cowBlocks'[id].content = cowBlocks[id].content
         /\ held'[id][c] = held[id][c] - 1 /\ \A d \in Contents \ {c} : held'[id][d] = held[id][d]
         /\ \A k \in BlockIds \ {id} : cowBlocks'[k] = cowBlocks[k] /\ held'[k] = held[k]
         /\ raced' \in BOOLEAN /\ (raced => raced')
         /\ ~raced' => \A t \in CowThreads : cpc[t] \in {"unindex", "delete"} => Head(cloc[t].todo) # id
         /\ pendingDeletes' = (IF cowBlocks[id].refs = 1 THEN Append(pendingDeletes, id) ELSE pendingDeletes)
         /\ pendingDeletes' \in Seq(BlockIds)
<1>0. cowBlocks[id].refs > 0 /\ held[id][c] > 0 /\ Present(id) /\ Counted(id)
  BY DEF Release
<1>1. PICK r \in Nat, h \in Nat : r = cowBlocks[id].refs - 1 /\ h = held[id][c] - 1 /\ h = held[id][c] + (-1)
  <2>1. (cowBlocks[id].refs - 1) \in Nat /\ (held[id][c] - 1) \in Nat /\ held[id][c] - 1 = held[id][c] + (-1)
    BY <1>0 DEF CowTypes
  <2> QED
    BY <2>1
<1>2. cowBlocks' = [cowBlocks EXCEPT ![id].refs = r] /\ held' = [held EXCEPT ![id][c] = h]
  <2>1. held' = [held EXCEPT ![id][c] = held[id][c] + (-1)]
    BY DEF Release, Hold
  <2> QED
    BY <1>1, <2>1 DEF Release
<1>4. pendingDeletes' = (IF cowBlocks[id].refs = 1 THEN Append(pendingDeletes, id) ELSE pendingDeletes)
  BY DEF Release
<1>5. pendingDeletes' \in Seq(BlockIds)
  BY <1>4, AppendProperties DEF CowTypes
<1>6. /\ cowBlocks' \in [BlockIds -> [content : Contents \cup {"none"}, refs : Nat]]
      /\ held' \in [BlockIds -> [Contents -> Nat]]
      /\ cowBlocks'[id].refs = r /\ cowBlocks'[id].content = cowBlocks[id].content
      /\ held'[id][c] = h /\ \A d \in Contents \ {c} : held'[id][d] = held[id][d]
      /\ \A k \in BlockIds \ {id} : cowBlocks'[k] = cowBlocks[k] /\ held'[k] = held[k]
      /\ raced' \in BOOLEAN /\ (raced => raced')
      /\ ~raced' => \A t \in CowThreads : cpc[t] \in {"unindex", "delete"} => Head(cloc[t].todo) # id
  <2>1. Counted(id)
    BY <1>0
  <2> QED
    BY <1>2, <2>1, Recounted
<1> QED
  BY <1>0, <1>1, <1>4, <1>5, <1>6

\* What waits goes on waiting while the cleanups keep their lists.
LEMMA WaitsKept ==
  ASSUME NEW t \in CowThreads, ~CleaningUp(t),
         \A u \in CowThreads \ {t} : cpc'[u] = cpc[u] /\ cloc'[u] = cloc[u],
         \A id \in BlockIds : Listed(id) => Listed(id)', skipped' = skipped
  PROVE  \A id \in BlockIds : Waits(id) => Waits(id)'
<1>1. ASSUME NEW id \in BlockIds, ToClean(id) PROVE ToClean(id)'
  BY <1>1 DEF ToClean, CleaningUp
<1> QED
  BY <1>1 DEF Waits

\* A thread is not about to store before or after the step.
LEMMA FreshSame ==
  ASSUME UNCHANGED <<nextInline, nextExternal>>,
         \A u \in CowThreads : \/ cpc'[u] = cpc[u] /\ cloc'[u] = cloc[u]
                               \/ cpc[u] # "store" /\ cpc'[u] # "store"
  PROVE  NextId' = NextId /\ \A id : Fresh(id)' <=> Fresh(id)
<1>1. NextId' = NextId
  BY DEF NextId
<1> QED
  BY <1>1 DEF Fresh

\* The count of a block changes; its content, the ids and the index do not.
LEMMA RecountIds ==
  ASSUME CowTypes, CowIds, UNCHANGED <<nextInline, nextExternal, checksumIndex>>,
         \A u \in CowThreads : \/ cpc'[u] = cpc[u] /\ cloc'[u] = cloc[u]
                               \/ cpc[u] # "store" /\ cpc'[u] \notin {"store", "unindex", "delete"},
         NEW id \in BlockIds, NEW c \in Contents, NEW n \in Int, Present(id), ~raced => cowBlocks[id].content = c,
         cowBlocks'[id].refs = cowBlocks[id].refs + n, cowBlocks'[id].content = cowBlocks[id].content,
         held'[id][c] = held[id][c] + n, \A d \in Contents \ {c} : held'[id][d] = held[id][d],
         \A k \in BlockIds \ {id} : cowBlocks'[k] = cowBlocks[k] /\ held'[k] = held[k],
         raced => raced',
         ~raced' => \A t \in CowThreads : cpc[t] \in {"unindex", "delete"} => Head(cloc[t].todo) # id
  PROVE  CowIds'
<1>0. StoresApart /\ FreshEmpty /\ IndexTrue /\ CleaningDead /\ HeldCounted
  BY DEF CowIds
<1>1. NextId' = NextId /\ \A k : Fresh(k)' <=> Fresh(k)
  BY FreshSame
<1>2. StoresApart'
  BY <1>0, <1>1 DEF StoresApart
<1>3. FreshEmpty'
  BY <1>0, <1>1 DEF FreshEmpty, Present
<1>4. \A k \in BlockIds : cowBlocks'[k].content = cowBlocks[k].content /\ (Present(k)' => Present(k))
  BY DEF Present
<1>5. IndexTrue'
  <2> SUFFICES ASSUME NEW d \in Contents, NEW k, k = checksumIndex[d], k # 0
               PROVE  /\ k < NextId
                      /\ \A t \in CowThreads : (cpc'[t] = "store" /\ cloc'[t].id = k) => cloc'[t].content = d
                      /\ Present(k)' => cowBlocks'[k].content = d
    BY <1>1 DEF IndexTrue
  <2>1. k \in BlockIds
    BY DEF CowTypes
  <2> QED
    BY <1>0, <1>4, <2>1 DEF IndexTrue
<1>6. CleaningDead'
  <2> SUFFICES ASSUME NEW t \in CowThreads, cpc'[t] \in {"unindex", "delete"}, NEW h, h = Head(cloc'[t].todo)
               PROVE  ~Fresh(h)' /\ (~raced' => cowBlocks'[h].refs = 0)
    BY DEF CleaningDead
  <2>1. cpc[t] = cpc'[t] /\ cloc'[t] = cloc[t]
    OBVIOUS
  <2>2. cloc[t].todo \in Seq(BlockIds) /\ cloc[t].todo # <<>>
    BY <2>1 DEF CowTypes, CInHand, CowTasks
  <2>3. h \in BlockIds /\ h = Head(cloc[t].todo)
    BY <2>1, <2>2, HeadTailProperties
  <2> QED
    BY <1>0, <1>1, <2>1, <2>3 DEF CleaningDead
<1>7. HeldCounted'
  <2> SUFFICES ASSUME ~raced', NEW k \in BlockIds, NEW d \in Contents
               PROVE  held'[k][d] = IF cowBlocks'[k].content = d THEN cowBlocks'[k].refs ELSE 0
    BY DEF HeldCounted
  <2>1. held[k][d] = IF cowBlocks[k].content = d THEN cowBlocks[k].refs ELSE 0
    BY <1>0 DEF HeldCounted
  <2>2. cowBlocks[id].content = c
    OBVIOUS
  <2> QED
    BY <2>1, <2>2
<1> QED
  BY <1>2, <1>3, <1>5, <1>6, <1>7 DEF CowIds

\* allocate_block with a content that the checksum index knows: it takes a
\* reference to its block.
LEMMA HitKeeps ==
  ASSUME CowInv, NEW t \in CowThreads, NEW c \in Contents, cpc[t] \in {"idle", "copy"}, DedupHit(t, c)
  PROVE  CowInv'
<1>0. CowTypes /\ DeadWaits /\ (Uniform => CowIds)
  BY DEF CowInv
<1>1. PICK id : id = checksumIndex[c]
  OBVIOUS
<1>2. /\ Present(id) /\ id \in BlockIds /\ cowBlocks' = [cowBlocks EXCEPT ![id].refs = @ + 1] /\ Hold(id, c, 1) /\ Counted(id)
      /\ CGoto(t, "idle", NoWork)
      /\ UNCHANGED <<checksumIndex, pendingDeletes, nextInline, nextExternal, skipped>>
  BY <1>1 DEF DedupHit, Present
<1>3. /\ cpc' \in [CowThreads -> CowLabels] /\ cloc' \in [CowThreads -> CowTasks]
      /\ cpc'[t] = "idle" /\ (\A u \in CowThreads \ {t} : cpc'[u] = cpc[u] /\ cloc'[u] = cloc[u]) /\ CInHand'
  BY <1>0, <1>2, IdleTask, CMoved DEF CowLabels
<1>4. /\ cowBlocks' \in [BlockIds -> [content : Contents \cup {"none"}, refs : Nat]]
      /\ held' \in [BlockIds -> [Contents -> Nat]]
      /\ cowBlocks'[id].refs = cowBlocks[id].refs + 1 /\ cowBlocks'[id].content = cowBlocks[id].content
      /\ held'[id][c] = held[id][c] + 1 /\ (\A d \in Contents \ {c} : held'[id][d] = held[id][d])
      /\ (\A k \in BlockIds \ {id} : cowBlocks'[k] = cowBlocks[k] /\ held'[k] = held[k])
      /\ raced' \in BOOLEAN /\ (raced => raced')
      /\ (~raced' => \A u \in CowThreads : cpc[u] \in {"unindex", "delete"} => Head(cloc[u].todo) # id)
  BY <1>0, <1>2, OneMore
<1>5. CowTypes'
  BY <1>0, <1>2, <1>3, <1>4 DEF CowTypes
<1>6. DeadWaits'
  <2>1. \A k \in BlockIds : Waits(k) => Waits(k)'
    BY <1>2, <1>3, WaitsKept DEF Listed, CleaningUp
  <2>2. cowBlocks'[id].refs # 0
    BY <1>0, <1>2, <1>4 DEF CowTypes
  <2> QED
    BY <1>0, <1>4, <2>1, <2>2 DEF DeadWaits, Present
<1>7. ASSUME Uniform PROVE CowIds'
  <2>1. cowBlocks[id].content = c
    BY <1>0, <1>1, <1>2, <1>7 DEF CowIds, IndexTrue, Present, BlockIds
  <2>2. \A u \in CowThreads : \/ cpc'[u] = cpc[u] /\ cloc'[u] = cloc[u]
                              \/ cpc[u] # "store" /\ cpc'[u] \notin {"store", "unindex", "delete"}
    <3>1. cpc[t] # "store" /\ cpc'[t] \notin {"store", "unindex", "delete"}
      BY <1>3
    <3> QED
      BY <1>3, <3>1
  <2>3. CowIds /\ 1 \in Int
    BY <1>0, <1>7
  <2> QED
    BY <1>0, <1>2, <1>4, <2>1, <2>2, <2>3, RecountIds
<1> QED
  BY <1>5, <1>6, <1>7 DEF CowInv, Uniform

\* add_ref takes a reference to a block that is there.
LEMMA AddKeeps ==
  ASSUME CowInv, NEW t \in CowThreads, NEW id \in BlockIds, NEW c \in Contents, AddRef(t, id, c)
  PROVE  CowInv'
<1>0. CowTypes /\ DeadWaits /\ (Uniform => CowIds)
  BY DEF CowInv
<1>2. /\ Present(id) /\ cowBlocks' = [cowBlocks EXCEPT ![id].refs = @ + 1] /\ Hold(id, c, 1) /\ Counted(id)
      /\ held[id][c] # 0
      /\ UNCHANGED <<checksumIndex, pendingDeletes, nextInline, nextExternal, skipped, cpc, cloc>>
  BY DEF AddRef
<1>4. /\ cowBlocks' \in [BlockIds -> [content : Contents \cup {"none"}, refs : Nat]]
      /\ held' \in [BlockIds -> [Contents -> Nat]]
      /\ cowBlocks'[id].refs = cowBlocks[id].refs + 1 /\ cowBlocks'[id].content = cowBlocks[id].content
      /\ held'[id][c] = held[id][c] + 1 /\ (\A d \in Contents \ {c} : held'[id][d] = held[id][d])
      /\ (\A k \in BlockIds \ {id} : cowBlocks'[k] = cowBlocks[k] /\ held'[k] = held[k])
      /\ raced' \in BOOLEAN /\ (raced => raced')
      /\ (~raced' => \A u \in CowThreads : cpc[u] \in {"unindex", "delete"} => Head(cloc[u].todo) # id)
  BY <1>0, <1>2, OneMore
<1>5. CowTypes'
  BY <1>0, <1>2, <1>4 DEF CowTypes, CInHand
<1>6. DeadWaits'
  <2>1. \A k \in BlockIds : Waits(k)' <=> Waits(k)
    BY <1>2 DEF Waits, Listed, ToClean, CleaningUp
  <2>2. cowBlocks'[id].refs # 0
    BY <1>0, <1>2, <1>4 DEF CowTypes
  <2> QED
    BY <1>0, <1>4, <2>1, <2>2 DEF DeadWaits, Present
<1>7. ASSUME Uniform PROVE CowIds'
  <2>1. ~raced => cowBlocks[id].content = c
    BY <1>0, <1>2, <1>7 DEF CowIds, HeldCounted
  <2> QED
    BY <1>0, <1>2, <1>4, <1>7, <2>1, RecountIds
<1> QED
  BY <1>5, <1>6, <1>7 DEF CowInv, Uniform

\* release_ref, alone or as the first half of copy_on_write.
LEMMA ReleaseKeeps ==
  ASSUME CowInv, NEW t \in CowThreads, NEW id \in BlockIds, NEW c \in Contents,
         ReleaseRef(t, id, c) \/ \E new \in Contents : CopyOnWrite(t, id, c, new)
  PROVE  CowInv'
<1>0. CowTypes /\ DeadWaits /\ (Uniform => CowIds)
  BY DEF CowInv
<1>1. cpc[t] = "idle" /\ Release(id, c) /\ UNCHANGED <<checksumIndex, nextInline, nextExternal, skipped>>
  BY DEF ReleaseRef, CopyOnWrite
<1>3. /\ cpc' \in [CowThreads -> CowLabels] /\ cloc' \in [CowThreads -> CowTasks]
      /\ cpc'[t] \in {"idle", "copy"} /\ (\A u \in CowThreads \ {t} : cpc'[u] = cpc[u] /\ cloc'[u] = cloc[u]) /\ CInHand'
  <2>1. CASE ReleaseRef(t, id, c)
    BY <1>0, <1>1, <2>1 DEF ReleaseRef, CowTypes, CInHand
  <2>2. ASSUME NEW new \in Contents, CopyOnWrite(t, id, c, new) PROVE <1>3
    <3>1. CGoto(t, "copy", [NoWork EXCEPT !.content = new])
      BY <2>2 DEF CopyOnWrite
    <3>2. [NoWork EXCEPT !.content = new] \in CowTasks /\ [NoWork EXCEPT !.content = new].content \in Contents
      BY IdleTask
    <3> QED
      BY <1>0, <3>1, <3>2, CMoved DEF CowLabels
  <2> QED
    BY <2>1, <2>2
<1>4. /\ cowBlocks' \in [BlockIds -> [content : Contents \cup {"none"}, refs : Nat]]
      /\ held' \in [BlockIds -> [Contents -> Nat]]
      /\ cowBlocks[id].refs > 0 /\ held[id][c] > 0 /\ Present(id)
      /\ cowBlocks'[id].refs = cowBlocks[id].refs - 1 /\ cowBlocks'[id].content = cowBlocks[id].content
      /\ held'[id][c] = held[id][c] - 1 /\ (\A d \in Contents \ {c} : held'[id][d] = held[id][d])
      /\ (\A k \in BlockIds \ {id} : cowBlocks'[k] = cowBlocks[k] /\ held'[k] = held[k])
      /\ raced' \in BOOLEAN /\ (raced => raced')
      /\ (~raced' => \A u \in CowThreads : cpc[u] \in {"unindex", "delete"} => Head(cloc[u].todo) # id)
      /\ pendingDeletes' = (IF cowBlocks[id].refs = 1 THEN Append(pendingDeletes, id) ELSE pendingDeletes)
      /\ pendingDeletes' \in Seq(BlockIds)
  BY <1>0, <1>1, OneLess
<1>5. CowTypes'
  BY <1>0, <1>1, <1>3, <1>4 DEF CowTypes
<1>6. DeadWaits'
  <2>0. pendingDeletes \in Seq(BlockIds) /\ cowBlocks[id].refs \in Nat
    BY <1>0 DEF CowTypes
  <2>1. \A k \in BlockIds : Listed(k) => Listed(k)'
    BY <1>4, <2>0, AppendProperties DEF Listed
  <2>2. \A k \in BlockIds : Waits(k) => Waits(k)'
    BY <1>1, <1>3, <2>1, WaitsKept DEF CleaningUp
  <2>3. cowBlocks'[id].refs = 0 => Listed(id)'
    <3> SUFFICES ASSUME cowBlocks'[id].refs = 0 PROVE Listed(id)'
      OBVIOUS
    <3>1. pendingDeletes' = Append(pendingDeletes, id)
      BY <1>4, <2>0
    <3>2. pendingDeletes'[Len(pendingDeletes')] = id /\ Len(pendingDeletes') \in 1 .. Len(pendingDeletes')
      BY <2>0, <3>1, AppendProperties, LenProperties
    <3> QED
      BY <3>2 DEF Listed
  <2> QED
    BY <1>0, <1>4, <2>2, <2>3 DEF DeadWaits, Present, Waits
<1>7. ASSUME Uniform PROVE CowIds'
  <2>1. ~raced => cowBlocks[id].content = c
    BY <1>0, <1>4, <1>7 DEF CowIds, HeldCounted
  <2>2. \A u \in CowThreads : \/ cpc'[u] = cpc[u] /\ cloc'[u] = cloc[u]
                              \/ cpc[u] # "store" /\ cpc'[u] \notin {"store", "unindex", "delete"}
    <3>1. cpc[t] # "store" /\ cpc'[t] \notin {"store", "unindex", "delete"}
      BY <1>1, <1>3
    <3> QED
      BY <1>3, <3>1
  <2>3. cowBlocks[id].refs \in Nat /\ held[id][c] \in Nat
    BY <1>0 DEF CowTypes
  <2>4. cowBlocks'[id].refs = cowBlocks[id].refs + (-1) /\ held'[id][c] = held[id][c] + (-1) /\ -1 \in Int
    BY <1>4, <2>3
  <2> QED
    BY <1>0, <1>1, <1>4, <1>7, <2>1, <2>2, <2>4, RecountIds
<1> QED
  BY <1>5, <1>6, <1>7 DEF CowInv, Uniform

\* Blocks and counts stay; the index may lose entries.
LEMMA QuietIds ==
  ASSUME CowTypes, CowIds, UNCHANGED <<nextInline, nextExternal, cowBlocks, held, raced>>,
         \A c \in Contents : checksumIndex'[c] \in {checksumIndex[c], 0},
         \A u \in CowThreads : \/ cpc'[u] = cpc[u] /\ cloc'[u] = cloc[u]
                               \/ cpc[u] # "store" /\ cpc'[u] # "store",
         \A u \in CowThreads, h \in BlockIds :
           (cpc'[u] \in {"unindex", "delete"} /\ h = Head(cloc'[u].todo)) => (~Fresh(h) /\ (~raced => cowBlocks[h].refs = 0)),
         \A u \in CowThreads : cpc'[u] \in {"unindex", "delete"} => Head(cloc'[u].todo) \in BlockIds
  PROVE  CowIds'
<1>0. StoresApart /\ FreshEmpty /\ IndexTrue /\ CleaningDead /\ HeldCounted
  BY DEF CowIds
<1>1. NextId' = NextId /\ \A k : (Fresh(k)' <=> Fresh(k)) /\ (Present(k)' <=> Present(k))
  BY FreshSame DEF Present
<1>2. StoresApart'
  BY <1>0, <1>1 DEF StoresApart
<1>3. FreshEmpty'
  BY <1>0, <1>1 DEF FreshEmpty
<1>4. IndexTrue'
  <2> SUFFICES ASSUME NEW d \in Contents, NEW k, k = checksumIndex'[d], k # 0
               PROVE  /\ k < NextId
                      /\ \A t \in CowThreads : (cpc'[t] = "store" /\ cloc'[t].id = k) => cloc'[t].content = d
                      /\ Present(k)' => cowBlocks'[k].content = d
    BY <1>1 DEF IndexTrue
  <2>1. k = checksumIndex[d]
    OBVIOUS
  <2> QED
    BY <1>0, <1>1, <2>1 DEF IndexTrue
<1>5. CleaningDead'
  <2> SUFFICES ASSUME NEW t \in CowThreads, cpc'[t] \in {"unindex", "delete"}, NEW h, h = Head(cloc'[t].todo)
               PROVE  ~Fresh(h)' /\ (~raced' => cowBlocks'[h].refs = 0)
    BY DEF CleaningDead
  <2>1. h \in BlockIds
    OBVIOUS
  <2> QED
    BY <1>1, <2>1
<1>6. HeldCounted'
  BY <1>0 DEF HeldCounted
<1> QED
  BY <1>2, <1>3, <1>4, <1>5, <1>6 DEF CowIds

\* cleanup always has a block in its hands.
LEMMA CleaningHead ==
  ASSUME CowTypes, NEW t \in CowThreads, cpc[t] \in {"unindex", "delete"}
  PROVE  Head(cloc[t].todo) \in BlockIds /\ cloc[t].todo \in Seq(BlockIds) /\ cloc[t].todo # <<>>
<1>1. cloc[t].todo \in Seq(BlockIds) /\ cloc[t].todo # <<>>
  BY DEF CowTypes, CInHand, CowTasks
<1> QED
  BY <1>1, HeadTailProperties

\* One thread moves, neither to nor from a removal or a store.
LEMMA QuietMove ==
  ASSUME CowTypes, Uniform => CowIds, UNCHANGED <<nextInline, nextExternal, cowBlocks, held, raced, checksumIndex>>,
         NEW t \in CowThreads, cpc[t] # "store", cpc'[t] \notin {"store", "unindex", "delete"},
         \A u \in CowThreads \ {t} : cpc'[u] = cpc[u] /\ cloc'[u] = cloc[u]
  PROVE  Uniform => CowIds'
<1> SUFFICES ASSUME Uniform PROVE CowIds'
  OBVIOUS
<1>1. \A u \in CowThreads : \/ cpc'[u] = cpc[u] /\ cloc'[u] = cloc[u]
                            \/ cpc[u] # "store" /\ cpc'[u] # "store"
  OBVIOUS
<1>2. ASSUME NEW u \in CowThreads, cpc'[u] \in {"unindex", "delete"}
      PROVE  /\ Head(cloc'[u].todo) \in BlockIds
             /\ \A h \in BlockIds : h = Head(cloc'[u].todo) => (~Fresh(h) /\ (~raced => cowBlocks[h].refs = 0))
  <2>1. cpc'[u] = cpc[u] /\ cloc'[u] = cloc[u]
    BY <1>2
  <2> QED
    BY <1>2, <2>1, CleaningHead DEF CowIds, CleaningDead
<1>3. \A c \in Contents : checksumIndex'[c] \in {checksumIndex[c], 0}
  OBVIOUS
<1>4. CowIds
  OBVIOUS
<1>5. /\ \A u \in CowThreads, h \in BlockIds :
           (cpc'[u] \in {"unindex", "delete"} /\ h = Head(cloc'[u].todo)) => (~Fresh(h) /\ (~raced => cowBlocks[h].refs = 0))
      /\ \A u \in CowThreads : cpc'[u] \in {"unindex", "delete"} => Head(cloc'[u].todo) \in BlockIds
  BY <1>2
<1> QED
  BY <1>1, <1>3, <1>4, <1>5, QuietIds

\* allocate_block with a content that the index does not know: it goes on to
\* create a block.
LEMMA MissKeeps ==
  ASSUME CowInv, NEW t \in CowThreads, NEW c \in Contents, cpc[t] \in {"idle", "copy"}, DedupMiss(t, c)
  PROVE  CowInv'
<1>0. CowTypes /\ DeadWaits /\ (Uniform => CowIds)
  BY DEF CowInv
<1>1. /\ CGoto(t, "create", [NoWork EXCEPT !.content = c])
      /\ UNCHANGED <<cowBlocks, checksumIndex, pendingDeletes, nextInline, nextExternal, held, raced, skipped>>
  BY DEF DedupMiss
<1>2. [NoWork EXCEPT !.content = c] \in CowTasks /\ [NoWork EXCEPT !.content = c].content \in Contents
  BY IdleTask
<1>3. /\ cpc' \in [CowThreads -> CowLabels] /\ cloc' \in [CowThreads -> CowTasks]
      /\ cpc'[t] = "create" /\ (\A u \in CowThreads \ {t} : cpc'[u] = cpc[u] /\ cloc'[u] = cloc[u]) /\ CInHand'
  BY <1>0, <1>1, <1>2, CMoved DEF CowLabels
<1>4. CowTypes'
  BY <1>0, <1>1, <1>3 DEF CowTypes
<1>5. DeadWaits'
  <2>1. \A k \in BlockIds : Waits(k) => Waits(k)'
    BY <1>1, <1>3, WaitsKept DEF Listed, CleaningUp
  <2> QED
    BY <1>0, <1>1, <2>1 DEF DeadWaits, Present
<1>6. Uniform => CowIds'
  BY <1>0, <1>1, <1>3, QuietMove
<1> QED
  BY <1>4, <1>5, <1>6 DEF CowInv, Uniform

\* cleanup takes the whole pending list; what is beyond its batch is skipped.
LEMMA CleanupKeeps ==
  ASSUME CowInv, NEW t \in CowThreads, Cleanup(t)
  PROVE  CowInv'
<1>0. CowTypes /\ DeadWaits /\ (Uniform => CowIds)
  BY DEF CowInv
<1> DEFINE n == IF Len(pendingDeletes) < CleanupBatch THEN Len(pendingDeletes) ELSE CleanupBatch
           batch == SubSeq(pendingDeletes, 1, n)
<1>1. /\ cpc[t] = "idle" /\ CGoto(t, "check", [NoWork EXCEPT !.todo = batch])
      /\ skipped' = skipped \cup {pendingDeletes[i] : i \in n + 1 .. Len(pendingDeletes)}
      /\ pendingDeletes' = <<>>
      /\ UNCHANGED <<cowBlocks, checksumIndex, nextInline, nextExternal, held, raced>>
  BY DEF Cleanup
<1>2. pendingDeletes \in Seq(BlockIds) /\ Len(pendingDeletes) \in Nat /\ CleanupBatch \in Nat
  BY <1>0, CowAssumption DEF CowTypes
<1>3. n \in 0 .. Len(pendingDeletes)
  BY <1>2
<1> HIDE DEF n
<1>4. batch \in Seq(BlockIds) /\ Len(batch) = n /\ \A i \in 1 .. n : batch[i] = pendingDeletes[i]
  BY <1>2, <1>3, SubSeqProperties
<1> HIDE DEF batch
<1>5. [NoWork EXCEPT !.todo = batch] \in CowTasks /\ [NoWork EXCEPT !.todo = batch].todo = batch
  BY <1>4, IdleTask
<1>6. /\ cpc' \in [CowThreads -> CowLabels] /\ cloc' \in [CowThreads -> CowTasks] /\ cloc'[t].todo = batch
      /\ cpc'[t] = "check" /\ (\A u \in CowThreads \ {t} : cpc'[u] = cpc[u] /\ cloc'[u] = cloc[u]) /\ CInHand'
  BY <1>0, <1>1, <1>5, CMoved DEF CowLabels
<1>7. CowTypes'
  BY <1>0, <1>1, <1>6, EmptySeq DEF CowTypes
<1>8. DeadWaits'
  <2>1. ASSUME NEW k \in BlockIds, Listed(k) PROVE Waits(k)'
    <3>1. PICK i \in 1 .. Len(pendingDeletes) : pendingDeletes[i] = k
      BY <2>1 DEF Listed
    <3>2. CASE i \in 1 .. n
      <4>1. i \in 1 .. Len(batch) /\ batch[i] = k
        BY <1>4, <3>1, <3>2
      <4>2. ToClean(k)'
        BY <1>6, <4>1 DEF ToClean, CleaningUp
      <4> QED
        BY <4>2 DEF Waits
    <3>3. CASE i \in n + 1 .. Len(pendingDeletes)
      BY <1>1, <3>1, <3>3 DEF Waits
    <3> QED
      BY <1>2, <1>3, <3>2, <3>3
  <2>2. ASSUME NEW k \in BlockIds, ToClean(k) PROVE ToClean(k)'
    BY <1>1, <1>6, <2>2 DEF ToClean, CleaningUp
  <2> QED
    BY <1>0, <1>1, <2>1, <2>2 DEF DeadWaits, Present, Waits
<1>9. Uniform => CowIds'
  BY <1>0, <1>1, <1>6, QuietMove
<1> QED
  BY <1>7, <1>8, <1>9 DEF CowInv, Uniform

\* A member of a list is its head or a member of its tail.
LEMMA HeadOrTail ==
  ASSUME NEW s \in Seq(BlockIds), s # <<>>, NEW i \in 1 .. Len(s)
  PROVE  s[i] = Head(s) \/ \E j \in 1 .. Len(Tail(s)) : Tail(s)[j] = s[i]
<1>1. Len(s) \in Nat /\ Len(Tail(s)) = Len(s) - 1 /\ Head(s) = s[1] /\ \A j \in 1 .. Len(Tail(s)) : Tail(s)[j] = s[j + 1]
  BY HeadTailProperties, LenProperties
<1>2. CASE i # 1
  <2>1. i - 1 \in 1 .. Len(Tail(s)) /\ (i - 1) + 1 = i
    BY <1>1, <1>2
  <2> QED
    BY <1>1, <2>1
<1> QED
  BY <1>1, <1>2

\* cleanup goes on to the rest of its list.
LEMMA NextTask ==
  ASSUME CowTypes, NEW t \in CowThreads, cloc[t].todo # <<>>
  PROVE  NextToClean(t) \in CowTasks /\ NextToClean(t).todo = Tail(cloc[t].todo)
<1>1. cloc[t] \in CowTasks /\ cloc[t].todo \in Seq(BlockIds)
  BY DEF CowTypes, CowTasks
<1>2. Tail(cloc[t].todo) \in Seq(BlockIds)
  BY <1>1, HeadTailProperties
<1> QED
  BY <1>1, <1>2 DEF NextToClean, CowTasks

\* A cleanup goes on to its next block.
LEMMA CleanOn ==
  ASSUME CowTypes, NEW t \in CowThreads, cloc[t].todo # <<>>, CleaningUp(t), cpc'[t] = "check",
         cloc'[t].todo = Tail(cloc[t].todo), UNCHANGED <<pendingDeletes, skipped>>,
         \A u \in CowThreads \ {t} : cpc'[u] = cpc[u] /\ cloc'[u] = cloc[u]
  PROVE  \A k \in BlockIds : Waits(k) => (Waits(k)' \/ k = Head(cloc[t].todo))
<1>1. cloc[t].todo \in Seq(BlockIds)
  BY DEF CowTypes, CowTasks
<1>2. ASSUME NEW k \in BlockIds, ToClean(k), k # Head(cloc[t].todo) PROVE ToClean(k)'
  <2>1. PICK u \in CowThreads : CleaningUp(u) /\ \E i \in 1 .. Len(cloc[u].todo) : cloc[u].todo[i] = k
    BY <1>2 DEF ToClean
  <2>2. CASE u = t
    <3>1. \E j \in 1 .. Len(Tail(cloc[t].todo)) : Tail(cloc[t].todo)[j] = k
      BY <1>1, <1>2, <2>1, <2>2, HeadOrTail
    <3> QED
      BY <3>1 DEF ToClean, CleaningUp
  <2>3. CASE u # t
    BY <2>1, <2>3 DEF ToClean, CleaningUp
  <2> QED
    BY <2>2, <2>3
<1> QED
  BY <1>2 DEF Waits, Listed

\* The same list, at another point of the removal.
LEMMA CleanSame ==
  ASSUME NEW t \in CowThreads, CleaningUp(t), cpc'[t] \in {"check", "unindex", "delete"},
         cloc'[t].todo = cloc[t].todo, UNCHANGED <<pendingDeletes, skipped>>,
         \A u \in CowThreads \ {t} : cpc'[u] = cpc[u] /\ cloc'[u] = cloc[u]
  PROVE  \A k \in BlockIds : Waits(k) => Waits(k)'
<1>1. ASSUME NEW k \in BlockIds, ToClean(k) PROVE ToClean(k)'
  BY <1>1 DEF ToClean, CleaningUp
<1> QED
  BY <1>1 DEF Waits, Listed

\* cleanup looks at the count of the next block.
LEMMA CheckKeeps ==
  ASSUME CowInv, NEW t \in CowThreads, CheckBlock(t)
  PROVE  CowInv'
<1>0. CowTypes /\ DeadWaits /\ (Uniform => CowIds)
  BY DEF CowInv
<1>1. cpc[t] = "check" /\ UNCHANGED <<cowBlocks, checksumIndex, pendingDeletes, nextInline, nextExternal, held, raced, skipped>>
  BY DEF CheckBlock
<1>t. cloc[t] \in CowTasks /\ cloc[t].todo \in Seq(BlockIds)
  BY <1>0 DEF CowTypes, CowTasks
<1>2. CASE cloc[t].todo = <<>> /\ CGoto(t, "idle", NoWork)
  <2>1. /\ cpc' \in [CowThreads -> CowLabels] /\ cloc' \in [CowThreads -> CowTasks]
        /\ cpc'[t] = "idle" /\ (\A u \in CowThreads \ {t} : cpc'[u] = cpc[u] /\ cloc'[u] = cloc[u]) /\ CInHand'
    BY <1>0, <1>2, IdleTask, CMoved DEF CowLabels
  <2>2. CowTypes'
    BY <1>0, <1>1, <2>1 DEF CowTypes
  <2>3. ASSUME NEW k \in BlockIds, ToClean(k) PROVE ToClean(k)'
    BY <1>2, <2>1, <2>3, EmptySeq DEF ToClean, CleaningUp
  <2>4. DeadWaits'
    BY <1>0, <1>1, <2>3 DEF DeadWaits, Present, Waits, Listed
  <2>5. Uniform => CowIds'
    BY <1>0, <1>1, <2>1, QuietMove
  <2> QED
    BY <2>2, <2>4, <2>5 DEF CowInv, Uniform
<1>3. CASE cloc[t].todo # <<>> /\ ~Dead(t) /\ CGoto(t, "check", NextToClean(t))
  <2>1. /\ cpc' \in [CowThreads -> CowLabels] /\ cloc' \in [CowThreads -> CowTasks] /\ cloc'[t].todo = Tail(cloc[t].todo)
        /\ cpc'[t] = "check" /\ (\A u \in CowThreads \ {t} : cpc'[u] = cpc[u] /\ cloc'[u] = cloc[u]) /\ CInHand'
    BY <1>0, <1>3, NextTask, CMoved DEF CowLabels
  <2>2. CowTypes'
    BY <1>0, <1>1, <2>1 DEF CowTypes
  <2>3. \A k \in BlockIds : Waits(k) => (Waits(k)' \/ k = Head(cloc[t].todo))
    BY <1>0, <1>1, <1>3, <2>1, CleanOn DEF CleaningUp
  <2>4. DeadWaits'
    BY <1>0, <1>1, <1>3, <2>3 DEF DeadWaits, Present, Dead
  <2>5. Uniform => CowIds'
    BY <1>0, <1>1, <2>1, QuietMove
  <2> QED
    BY <2>2, <2>4, <2>5 DEF CowInv, Uniform
<1>4. CASE /\ cloc[t].todo # <<>> /\ Dead(t)
           /\ CGoto(t, "unindex", [cloc[t] EXCEPT !.content = cowBlocks[Head(cloc[t].todo)].content])
  <2> DEFINE work == [cloc[t] EXCEPT !.content = cowBlocks[Head(cloc[t].todo)].content]
  <2>1. Head(cloc[t].todo) \in BlockIds
    BY <1>4, <1>t, HeadTailProperties
  <2>2. cowBlocks[Head(cloc[t].todo)].content \in Contents \cup {"none"}
    BY <1>0, <2>1 DEF CowTypes
  <2>3. work \in CowTasks /\ work.todo = cloc[t].todo
    BY <1>t, <2>2 DEF CowTasks
  <2>4. CGoto(t, "unindex", work)
    BY <1>4
  <2> HIDE DEF work
  <2>5. /\ cpc' \in [CowThreads -> CowLabels] /\ cloc' \in [CowThreads -> CowTasks] /\ cloc'[t].todo = cloc[t].todo
        /\ cpc'[t] = "unindex" /\ (\A u \in CowThreads \ {t} : cpc'[u] = cpc[u] /\ cloc'[u] = cloc[u]) /\ CInHand'
    BY <1>0, <1>4, <2>3, <2>4, CMoved DEF CowLabels
  <2>6. CowTypes'
    BY <1>0, <1>1, <2>5 DEF CowTypes
  <2>7. \A k \in BlockIds : Waits(k) => Waits(k)'
    BY <1>1, <2>5, CleanSame DEF CleaningUp
  <2>8. DeadWaits'
    BY <1>0, <1>1, <2>7 DEF DeadWaits, Present
  <2>9. ASSUME Uniform PROVE CowIds'
    <3>0. CowIds
      BY <1>0, <2>9
    <3>1. ASSUME NEW u \in CowThreads, cpc'[u] \in {"unindex", "delete"}
          PROVE  /\ Head(cloc'[u].todo) \in BlockIds
                 /\ \A h \in BlockIds : h = Head(cloc'[u].todo) => (~Fresh(h) /\ (~raced => cowBlocks[h].refs = 0))
      <4>1. CASE u = t
        BY <1>4, <2>1, <2>5, <3>0, <4>1 DEF Dead, Present, CowIds, FreshEmpty
      <4>2. CASE u # t
        <5>1. cpc'[u] = cpc[u] /\ cloc'[u] = cloc[u]
          BY <2>5, <4>2
        <5> QED
          BY <1>0, <3>0, <3>1, <5>1, CleaningHead DEF CowIds, CleaningDead
      <4> QED
        BY <4>1, <4>2
    <3>2. /\ \A u \in CowThreads, h \in BlockIds :
               (cpc'[u] \in {"unindex", "delete"} /\ h = Head(cloc'[u].todo)) => (~Fresh(h) /\ (~raced => cowBlocks[h].refs = 0))
          /\ \A u \in CowThreads : cpc'[u] \in {"unindex", "delete"} => Head(cloc'[u].todo) \in BlockIds
      BY <3>1
    <3>3. /\ \A u \in CowThreads : (cpc'[u] = cpc[u] /\ cloc'[u] = cloc[u]) \/ (cpc[u] # "store" /\ cpc'[u] # "store")
          /\ \A c \in Contents : checksumIndex'[c] \in {checksumIndex[c], 0}
      BY <1>1, <2>5
    <3> QED
      BY <1>0, <1>1, <3>0, <3>2, <3>3, QuietIds
  <2> QED
    BY <2>6, <2>8, <2>9 DEF CowInv, Uniform
<1> QED
  BY <1>2, <1>3, <1>4 DEF CheckBlock

\* cleanup drops the block from the checksum index.
LEMMA UnindexKeeps ==
  ASSUME CowInv, NEW t \in CowThreads, Unindex(t)
  PROVE  CowInv'
<1>0. CowTypes /\ DeadWaits /\ (Uniform => CowIds)
  BY DEF CowInv
<1>1. /\ cpc[t] = "unindex" /\ CGoto(t, "delete", cloc[t]) /\ checksumIndex' = [checksumIndex EXCEPT ![cloc[t].content] = 0]
      /\ UNCHANGED <<cowBlocks, pendingDeletes, nextInline, nextExternal, held, raced, skipped>>
  BY DEF Unindex
<1>2. cloc[t] \in CowTasks /\ cloc[t].todo # <<>>
  BY <1>0, <1>1 DEF CowTypes, CInHand
<1>3. /\ cpc' \in [CowThreads -> CowLabels] /\ cloc' \in [CowThreads -> CowTasks] /\ cloc'[t] = cloc[t]
      /\ cpc'[t] = "delete" /\ (\A u \in CowThreads \ {t} : cpc'[u] = cpc[u] /\ cloc'[u] = cloc[u]) /\ CInHand'
  BY <1>0, <1>1, <1>2, CMoved DEF CowLabels
<1>4. checksumIndex' \in [Contents -> BlockIds \cup {0}] /\ \A c \in Contents : checksumIndex'[c] \in {checksumIndex[c], 0}
  BY <1>0, <1>1 DEF CowTypes
<1>5. CowTypes'
  BY <1>0, <1>1, <1>3, <1>4 DEF CowTypes
<1>6. \A k \in BlockIds : Waits(k) => Waits(k)'
  BY <1>1, <1>3, CleanSame DEF CleaningUp
<1>7. DeadWaits'
  BY <1>0, <1>1, <1>6 DEF DeadWaits, Present
<1>8. ASSUME Uniform PROVE CowIds'
  <2>0. CowIds
    BY <1>0, <1>8
  <2>1. ASSUME NEW u \in CowThreads, cpc'[u] \in {"unindex", "delete"}
        PROVE  /\ Head(cloc'[u].todo) \in BlockIds
               /\ \A h \in BlockIds : h = Head(cloc'[u].todo) => (~Fresh(h) /\ (~raced => cowBlocks[h].refs = 0))
    <3>1. cpc[u] \in {"unindex", "delete"} /\ cloc'[u] = cloc[u]
      BY <1>1, <1>3, <2>1
    <3> QED
      BY <1>0, <2>0, <3>1, CleaningHead DEF CowIds, CleaningDead
  <2>2. /\ \A u \in CowThreads, h \in BlockIds :
             (cpc'[u] \in {"unindex", "delete"} /\ h = Head(cloc'[u].todo)) => (~Fresh(h) /\ (~raced => cowBlocks[h].refs = 0))
        /\ \A u \in CowThreads : cpc'[u] \in {"unindex", "delete"} => Head(cloc'[u].todo) \in BlockIds
    BY <2>1
  <2>3. \A u \in CowThreads : (cpc'[u] = cpc[u] /\ cloc'[u] = cloc[u]) \/ (cpc[u] # "store" /\ cpc'[u] # "store")
    BY <1>1, <1>3
  <2> QED
    BY <1>0, <1>1, <1>4, <2>0, <2>2, <2>3, QuietIds
<1> QED
  BY <1>5, <1>7, <1>8 DEF CowInv, Uniform

\* cleanup deletes the block.
LEMMA DeleteKeeps ==
  ASSUME CowInv, NEW t \in CowThreads, DeleteBlock(t)
  PROVE  CowInv'
<1>0. CowTypes /\ DeadWaits /\ (Uniform => CowIds)
  BY DEF CowInv
<1>1. /\ cpc[t] = "delete" /\ cowBlocks' = [cowBlocks EXCEPT ![Head(cloc[t].todo)] = NoBlock] /\ CGoto(t, "check", NextToClean(t))
      /\ UNCHANGED <<checksumIndex, pendingDeletes, nextInline, nextExternal, held, raced, skipped>>
  BY DEF DeleteBlock
<1>2. PICK h \in BlockIds : h = Head(cloc[t].todo)
  BY <1>0, <1>1, CleaningHead
<1>e. cloc[t].todo # <<>>
  BY <1>0, <1>1, CleaningHead
<1>3. /\ cpc' \in [CowThreads -> CowLabels] /\ cloc' \in [CowThreads -> CowTasks] /\ cloc'[t].todo = Tail(cloc[t].todo)
      /\ cpc'[t] = "check" /\ (\A u \in CowThreads \ {t} : cpc'[u] = cpc[u] /\ cloc'[u] = cloc[u]) /\ CInHand'
  BY <1>0, <1>1, <1>e, NextTask, CMoved DEF CowLabels
<1>4. /\ cowBlocks' \in [BlockIds -> [content : Contents \cup {"none"}, refs : Nat]]
      /\ cowBlocks'[h] = NoBlock /\ \A k \in BlockIds \ {h} : cowBlocks'[k] = cowBlocks[k]
  BY <1>0, <1>1, <1>2 DEF CowTypes, NoBlock
<1>5. CowTypes'
  BY <1>0, <1>1, <1>3, <1>4 DEF CowTypes
<1>6. \A k \in BlockIds : Waits(k) => (Waits(k)' \/ k = h)
  BY <1>0, <1>1, <1>2, <1>3, <1>e, CleanOn DEF CleaningUp
<1>7. DeadWaits'
  BY <1>0, <1>4, <1>6 DEF DeadWaits, Present
<1>8. ASSUME Uniform PROVE CowIds'
  <2>0. CowTypes /\ StoresApart /\ FreshEmpty /\ IndexTrue /\ CleaningDead /\ HeldCounted
    BY <1>0, <1>8 DEF CowIds
  <2>1. \A u \in CowThreads : (cpc'[u] = cpc[u] /\ cloc'[u] = cloc[u]) \/ (cpc[u] # "store" /\ cpc'[u] # "store")
    BY <1>1, <1>3
  <2>2. NextId' = NextId /\ \A k : Fresh(k)' <=> Fresh(k)
    BY <1>1, <2>1, FreshSame
  <2>3. StoresApart'
    BY <2>0, <2>1, <2>2 DEF StoresApart
  <2>4. FreshEmpty'
    BY <1>1, <1>4, <2>0, <2>2 DEF FreshEmpty
  <2>5. IndexTrue'
    <3> SUFFICES ASSUME NEW d \in Contents, NEW k, k = checksumIndex[d], k # 0
                 PROVE  /\ k < NextId
                        /\ \A u \in CowThreads : (cpc'[u] = "store" /\ cloc'[u].id = k) => cloc'[u].content = d
                        /\ Present(k)' => cowBlocks'[k].content = d
      BY <1>1, <2>2 DEF IndexTrue
    <3> QED
      BY <1>4, <2>0, <2>1 DEF IndexTrue, Present
  <2>6. CleaningDead'
    <3> SUFFICES ASSUME NEW u \in CowThreads, cpc'[u] \in {"unindex", "delete"}, NEW k, k = Head(cloc'[u].todo)
                 PROVE  ~Fresh(k)' /\ (~raced' => cowBlocks'[k].refs = 0)
      BY DEF CleaningDead
    <3>1. cpc[u] \in {"unindex", "delete"} /\ cloc'[u] = cloc[u]
      BY <1>3
    <3>2. k \in BlockIds /\ ~Fresh(k) /\ (~raced => cowBlocks[k].refs = 0)
      BY <2>0, <3>1, CleaningHead DEF CleaningDead
    <3> QED
      BY <1>1, <1>4, <2>2, <3>2 DEF NoBlock
  <2>7. HeldCounted'
    <3> SUFFICES ASSUME ~raced, NEW k \in BlockIds, NEW d \in Contents
                 PROVE  held[k][d] = IF cowBlocks'[k].content = d THEN cowBlocks'[k].refs ELSE 0
      BY <1>1 DEF HeldCounted
    <3>1. held[k][d] = IF cowBlocks[k].content = d THEN cowBlocks[k].refs ELSE 0
      BY <2>0 DEF HeldCounted
    <3>2. k = h => (cowBlocks[k].refs = 0 /\ cowBlocks'[k].refs = 0)
      BY <1>1, <1>2, <1>4, <2>0 DEF CleaningDead, NoBlock
    <3> QED
      BY <1>4, <3>1, <3>2
  <2> QED
    BY <2>3, <2>4, <2>5, <2>6, <2>7 DEF CowIds
<1> QED
  BY <1>5, <1>7, <1>8 DEF CowInv, Uniform

\* allocate_block draws an id that no block has had, and the index points to
\* it before the block is there.
LEMMA CreateKeeps ==
  ASSUME CowInv, NEW t \in CowThreads, CreateBlock(t)
  PROVE  CowInv'
<1>0. CowTypes /\ DeadWaits /\ (Uniform => CowIds)
  BY DEF CowInv
<1>1. PICK c \in Contents : c = cloc[t].content /\ cpc[t] = "create"
  BY <1>0 DEF CreateBlock, CowTypes, CInHand
<1>2. PICK id : id = IF c \in Inline THEN nextInline ELSE nextExternal
  OBVIOUS
<1>3. /\ id <= MaxBlockIds /\ nextInline' = (IF c \in Inline THEN id + 1 ELSE nextInline)
      /\ nextExternal' = (IF c \in Inline THEN nextExternal ELSE id + 1)
      /\ checksumIndex' = [checksumIndex EXCEPT ![c] = id] /\ CGoto(t, "store", [cloc[t] EXCEPT !.id = id])
      /\ UNCHANGED <<cowBlocks, pendingDeletes, held, raced, skipped>>
  BY <1>1, <1>2 DEF CreateBlock
<1>4. id \in Nat \ {0}
  BY <1>0, <1>2 DEF CowTypes
<1>5. id \in BlockIds /\ id + 1 \in Nat \ {0}
  BY <1>3, <1>4, CowAssumption DEF BlockIds
<1>6. /\ checksumIndex' \in [Contents -> BlockIds \cup {0}] /\ checksumIndex'[c] = id
      /\ \A d \in Contents \ {c} : checksumIndex'[d] = checksumIndex[d]
  BY <1>0, <1>3, <1>5 DEF CowTypes
<1> DEFINE work == [cloc[t] EXCEPT !.id = id]
<1>7. work \in CowTasks /\ work.id = id /\ work.content = c
  BY <1>0, <1>1, <1>5 DEF CowTypes, CowTasks
<1>8. CGoto(t, "store", work)
  BY <1>3
<1> HIDE DEF work
<1>9. /\ cpc' \in [CowThreads -> CowLabels] /\ cloc' \in [CowThreads -> CowTasks] /\ cloc'[t].id = id /\ cloc'[t].content = c
      /\ cpc'[t] = "store" /\ (\A u \in CowThreads \ {t} : cpc'[u] = cpc[u] /\ cloc'[u] = cloc[u]) /\ CInHand'
  BY <1>0, <1>5, <1>7, <1>8, CMoved DEF CowLabels
<1>10. nextInline' \in Nat \ {0} /\ nextExternal' \in Nat \ {0}
  BY <1>0, <1>3, <1>5 DEF CowTypes
<1>11. CowTypes'
  BY <1>0, <1>3, <1>6, <1>9, <1>10 DEF CowTypes
<1>12. DeadWaits'
  <2>1. \A k \in BlockIds : Waits(k) => Waits(k)'
    BY <1>1, <1>3, <1>9, WaitsKept DEF Listed, CleaningUp
  <2> QED
    BY <1>0, <1>3, <2>1 DEF DeadWaits, Present
<1>13. ASSUME Uniform PROVE CowIds'
  <2>0. StoresApart /\ FreshEmpty /\ IndexTrue /\ CleaningDead /\ HeldCounted
    BY <1>0, <1>13 DEF CowIds
  <2>1. NextId = id /\ NextId' = id + 1
    <3>1. c \in Inline <=> Inline = Contents
      BY <1>13 DEF Uniform
    <3> QED
      BY <1>2, <1>3, <3>1 DEF NextId
  <2>2. \A k \in BlockIds : Fresh(k)' <=> Fresh(k)
    <3> SUFFICES ASSUME NEW k \in BlockIds PROVE Fresh(k)' <=> Fresh(k)
      OBVIOUS
    <3>1. k \in Nat /\ (k >= id <=> (k >= id + 1 \/ k = id))
      BY <1>4 DEF BlockIds
    <3>2. (\E u \in CowThreads : cpc'[u] = "store" /\ cloc'[u].id = k)
            <=> (k = id \/ \E u \in CowThreads : cpc[u] = "store" /\ cloc[u].id = k)
      BY <1>1, <1>9
    <3> QED
      BY <2>1, <3>1, <3>2 DEF Fresh
  <2>i. ASSUME NEW u \in CowThreads, cpc[u] = "store" PROVE cloc[u].id \in Nat /\ cloc[u].id < id
    BY <1>0, <2>0, <2>1, <2>i DEF StoresApart, CowTypes, CInHand, BlockIds
  <2>3. StoresApart'
    <3>1. ASSUME NEW u \in CowThreads, cpc'[u] = "store" PROVE cloc'[u].id < id + 1
      BY <1>4, <1>9, <2>i, <3>1
    <3>2. ASSUME NEW u \in CowThreads, NEW v \in CowThreads, cpc'[u] = "store", cpc'[v] = "store", cloc'[u].id = cloc'[v].id
          PROVE  u = v
      <4>1. ASSUME NEW w \in CowThreads \ {t}, cpc[w] = "store" PROVE cloc[w].id # id
        BY <1>4, <2>i, <4>1
      <4>2. CASE u # t /\ v # t
        BY <1>9, <2>0, <3>2, <4>2 DEF StoresApart
      <4> QED
        BY <1>9, <3>2, <4>1, <4>2
    <3> QED
      BY <2>1, <3>1, <3>2 DEF StoresApart
  <2>4. FreshEmpty'
    BY <1>3, <2>0, <2>2 DEF FreshEmpty
  <2>5. IndexTrue'
    <3> SUFFICES ASSUME NEW d \in Contents, NEW k, k = checksumIndex'[d], k # 0
                 PROVE  /\ k < id + 1
                        /\ \A u \in CowThreads : (cpc'[u] = "store" /\ cloc'[u].id = k) => cloc'[u].content = d
                        /\ Present(k)' => cowBlocks'[k].content = d
      BY <2>1 DEF IndexTrue
    <3>1. CASE d = c
      <4>1. k = id /\ k < id + 1
        BY <1>4, <1>6, <3>1
      <4>2. \A u \in CowThreads : (cpc'[u] = "store" /\ cloc'[u].id = k) => u = t
        BY <1>4, <1>9, <2>i, <4>1
      <4>3. ~Present(k)'
        BY <1>3, <1>4, <1>5, <2>0, <2>1, <4>1 DEF FreshEmpty, Fresh, Present
      <4> QED
        BY <1>9, <3>1, <4>1, <4>2, <4>3
    <3>2. CASE d # c
      <4>1. k = checksumIndex[d] /\ k \in BlockIds /\ k < id
        BY <1>0, <1>6, <2>0, <2>1, <3>2 DEF CowTypes, IndexTrue
      <4>2. k < id + 1 /\ k # id
        BY <1>4, <4>1 DEF BlockIds
      <4> QED
        BY <1>3, <1>9, <2>0, <4>1, <4>2 DEF IndexTrue, Present
    <3> QED
      BY <3>1, <3>2
  <2>6. CleaningDead'
    <3> SUFFICES ASSUME NEW u \in CowThreads, cpc'[u] \in {"unindex", "delete"}, NEW k, k = Head(cloc'[u].todo)
                 PROVE  ~Fresh(k)' /\ (~raced' => cowBlocks'[k].refs = 0)
      BY DEF CleaningDead
    <3>1. cpc[u] \in {"unindex", "delete"} /\ cloc'[u] = cloc[u]
      BY <1>9
    <3> QED
      BY <1>0, <1>3, <2>0, <2>2, <3>1, CleaningHead DEF CleaningDead
  <2>7. HeldCounted'
    BY <1>3, <2>0 DEF HeldCounted
  <2> QED
    BY <2>3, <2>4, <2>5, <2>6, <2>7 DEF CowIds
<1> QED
  BY <1>11, <1>12, <1>13 DEF CowInv, Uniform

\* allocate_block stores the new block with one reference.
LEMMA StoreKeeps ==
  ASSUME CowInv, NEW t \in CowThreads, StoreBlock(t)
  PROVE  CowInv'
<1>0. CowTypes /\ DeadWaits /\ (Uniform => CowIds)
  BY DEF CowInv
<1>1. PICK c \in Contents, id \in BlockIds : c = cloc[t].content /\ id = cloc[t].id /\ cpc[t] = "store"
  BY <1>0 DEF StoreBlock, CowTypes, CInHand
<1>2. /\ cowBlocks' = [cowBlocks EXCEPT ![id] = [content |-> c, refs |-> 1]] /\ Hold(id, c, 1) /\ CGoto(t, "idle", NoWork)
      /\ UNCHANGED <<checksumIndex, pendingDeletes, nextInline, nextExternal, raced, skipped>>
  BY <1>1 DEF StoreBlock
<1>3. /\ cpc' \in [CowThreads -> CowLabels] /\ cloc' \in [CowThreads -> CowTasks]
      /\ cpc'[t] = "idle" /\ (\A u \in CowThreads \ {t} : cpc'[u] = cpc[u] /\ cloc'[u] = cloc[u]) /\ CInHand'
  BY <1>0, <1>2, IdleTask, CMoved DEF CowLabels
<1>4. /\ cowBlocks' \in [BlockIds -> [content : Contents \cup {"none"}, refs : Nat]]
      /\ cowBlocks'[id].content = c /\ cowBlocks'[id].refs = 1 /\ (\A k \in BlockIds \ {id} : cowBlocks'[k] = cowBlocks[k])
  BY <1>0, <1>2 DEF CowTypes
<1>h. PICK h \in Nat : h = held[id][c] + 1
  <2>1. held[id][c] + 1 \in Nat
    BY <1>0 DEF CowTypes
  <2> QED
    BY <2>1
<1>5. /\ held' \in [BlockIds -> [Contents -> Nat]]
      /\ held'[id][c] = h /\ (\A d \in Contents \ {c} : held'[id][d] = held[id][d])
      /\ (\A k \in BlockIds \ {id} : held'[k] = held[k])
  <2>1. held' = [held EXCEPT ![id][c] = h]
    BY <1>2, <1>h DEF Hold
  <2> QED
    BY <1>0, <2>1 DEF CowTypes
<1>6. CowTypes'
  BY <1>0, <1>2, <1>3, <1>4, <1>5 DEF CowTypes
<1>7. DeadWaits'
  <2>1. \A k \in BlockIds : Waits(k) => Waits(k)'
    BY <1>1, <1>2, <1>3, WaitsKept DEF Listed, CleaningUp
  <2> QED
    BY <1>0, <1>4, <2>1 DEF DeadWaits, Present
<1>8. ASSUME Uniform PROVE CowIds'
  <2>0. StoresApart /\ FreshEmpty /\ IndexTrue /\ CleaningDead /\ HeldCounted
    BY <1>0, <1>8 DEF CowIds
  <2>1. Fresh(id) /\ NextId' = NextId
    BY <1>1, <1>2 DEF Fresh, NextId
  <2>2. \A k : Fresh(k)' => Fresh(k)
    BY <1>2, <1>3, <2>1 DEF Fresh
  <2>3. ~Fresh(id)'
    <3>1. id < NextId /\ id \in Nat /\ NextId \in Nat
      BY <1>0, <1>1, <2>0 DEF StoresApart, BlockIds, NextId, CowTypes
    <3>2. ~(id >= NextId)
      BY <3>1
    <3>3. ~\E u \in CowThreads : cpc'[u] = "store" /\ cloc'[u].id = id
      BY <1>1, <1>3, <2>0 DEF StoresApart
    <3> QED
      BY <2>1, <3>2, <3>3 DEF Fresh
  <2>4. StoresApart'
    BY <1>3, <2>0, <2>1 DEF StoresApart
  <2>5. FreshEmpty'
    BY <1>4, <1>5, <2>0, <2>2, <2>3 DEF FreshEmpty
  <2>6. IndexTrue'
    <3> SUFFICES ASSUME NEW d \in Contents, NEW k, k = checksumIndex[d], k # 0
                 PROVE  /\ k < NextId
                        /\ \A u \in CowThreads : (cpc'[u] = "store" /\ cloc'[u].id = k) => cloc'[u].content = d
                        /\ Present(k)' => cowBlocks'[k].content = d
      BY <1>2, <2>1 DEF IndexTrue
    <3>1. CASE k = id
      <4>1. k < NextId /\ \A u \in CowThreads : (cpc[u] = "store" /\ cloc[u].id = k) => cloc[u].content = d
        BY <2>0 DEF IndexTrue
      <4>2. c = d
        BY <1>1, <3>1, <4>1
      <4> QED
        BY <1>3, <1>4, <3>1, <4>1, <4>2
    <3>2. CASE k # id
      BY <1>3, <1>4, <2>0, <3>2 DEF IndexTrue, Present
    <3> QED
      BY <3>1, <3>2
  <2>7. CleaningDead'
    <3> SUFFICES ASSUME NEW u \in CowThreads, cpc'[u] \in {"unindex", "delete"}, NEW k, k = Head(cloc'[u].todo)
                 PROVE  ~Fresh(k)' /\ (~raced' => cowBlocks'[k].refs = 0)
      BY DEF CleaningDead
    <3>1. cpc[u] \in {"unindex", "delete"} /\ cloc'[u] = cloc[u]
      BY <1>3
    <3>2. k \in BlockIds /\ ~Fresh(k) /\ (~raced => cowBlocks[k].refs = 0)
      BY <1>0, <2>0, <3>1, CleaningHead DEF CleaningDead
    <3> QED
      BY <1>2, <1>4, <2>1, <2>2, <3>2
  <2>8. HeldCounted'
    <3> SUFFICES ASSUME ~raced, NEW k \in BlockIds, NEW d \in Contents
                 PROVE  held'[k][d] = IF cowBlocks'[k].content = d THEN cowBlocks'[k].refs ELSE 0
      BY <1>2 DEF HeldCounted
    <3>1. CASE k = id
      <4>1. \A e \in Contents : held[id][e] = 0
        BY <2>0, <2>1 DEF FreshEmpty
      <4>2. h = 1
        BY <1>h, <4>1
      <4> QED
        BY <1>4, <1>5, <3>1, <4>1, <4>2
    <3>2. CASE k # id
      BY <1>4, <1>5, <2>0, <3>2 DEF HeldCounted
    <3> QED
      BY <3>1, <3>2
  <2> QED
    BY <2>4, <2>5, <2>6, <2>7, <2>8 DEF CowIds
<1> QED
  BY <1>6, <1>7, <1>8 DEF CowInv, Uniform

\* Every step keeps the invariant, one case per action.
LEMMA CowPreserved == CowInv /\ [CowNext]_cowVars => CowInv'
<1> SUFFICES ASSUME CowInv, [CowNext]_cowVars PROVE CowInv'
  OBVIOUS
<1>1. CASE UNCHANGED cowVars
  <2>1. CowTypes /\ DeadWaits /\ (Uniform => CowIds)
    BY DEF CowInv
  <2>2. /\ UNCHANGED <<cowBlocks, checksumIndex, pendingDeletes, nextInline, nextExternal>>
        /\ UNCHANGED <<cpc, cloc, held, raced, skipped>>
    BY <1>1 DEF cowVars
  <2>3. CowTypes'
    BY <2>1, <2>2 DEF CowTypes, CInHand
  <2>4. DeadWaits'
    BY <2>1, <2>2 DEF DeadWaits, Present, Waits, Listed, ToClean, CleaningUp
  <2>5. CowIds => CowIds'
    BY <2>2 DEF CowIds, StoresApart, FreshEmpty, IndexTrue, CleaningDead, HeldCounted, Fresh, NextId, Present
  <2> QED
    BY <2>1, <2>3, <2>4, <2>5 DEF CowInv, Uniform
<1>2. ASSUME NEW t \in CowThreads, CopyAllocates(t) PROVE CowInv'
  <2>1. cloc[t].content \in Contents /\ cpc[t] = "copy"
    BY <1>2 DEF CopyAllocates, CowInv, CowTypes, CInHand
  <2>2. PICK c \in Contents : c = cloc[t].content
    BY <2>1
  <2> QED
    BY <1>2, <2>1, <2>2, HitKeeps, MissKeeps DEF CopyAllocates
<1> QED
  BY <1>1, <1>2, HitKeeps, MissKeeps, AddKeeps, ReleaseKeeps, CleanupKeeps, CheckKeeps, UnindexKeeps, DeleteKeeps,
     CreateKeeps, StoreKeeps DEF CowNext, AllocateBlock

\* For any number of threads, contents and blocks: as long as no count changes
\* between the look of cleanup at a block and its removal, and the blocks come
\* from one of the two id counters, a block that is held has its content and
\* counts all its holders (CowManager::allocate_block, release_ref, cleanup).
THEOREM HeldIntact == CowSpec => []HeldBlockIsIntact
<1>1. CowInv => HeldBlockIsIntact
  <2> SUFFICES ASSUME CowInv, ~raced, Uniform, NEW id \in BlockIds, NEW c \in Contents, held[id][c] > 0
               PROVE  cowBlocks[id] = [content |-> c, refs |-> held[id][c]]
    BY DEF HeldBlockIsIntact, Uniform
  <2>1. held[id][c] = IF cowBlocks[id].content = c THEN cowBlocks[id].refs ELSE 0
    BY DEF CowInv, CowIds, HeldCounted
  <2>2. cowBlocks[id] \in [content : Contents \cup {"none"}, refs : Nat]
    BY DEF CowInv, CowTypes
  <2>3. cowBlocks[id].content = c /\ cowBlocks[id].refs = held[id][c]
    BY <2>1
  <2> QED
    BY <2>2, <2>3
<1> QED
  BY <1>1, CowInitial, CowPreserved, PTL DEF CowSpec

\* For any number of threads: a block whose count is zero is on the pending
\* list, in the hands of a cleanup, or was beyond the batch of one; even when
\* a count changed during a cleanup (release_ref, cleanup).
THEOREM DeadScheduled == CowSpec => []DeadBlockIsScheduled
<1>1. CowInv => DeadBlockIsScheduled
  BY DEF CowInv, DeadWaits, DeadBlockIsScheduled, Waits, Listed, ToClean
<1> QED
  BY <1>1, CowInitial, CowPreserved, PTL DEF CowSpec

-----------------------------------------------------------------------------
(***************************************************************************)
(* The extent map.  The extents of the tree are apart, each has what was   *)
(* last written at its addresses, and what is left of the volume is blank. *)
(***************************************************************************)

\* An extent of a volume is not empty and ends within the volume.
VolumeExtents ==
  {e \in [off : Nat, len : Nat \ {0}, obj : BlockObjects, ooff : Nat, hole : BOOLEAN] :
     End(e) <= VolumeBlocks}

ExtentTypes ==
  /\ extents \subseteq VolumeExtents
  /\ written = [a \in Addresses |-> written[a]]

\* No two extents of a set, or of the tree, overlap.
Apart(S) == \A e, f \in S : e = f \/ End(e) <= f.off \/ End(f) <= e.off
Disjoint == Apart(extents)

\* An extent has what was last written at its addresses, none of which is cut off.
Current == \A e \in extents : \A a \in Covers(e) : a \notin cutOff /\ DataAt(e, a) = written[a]

\* What no extent covers is cut off, or was discarded or never written.
Blank ==
  \A a \in Addresses : a \notin cutOff /\ (\A e \in extents : a \notin Covers(e)) => written[a] = Zero

ExtentInv == ExtentTypes /\ Disjoint /\ Current /\ Blank

\* The fields of an extent, and what it covers.
LEMMA ExtentFields ==
  ASSUME NEW e \in VolumeExtents
  PROVE  /\ e.off \in Nat /\ e.len \in Nat /\ e.len > 0 /\ e.ooff \in Nat /\ e.hole \in BOOLEAN
         /\ End(e) \in Nat /\ End(e) <= VolumeBlocks /\ e.off < End(e) /\ VolumeBlocks \in Nat
         /\ \A a : a \in Covers(e) <=> a \in Nat /\ e.off <= a /\ a < End(e)
         /\ Covers(e) \subseteq Addresses
BY VolumeAssumption DEF VolumeExtents, End, Covers, Addresses

\* The tree is empty at the start.
LEMMA ExtentInitial == ExtentInit => ExtentInv
BY DEF ExtentInit, ExtentInv, ExtentTypes, Disjoint, Apart, Current, Blank

\* Two extents overlap when an address is in both.
LEMMA OverlapMeets ==
  ASSUME NEW e \in VolumeExtents, NEW start \in Nat, NEW end \in Nat
  PROVE  /\ \A a \in Covers(e) : start <= a /\ a < end => Overlaps(e, start, end)
         /\ ~Overlaps(e, start, end) => End(e) <= start \/ end <= e.off
BY ExtentFields DEF Overlaps

\* insert takes out what overlaps the new extent.
LEMMA InsertKeeps == ASSUME ExtentInv, NEW e \in NewExtents, Insert(e) PROVE ExtentInv'
<1> DEFINE removed == Overlapped(e.off, End(e))
<1>0. /\ extents \subseteq VolumeExtents /\ e \in VolumeExtents
      /\ written = [a \in Addresses |-> written[a]]
  BY VolumeAssumption DEF ExtentInv, ExtentTypes, NewExtents, VolumeExtents, Addresses
<1>1. /\ extents' = (extents \ removed) \cup {e}
      /\ written' = [a \in Addresses |-> IF a \in Covers(e) THEN DataAt(e, a) ELSE written[a]]
      /\ cutOff' = (cutOff \cup UNION {Covers(f) : f \in removed}) \ Covers(e)
  BY DEF Insert
<1>2. \A f \in extents : f \in removed <=> Overlaps(f, e.off, End(e))
  BY DEF Overlapped
<1>3. removed \subseteq extents
  BY DEF Overlapped
<1> HIDE DEF removed
<1>4. \A f \in extents \ removed : End(f) <= e.off \/ End(e) <= f.off
  BY <1>0, <1>2, OverlapMeets, ExtentFields
<1>5. \A f \in extents \ removed : Covers(f) \cap Covers(e) = {}
  BY <1>0, <1>4, ExtentFields
<1>6. \A f \in extents \ removed : \A g \in removed : Covers(f) \cap Covers(g) = {}
  BY <1>0, <1>3, ExtentFields DEF ExtentInv, Disjoint, Apart
<1>7. ExtentTypes'
  BY <1>0, <1>1 DEF ExtentTypes
<1>8. Disjoint'
  BY <1>1, <1>4 DEF ExtentInv, Disjoint, Apart
<1>9. Current'
  <2> SUFFICES ASSUME NEW f \in extents', NEW a \in Covers(f)
               PROVE  a \notin cutOff' /\ DataAt(f, a) = written'[a]
    BY DEF Current
  <2>1. a \in Addresses
    BY <1>0, <1>1, ExtentFields
  <2>2. CASE f = e
    BY <1>1, <2>1, <2>2
  <2>3. CASE f \in extents \ removed
    <3>1. a \notin Covers(e) /\ a \notin UNION {Covers(g) : g \in removed}
      BY <1>5, <1>6, <2>3
    <3>2. a \notin cutOff /\ DataAt(f, a) = written[a]
      BY <2>3 DEF ExtentInv, Current
    <3> QED
      BY <1>1, <2>1, <3>1, <3>2
  <2> QED
    BY <1>1, <2>2, <2>3
<1>10. Blank'
  <2> SUFFICES ASSUME NEW a \in Addresses, a \notin cutOff', \A f \in extents' : a \notin Covers(f)
               PROVE  written'[a] = Zero
    BY DEF Blank
  <2>1. a \notin Covers(e)
    BY <1>1
  <2>2. a \notin cutOff /\ \A f \in removed : a \notin Covers(f)
    BY <1>1, <2>1
  <2>3. \A f \in extents : a \notin Covers(f)
    BY <1>1, <2>2
  <2> QED
    BY <1>1, <2>1, <2>2, <2>3 DEF ExtentInv, Blank
<1> QED
  BY <1>7, <1>8, <1>9, <1>10 DEF ExtentInv

\* What is kept of an extent are the addresses of it outside the range, with the
\* data they had.
LEMMA PartsKept ==
  ASSUME NEW e \in VolumeExtents, NEW start \in Nat, NEW end \in Nat, start <= end, Overlaps(e, start, end)
  PROVE  /\ \A p \in PartsOutside(e, start, end) :
              /\ p \in VolumeExtents
              /\ (p.off = e.off /\ End(p) = start /\ start <= End(e)) \/ (p.off = end /\ End(p) = End(e))
              /\ e.off <= p.off /\ End(p) <= End(e)
              /\ \A a \in Covers(p) : a \in Covers(e) /\ ~(start <= a /\ a < end) /\ DataAt(p, a) = DataAt(e, a)
         /\ \A a \in Covers(e) : (start <= a /\ a < end) \/ \E p \in PartsOutside(e, start, end) : a \in Covers(p)
         /\ \A p, q \in PartsOutside(e, start, end) : p = q \/ End(p) <= q.off \/ End(q) <= p.off
<1> DEFINE b == [e EXCEPT !.len = start - e.off]
           c == [e EXCEPT !.off = end, !.len = End(e) - end, !.ooff = @ + (end - e.off)]
<1>0. /\ e \in [off : Nat, len : Nat \ {0}, obj : BlockObjects, ooff : Nat, hole : BOOLEAN]
      /\ End(e) = e.off + e.len /\ e.off < end /\ start < End(e)
      /\ e.off \in Nat /\ End(e) \in Nat /\ End(e) <= VolumeBlocks /\ e.ooff \in Nat /\ VolumeBlocks \in Nat
  BY ExtentFields DEF VolumeExtents, End, Overlaps
<1>1. /\ b.off = e.off /\ b.len = start - e.off /\ End(b) = start
      /\ b.obj = e.obj /\ b.ooff = e.ooff /\ b.hole = e.hole
  BY <1>0 DEF End
<1>2. /\ c.off = end /\ c.len = End(e) - end /\ End(c) = End(e)
      /\ c.obj = e.obj /\ c.ooff = e.ooff + (end - e.off) /\ c.hole = e.hole
  BY <1>0 DEF End
<1>3. b.len > 0 => b \in VolumeExtents
  <2> SUFFICES ASSUME start - e.off > 0 PROVE b \in VolumeExtents
    BY <1>1
  <2>1. start - e.off \in Nat \ {0}
    BY <1>0
  <2>2. b \in [off : Nat, len : Nat \ {0}, obj : BlockObjects, ooff : Nat, hole : BOOLEAN]
    BY <1>0, <2>1
  <2> QED
    BY <1>0, <1>1, <2>2 DEF VolumeExtents
<1>4. c.len > 0 => c \in VolumeExtents
  <2> SUFFICES ASSUME End(e) - end > 0 PROVE c \in VolumeExtents
    BY <1>2
  <2>1. End(e) - end \in Nat \ {0} /\ e.ooff + (end - e.off) \in Nat
    BY <1>0
  <2>2. c \in [off : Nat, len : Nat \ {0}, obj : BlockObjects, ooff : Nat, hole : BOOLEAN]
    BY <1>0, <2>1
  <2> QED
    BY <1>0, <1>2, <2>2 DEF VolumeExtents
<1>5. PartsOutside(e, start, end) = {p \in {b, c} : p.len > 0}
  BY DEF PartsOutside
<1> HIDE DEF b, c
<1>6. ASSUME NEW a \in Covers(b), b.len > 0
      PROVE  a \in Covers(e) /\ ~(start <= a /\ a < end) /\ DataAt(b, a) = DataAt(e, a)
  <2>1. a \in Nat /\ e.off <= a /\ a < start
    BY <1>1, <1>3, <1>6, ExtentFields
  <2> QED
    BY <1>0, <1>1, <2>1, ExtentFields DEF DataAt
<1>7. ASSUME NEW a \in Covers(c), c.len > 0
      PROVE  a \in Covers(e) /\ ~(start <= a /\ a < end) /\ DataAt(c, a) = DataAt(e, a)
  <2>1. a \in Nat /\ end <= a /\ a < End(e)
    BY <1>2, <1>4, <1>7, ExtentFields
  <2>2. a \in Covers(e) /\ ~(start <= a /\ a < end)
    BY <1>0, <2>1, ExtentFields
  <2>3. c.ooff + (a - c.off) = e.ooff + (a - e.off)
    BY <1>0, <1>2, <2>1
  <2> QED
    BY <1>2, <2>2, <2>3 DEF DataAt
<1>8. ASSUME NEW a \in Covers(e), ~(start <= a /\ a < end)
      PROVE  \E p \in PartsOutside(e, start, end) : a \in Covers(p)
  <2>1. a \in Nat /\ e.off <= a /\ a < End(e)
    BY ExtentFields
  <2>2. CASE a < start
    <3>1. b.len > 0
      BY <1>0, <1>1, <2>1, <2>2
    <3>2. a \in Covers(b)
      BY <1>1, <1>3, <2>1, <2>2, <3>1, ExtentFields
    <3> QED
      BY <1>5, <3>1, <3>2
  <2>3. CASE end <= a
    <3>1. c.len > 0
      BY <1>0, <1>2, <2>1, <2>3
    <3>2. a \in Covers(c)
      BY <1>2, <1>4, <2>1, <2>3, <3>1, ExtentFields
    <3> QED
      BY <1>5, <3>1, <3>2
  <2> QED
    BY <1>8, <2>1, <2>2, <2>3
<1>9. b.len > 0 => e.off <= b.off /\ End(b) <= End(e)
  BY <1>0, <1>1
<1>10. c.len > 0 => e.off <= c.off /\ End(c) <= End(e)
  BY <1>0, <1>2
<1>11. End(b) <= c.off
  BY <1>1, <1>2
<1>12. ASSUME NEW p \in PartsOutside(e, start, end)
       PROVE  /\ p \in VolumeExtents
              /\ (p.off = e.off /\ End(p) = start /\ start <= End(e)) \/ (p.off = end /\ End(p) = End(e))
              /\ e.off <= p.off /\ End(p) <= End(e)
              /\ \A a \in Covers(p) : a \in Covers(e) /\ ~(start <= a /\ a < end) /\ DataAt(p, a) = DataAt(e, a)
  <2>1. CASE p = b /\ b.len > 0
    BY <1>0, <1>1, <1>3, <1>6, <1>9, <2>1
  <2>2. CASE p = c /\ c.len > 0
    BY <1>0, <1>2, <1>4, <1>7, <1>10, <2>2
  <2> QED
    BY <1>5, <2>1, <2>2
<1>13. \A p, q \in PartsOutside(e, start, end) : p = q \/ End(p) <= q.off \/ End(q) <= p.off
  BY <1>5, <1>11
<1> QED
  BY <1>8, <1>12, <1>13

\* remove_range keeps the parts of the extents it cuts.
LEMMA RemoveKeeps ==
  ASSUME ExtentInv, NEW start \in Addresses, NEW end \in start .. VolumeBlocks, RemoveRange(start, end)
  PROVE  ExtentInv'
<1> DEFINE removed == Overlapped(start, end)
           kept == UNION {PartsOutside(e, start, end) : e \in removed}
<1>0. /\ extents \subseteq VolumeExtents /\ start \in Nat /\ end \in Nat /\ start <= end
      /\ written = [a \in Addresses |-> written[a]]
  BY VolumeAssumption DEF ExtentInv, ExtentTypes, Addresses
<1>1. /\ extents' = (extents \ removed) \cup kept
      /\ written' = [a \in Addresses |-> IF a \in start .. end - 1 THEN Zero ELSE written[a]]
      /\ cutOff' = cutOff \ (start .. end - 1)
  BY DEF RemoveRange
<1>2. /\ \A f \in extents : f \in removed <=> Overlaps(f, start, end)
      /\ removed \subseteq extents
  BY DEF Overlapped
<1> HIDE DEF removed
<1>3. \A p \in kept : \E e \in removed : p \in PartsOutside(e, start, end)
  OBVIOUS
<1>4. \A e \in removed : PartsOutside(e, start, end) \subseteq kept
  OBVIOUS
<1> HIDE DEF kept
<1>5. ASSUME NEW p \in kept
      PROVE  \E e \in removed :
               /\ p \in PartsOutside(e, start, end) /\ p \in VolumeExtents
               /\ e.off <= p.off /\ End(p) <= End(e)
               /\ \A a \in Covers(p) : a \in Covers(e) /\ ~(start <= a /\ a < end) /\ DataAt(p, a) = DataAt(e, a)
  <2>1. PICK e \in removed : p \in PartsOutside(e, start, end)
    BY <1>3
  <2>2. e \in VolumeExtents /\ Overlaps(e, start, end)
    BY <1>0, <1>2
  <2> QED
    BY <1>0, <2>1, <2>2, PartsKept
<1>6. ExtentTypes'
  BY <1>0, <1>1, <1>5 DEF ExtentTypes
<1>7. Disjoint'
  <2> SUFFICES ASSUME NEW p \in extents', NEW q \in extents'
               PROVE  p = q \/ End(p) <= q.off \/ End(q) <= p.off
    BY DEF Disjoint, Apart
  <2>0. p \in VolumeExtents /\ q \in VolumeExtents
    BY <1>6 DEF ExtentTypes
  <2>1. CASE p \in extents /\ q \in extents
    BY <2>1 DEF ExtentInv, Disjoint, Apart
  <2>2. ASSUME NEW f \in extents \ removed, NEW k \in kept PROVE End(f) <= k.off \/ End(k) <= f.off
    <3>1. PICK e \in removed : k \in VolumeExtents /\ e.off <= k.off /\ End(k) <= End(e)
      BY <1>5
    <3>2. e # f /\ (End(e) <= f.off \/ End(f) <= e.off)
      BY <1>2 DEF ExtentInv, Disjoint, Apart
    <3> QED
      BY <1>0, <1>2, <3>1, <3>2, ExtentFields
  <2>3. CASE p \in kept /\ q \in kept
    <3>1. PICK e \in removed : p \in PartsOutside(e, start, end) /\ e.off <= p.off /\ End(p) <= End(e)
      BY <1>5, <2>3
    <3>2. PICK f \in removed : q \in PartsOutside(f, start, end) /\ f.off <= q.off /\ End(q) <= End(f)
      BY <1>5, <2>3
    <3>3. e \in VolumeExtents /\ f \in VolumeExtents /\ Overlaps(e, start, end)
      BY <1>0, <1>2
    <3>4. CASE e = f
      BY <1>0, <3>1, <3>2, <3>3, <3>4, PartsKept
    <3>5. CASE e # f
      <4>1. End(e) <= f.off \/ End(f) <= e.off
        BY <1>2, <3>5 DEF ExtentInv, Disjoint, Apart
      <4> QED
        BY <2>0, <3>1, <3>2, <3>3, <4>1, ExtentFields
    <3> QED
      BY <3>4, <3>5
  <2> QED
    BY <1>1, <2>1, <2>2, <2>3
<1>8. Current'
  <2> SUFFICES ASSUME NEW p \in extents', NEW a \in Covers(p)
               PROVE  a \notin cutOff' /\ DataAt(p, a) = written'[a]
    BY DEF Current
  <2>1. a \in Addresses /\ a \in Nat
    BY <1>6, ExtentFields DEF ExtentTypes
  <2>2. \E e \in extents : a \in Covers(e) /\ ~(start <= a /\ a < end) /\ DataAt(p, a) = DataAt(e, a)
    <3>1. CASE p \in kept
      BY <1>2, <1>5, <3>1
    <3>2. CASE p \in extents \ removed
      <4>1. ~(start <= a /\ a < end)
        BY <1>0, <1>2, <3>2, OverlapMeets
      <4> QED
        BY <3>2, <4>1
    <3> QED
      BY <1>1, <3>1, <3>2
  <2>3. a \notin cutOff /\ DataAt(p, a) = written[a]
    BY <2>2 DEF ExtentInv, Current
  <2>4. a \notin start .. end - 1
    BY <1>0, <2>1, <2>2
  <2> QED
    BY <1>1, <2>1, <2>3, <2>4
<1>9. Blank'
  <2> SUFFICES ASSUME NEW a \in Addresses, a \notin cutOff', \A f \in extents' : a \notin Covers(f),
                      a \notin start .. end - 1
               PROVE  written[a] = Zero
    BY <1>1 DEF Blank
  <2>1. a \notin cutOff
    BY <1>1
  <2>2. ASSUME NEW f \in extents, a \in Covers(f) PROVE FALSE
    <3>1. f \in removed
      BY <1>1, <2>2
    <3>2. f \in VolumeExtents /\ Overlaps(f, start, end) /\ a \in Nat
      BY <1>0, <1>2, <2>2, <3>1, ExtentFields
    <3>3. ~(start <= a /\ a < end)
      BY <1>0, <3>2
    <3>4. \E p \in PartsOutside(f, start, end) : a \in Covers(p)
      BY <1>0, <2>2, <3>2, <3>3, PartsKept
    <3> QED
      BY <1>1, <1>4, <3>1, <3>4
  <2> QED
    BY <2>1, <2>2 DEF ExtentInv, Blank
<1> QED
  BY <1>6, <1>7, <1>8, <1>9 DEF ExtentInv

\* Both operations keep the tree in order.
LEMMA ExtentPreserved == ExtentInv /\ [ExtentNext]_extentVars => ExtentInv'
<1> SUFFICES ASSUME ExtentInv, [ExtentNext]_extentVars PROVE ExtentInv'
  OBVIOUS
<1>1. CASE UNCHANGED extentVars
  BY <1>1 DEF extentVars, ExtentInv, ExtentTypes, Disjoint, Apart, Current, Blank
<1>2. ASSUME NEW e \in NewExtents, Insert(e) PROVE ExtentInv'
  BY <1>2, InsertKeeps
<1>3. ASSUME NEW start \in Addresses, NEW end \in start .. VolumeBlocks, RemoveRange(start, end) PROVE ExtentInv'
  BY <1>3, RemoveKeeps
<1> QED
  BY <1>1, <1>2, <1>3 DEF ExtentNext

\* A set of natural numbers that is not empty has a least element.
LEMMA LeastNumber ==
  ASSUME NEW S, S \subseteq Nat, S # {}
  PROVE  \E i \in S : \A j \in S : i <= j
<1>1. PICK i \in S : \A j \in S : <<j, i>> \notin OpToRel(<, Nat)
  BY NatLessThanWellFounded, WFMin
<1>2. \A j \in S : ~(j < i)
  BY <1>1 DEF OpToRel
<1> QED
  BY <1>2

-----------------------------------------------------------------------------
(***************************************************************************)
(* The read.  The walk goes through the sets of the extents up to each one *)
(* (Folds takes the last of a set and folds the others first); how far its *)
(* last extent is in the volume is the height of a set.                    *)
(***************************************************************************)
Height(s) == IF s = {} THEN 0 ELSE LastOf(s).off + 1
WalkStep(off, end, g, s) ==
  IF s = {} THEN [at |-> off, got |-> <<>>] ELSE ReadExtent(g[s \ {LastOf(s)}], LastOf(s), end)
Walks(off, end, S) == CHOOSE g : g = [s \in SUBSET S |-> WalkStep(off, end, g, s)]

\* The read is the walk over all extents that it finds.
LEMMA ReadIsWalk ==
  ASSUME NEW off, NEW end, NEW w, w = Walks(off, end, Overlapped(off, end))[Overlapped(off, end)]
  PROVE  ReadVolume(off, end) = w.got \o [i \in 1 .. end - w.at |-> Zero]
BY DEF ReadVolume, MapThenFoldSet, Walks, WalkStep

\* There is a last extent, and the height is less without it.
LEMMA Heights ==
  ASSUME NEW S, S \subseteq VolumeExtents, Apart(S)
  PROVE  /\ Height(S) \in Nat /\ Height(S) <= VolumeBlocks
         /\ S # {} => /\ LastOf(S) \in S /\ \A f \in S : f.off <= LastOf(S).off
                      /\ \A f \in S \ {LastOf(S)} : f.off < LastOf(S).off
                      /\ Height(S) > 0 /\ Height(S \ {LastOf(S)}) < Height(S)
<1>1. ASSUME NEW T, T \subseteq VolumeExtents, T # {}
      PROVE  LastOf(T) \in T /\ \A f \in T : f.off <= LastOf(T).off
  <2> DEFINE D == {VolumeBlocks - f.off : f \in T}
  <2>1. D \subseteq Nat /\ D # {}
    BY <1>1, ExtentFields
  <2>2. PICK i \in D : \A j \in D : i <= j
    BY <2>1, LeastNumber
  <2>3. PICK e \in T : i = VolumeBlocks - e.off
    BY <2>2
  <2>4. \A f \in T : VolumeBlocks - e.off <= VolumeBlocks - f.off
    BY <2>2, <2>3
  <2>5. \A f \in T : f.off <= e.off
    BY <1>1, <2>4, ExtentFields
  <2> QED
    BY <2>5 DEF LastOf
<1>2. ASSUME NEW T, T \subseteq VolumeExtents
      PROVE  Height(T) \in Nat /\ Height(T) <= VolumeBlocks /\ (T # {} => Height(T) = LastOf(T).off + 1)
  <2>1. CASE T = {}
    BY <2>1, VolumeAssumption DEF Height
  <2>2. CASE T # {}
    BY <1>1, <1>2, <2>2, ExtentFields DEF Height
  <2> QED
    BY <2>1, <2>2
<1> DEFINE e == LastOf(S)
           R == S \ {e}
<1>3. CASE S # {}
  <2>1. e \in S /\ \A f \in S : f.off <= e.off
    BY <1>1, <1>3
  <2> HIDE DEF e
  <2>2. \A f \in R : f.off < e.off
    BY <2>1, ExtentFields DEF Apart
  <2>3. Height(S) = e.off + 1 /\ e.off \in Nat
    BY <1>2, <1>3, <2>1, ExtentFields DEF e
  <2>4. Height(R) < Height(S)
    <3>1. CASE R = {}
      BY <2>3, <3>1 DEF Height
    <3>2. CASE R # {}
      <4>1. LastOf(R) \in R /\ Height(R) = LastOf(R).off + 1
        BY <1>1, <1>2, <3>2
      <4>2. LastOf(R).off < e.off /\ LastOf(R).off \in Nat
        BY <2>2, <4>1, ExtentFields
      <4> QED
        BY <2>3, <4>1, <4>2
    <3> QED
      BY <3>1, <3>2
  <2> QED
    BY <1>2, <2>1, <2>2, <2>3, <2>4 DEF e
<1> QED
  BY <1>2, <1>3

\* g walks as it should through the sets up to the height n.
WalksUpTo(off, end, S, g, n) ==
  /\ g = [s \in SUBSET S |-> g[s]]
  /\ \A s \in SUBSET S : Height(s) <= n => g[s] = WalkStep(off, end, g, s)

\* From one height to the next.
LEMMA WalksExtend ==
  ASSUME NEW off, NEW end, NEW S, S \subseteq VolumeExtents, Apart(S), NEW g, NEW n \in Nat,
         WalksUpTo(off, end, S, g, n)
  PROVE  \E h : WalksUpTo(off, end, S, h, n + 1)
<1> DEFINE h == [s \in SUBSET S |-> IF Height(s) <= n THEN g[s] ELSE WalkStep(off, end, g, s)]
<1>1. \A s \in SUBSET S : s \subseteq VolumeExtents /\ Apart(s)
  BY DEF Apart
<1>2. ASSUME NEW s \in SUBSET S, Height(s) <= n + 1 PROVE WalkStep(off, end, h, s) = WalkStep(off, end, g, s)
  <2>1. CASE s = {}
    BY <2>1 DEF WalkStep
  <2>2. CASE s # {}
    <3> DEFINE r == s \ {LastOf(s)}
    <3>1. Height(r) \in Nat /\ Height(s) \in Nat /\ Height(r) < Height(s) /\ r \in SUBSET S
      <4>1. r \subseteq VolumeExtents /\ Apart(r)
        BY <1>1
      <4> QED
        BY <1>1, <2>2, <4>1, Heights
    <3>2. h[r] = g[r]
      BY <1>2, <3>1
    <3> QED
      BY <2>2, <3>2 DEF WalkStep
  <2> QED
    BY <2>1, <2>2
<1>3. ASSUME NEW s \in SUBSET S, Height(s) <= n + 1 PROVE h[s] = WalkStep(off, end, g, s)
  BY DEF WalksUpTo
<1> HIDE DEF h
<1>4. h = [s \in SUBSET S |-> h[s]]
  BY DEF h
<1> QED
  BY <1>2, <1>3, <1>4 DEF WalksUpTo

\* There are walks up to every height.
LEMMA WalksForAll ==
  ASSUME NEW off, NEW end, NEW S, S \subseteq VolumeExtents, Apart(S), NEW n \in Nat
  PROVE  \E g : WalksUpTo(off, end, S, g, n)
<1> DEFINE Bad == {i \in Nat : ~\E g : WalksUpTo(off, end, S, g, i)}
<1>1. SUFFICES ASSUME Bad # {} PROVE FALSE
  OBVIOUS
<1>2. PICK i \in Bad : \A j \in Bad : i <= j
  BY <1>1, LeastNumber
<1>3. i # 0
  <2> DEFINE g == [s \in SUBSET S |-> [at |-> off, got |-> <<>>]]
  <2>1. ASSUME NEW s \in SUBSET S, Height(s) <= 0 PROVE g[s] = WalkStep(off, end, g, s)
    <3>1. s = {}
      <4>1. s \subseteq VolumeExtents /\ Apart(s)
        BY DEF Apart
      <4>2. Height(s) \in Nat /\ (s # {} => Height(s) > 0)
        BY <4>1, Heights
      <4> QED
        BY <2>1, <4>2
    <3> QED
      BY <3>1 DEF WalkStep
  <2>2. g = [s \in SUBSET S |-> g[s]]
    OBVIOUS
  <2> HIDE DEF g
  <2>3. WalksUpTo(off, end, S, g, 0)
    BY <2>1, <2>2 DEF WalksUpTo
  <2> QED
    BY <1>2, <2>3
<1>4. i - 1 \in Nat /\ i - 1 \notin Bad /\ (i - 1) + 1 = i
  BY <1>2, <1>3
<1>5. PICK g : WalksUpTo(off, end, S, g, i - 1)
  BY <1>4
<1>6. \E h : WalksUpTo(off, end, S, h, i)
  BY <1>4, <1>5, WalksExtend
<1> QED
  BY <1>2, <1>6

\* The walk that the read goes through takes the step of every set.
LEMMA WalksStepwise ==
  ASSUME NEW off, NEW end, NEW S, S \subseteq VolumeExtents, Apart(S)
  PROVE  \A s \in SUBSET S : Walks(off, end, S)[s] = WalkStep(off, end, Walks(off, end, S), s)
<1>1. VolumeBlocks \in Nat /\ \A s \in SUBSET S : Height(s) <= VolumeBlocks
  <2>1. \A s \in SUBSET S : s \subseteq VolumeExtents /\ Apart(s)
    BY DEF Apart
  <2> QED
    BY <2>1, Heights, VolumeAssumption
<1>2. PICK g : WalksUpTo(off, end, S, g, VolumeBlocks)
  BY <1>1, WalksForAll
<1>3. g = [s \in SUBSET S |-> WalkStep(off, end, g, s)]
  BY <1>1, <1>2 DEF WalksUpTo
<1>4. Walks(off, end, S) = [s \in SUBSET S |-> WalkStep(off, end, Walks(off, end, S), s)]
  BY <1>3 DEF Walks
<1> DEFINE W == Walks(off, end, S)
<1>5. W = [s \in SUBSET S |-> WalkStep(off, end, W, s)]
  BY <1>4
<1> HIDE DEF W
<1>6. \A s \in SUBSET S : W[s] = WalkStep(off, end, W, s)
  BY <1>5
<1> QED
  BY <1>6 DEF W

\* The values at the addresses a .. b - 1 of a volume with the content C.
Stretch(C, a, b) == [i \in 1 .. b - a |-> C[a + i - 1]]

\* Stretches that meet make one.
LEMMA StretchesJoin ==
  ASSUME NEW C, NEW a \in Nat, NEW b \in Nat, NEW c \in Nat, a <= b, b <= c
  PROVE  Stretch(C, a, b) \o Stretch(C, b, c) = Stretch(C, a, c)
<1> DEFINE s == Stretch(C, a, b)
           t == Stretch(C, b, c)
           u == Stretch(C, a, c)
<1>1. /\ b - a \in Nat /\ c - b \in Nat /\ c - a \in Nat /\ (b - a) + (c - b) = c - a
  OBVIOUS
<1>2. /\ s = [i \in 1 .. b - a |-> C[a + i - 1]] /\ t = [i \in 1 .. c - b |-> C[b + i - 1]]
      /\ u = [i \in 1 .. c - a |-> C[a + i - 1]]
  BY DEF Stretch
<1>3. Len(s) = b - a /\ Len(t) = c - b
  BY <1>1, <1>2
<1>4. s \o t = [i \in 1 .. Len(s) + Len(t) |-> IF i <= Len(s) THEN s[i] ELSE t[i - Len(s)]]
  BY <1>1, <1>2
<1>5. ASSUME NEW i \in 1 .. c - a PROVE u[i] = IF i <= b - a THEN s[i] ELSE t[i - (b - a)]
  <2>1. CASE i <= b - a
    BY <1>1, <1>2, <2>1
  <2>2. CASE i > b - a
    <3>1. i - (b - a) \in 1 .. c - b /\ b + (i - (b - a)) - 1 = a + i - 1
      BY <1>1, <2>2
    <3>2. t[i - (b - a)] = C[b + (i - (b - a)) - 1]
      BY <1>2, <3>1
    <3> QED
      BY <1>1, <1>2, <2>2, <3>1, <3>2
  <2> QED
    BY <1>1, <2>1, <2>2
<1> HIDE DEF s, t, u
<1>6. s \o t = [i \in 1 .. c - a |-> IF i <= b - a THEN s[i] ELSE t[i - (b - a)]]
  BY <1>1, <1>3, <1>4
<1>7. u = [i \in 1 .. c - a |-> u[i]]
  BY <1>2
<1>8. s \o t = u
  BY <1>5, <1>6, <1>7
<1> QED
  BY <1>8 DEF s, t, u

\* How far the walk is after the set s, and with what.
Reached(off, end, s) ==
  IF s = {} THEN off ELSE IF end < End(LastOf(s)) THEN end ELSE End(LastOf(s))

\* s has all extents of S before each of its own.
UpToHere(s, S) == \A e \in s : \A f \in S : f.off < e.off => f \in s

\* The extents S are those of a read of off .. end - 1 in a volume that holds C.
Found(off, end, S, C) ==
  /\ off \in Nat /\ end \in Nat /\ off < end
  /\ S \subseteq VolumeExtents /\ Apart(S)
  /\ \A e \in S : Overlaps(e, off, end)
  /\ \A e \in S : \A a \in Covers(e) : DataAt(e, a) = C[a]
  /\ \A a \in off .. end - 1 : (\A e \in S : a \notin Covers(e)) => C[a] = Zero

\* Where the walk is lies before the next extent or is the start, and no extent is
\* between.
LEMMA NextExtent ==
  ASSUME NEW off, NEW end, NEW S, NEW C, Found(off, end, S, C), NEW s \in SUBSET S, s # {}, UpToHere(s, S),
         NEW e, e = LastOf(s), NEW at, at = Reached(off, end, s \ {e})
  PROVE  /\ e \in S /\ UpToHere(s \ {e}, S)
         /\ at \in Nat /\ off <= at /\ at < end /\ at < End(e) /\ (at = off \/ at <= e.off)
         /\ \A f \in S : \A a \in Covers(f) : at <= a => e.off <= a
<1> DEFINE t == s \ {e}
<1>0. /\ off \in Nat /\ end \in Nat /\ off < end /\ S \subseteq VolumeExtents /\ Apart(S)
      /\ \A f \in S : f.off < end /\ End(f) > off
  BY DEF Found, Overlaps
<1>1. s \subseteq VolumeExtents /\ Apart(s) /\ t \subseteq VolumeExtents /\ Apart(t)
  BY <1>0 DEF Apart
<1>2. e \in s /\ e \in S /\ \A f \in t : f.off < e.off
  BY <1>1, Heights
<1>3. UpToHere(t, S)
  <2> SUFFICES ASSUME NEW g \in t, NEW f \in S, f.off < g.off PROVE f \in t
    BY DEF UpToHere
  <2>1. f \in s
    BY DEF UpToHere
  <2>2. f # e
    BY <1>0, <1>1, <1>2, ExtentFields
  <2> QED
    BY <2>1, <2>2
<1>4. ASSUME NEW f \in S, NEW a \in Covers(f), a < e.off PROVE f \in t /\ a < End(f) /\ a \in Nat /\ f.off <= a
  <2>1. a \in Nat /\ f.off <= a /\ a < End(f)
    BY <1>0, ExtentFields
  <2>2. f.off < e.off /\ f # e
    BY <1>0, <1>2, <1>4, <2>1, ExtentFields
  <2>3. f \in s
    BY <1>2, <2>2 DEF UpToHere
  <2> QED
    BY <2>1, <2>2, <2>3
<1>5. e.off \in Nat /\ End(e) \in Nat /\ e.off < end /\ off < End(e) /\ e.off < End(e)
  BY <1>0, <1>2, ExtentFields
<1>6. CASE t = {}
  <2>1. at = off
    BY <1>6 DEF Reached
  <2>2. \A f \in S : \A a \in Covers(f) : e.off <= a
    <3> SUFFICES ASSUME NEW f \in S, NEW a \in Covers(f) PROVE e.off <= a
      OBVIOUS
    <3>1. a \in Nat
      BY <1>0, ExtentFields
    <3> QED
      BY <1>4, <1>5, <1>6, <3>1
  <2> QED
    BY <1>0, <1>2, <1>3, <1>5, <2>1, <2>2
<1>7. CASE t # {}
  <2> DEFINE l == LastOf(t)
  <2>1. l \in t /\ \A f \in t : f.off <= l.off
    BY <1>1, <1>7, Heights
  <2>2. at = IF end < End(l) THEN end ELSE End(l)
    BY <1>7 DEF Reached
  <2> HIDE DEF l
  <2>3. l.off < e.off /\ l.off \in Nat /\ End(l) \in Nat /\ l.off < End(l) /\ off < End(l)
    BY <1>0, <1>1, <1>2, <2>1, ExtentFields
  <2>4. End(l) <= e.off
    BY <1>0, <1>2, <1>5, <2>1, <2>3 DEF Apart
  <2>5. at = End(l)
    BY <1>0, <1>5, <2>2, <2>3, <2>4
  <2>6. ASSUME NEW f \in S, NEW a \in Covers(f), at <= a PROVE e.off <= a
    <3>1. a \in Nat
      BY <1>0, ExtentFields
    <3>2. SUFFICES ASSUME a < e.off PROVE FALSE
      BY <1>5, <3>1
    <3>3. f \in t /\ a < End(f) /\ f.off <= a
      BY <1>4, <3>2
    <3>4. f.off <= l.off
      BY <2>1, <3>3
    <3>5. f = l \/ End(f) <= l.off \/ End(l) <= f.off
      BY <1>0, <2>1, <3>3 DEF Apart
    <3>6. f.off \in Nat /\ End(f) \in Nat
      BY <1>0, ExtentFields
    <3>7. f = l \/ End(f) <= l.off
      BY <2>3, <3>4, <3>5, <3>6
    <3> QED
      BY <2>3, <2>5, <2>6, <3>1, <3>3, <3>6, <3>7
  <2>7. at \in Nat /\ off <= at /\ at < end /\ at < End(e) /\ at <= e.off
    BY <1>0, <1>5, <2>3, <2>4, <2>5
  <2> QED
    BY <1>2, <1>3, <2>6, <2>7
<1> QED
  BY <1>6, <1>7

\* The step over one extent appends the hole before it and the part of it in the range.
LEMMA ExtentIsRead ==
  ASSUME NEW off, NEW end, NEW S, NEW C, Found(off, end, S, C), NEW s \in SUBSET S, s # {}, UpToHere(s, S),
         NEW e, e = LastOf(s), NEW at, at = Reached(off, end, s \ {e}), NEW to, to = Reached(off, end, s)
  PROVE  ReadExtent([at |-> at, got |-> Stretch(C, off, at)], e, end) = [at |-> to, got |-> Stretch(C, off, to)]
<1>0. /\ off \in Nat /\ end \in Nat /\ off < end /\ S \subseteq VolumeExtents
  BY DEF Found
<1>1. /\ e \in S /\ at \in Nat /\ off <= at /\ at < end /\ at < End(e) /\ (at = off \/ at <= e.off)
      /\ \A f \in S : \A a \in Covers(f) : at <= a => e.off <= a
  BY NextExtent
<1>2. e.off \in Nat /\ End(e) \in Nat /\ e.off < End(e) /\ e.off < end
  BY <1>0, <1>1, ExtentFields DEF Found, Overlaps
<1>3. to = IF end < End(e) THEN end ELSE End(e)
  BY DEF Reached
<1> DEFINE w == [at |-> at, got |-> Stretch(C, off, at)]
           first == IF at > e.off THEN at ELSE e.off
           gap == [i \in 1 .. (IF at < e.off THEN e.off - at ELSE 0) |-> Zero]
           data == [i \in 1 .. (to - 1) - first + 1 |-> DataAt(e, first + i - 1)]
<1>4. ReadExtent(w, e, end) = [at |-> (to - 1) + 1, got |-> (Stretch(C, off, at) \o gap) \o data]
  BY <1>3 DEF ReadExtent
<1>5. /\ first \in Nat /\ to \in Nat /\ first <= to /\ at <= first /\ (to - 1) - first + 1 = to - first
      /\ e.off <= first /\ to <= End(e) /\ to <= end /\ off <= to /\ (to - 1) + 1 = to
      /\ (IF at < e.off THEN e.off - at ELSE 0) = first - at
  BY <1>0, <1>1, <1>2, <1>3
<1>6. gap = Stretch(C, at, first)
  <2>1. ASSUME NEW i \in 1 .. first - at PROVE C[at + i - 1] = Zero
    <3> DEFINE a == at + i - 1
    <3>1. a \in Nat /\ a \in off .. end - 1 /\ at <= a /\ a < e.off
      BY <1>0, <1>1, <1>2, <1>5
    <3> HIDE DEF a
    <3>2. ~(e.off <= a)
      BY <1>2, <3>1
    <3>3. \A f \in S : a \notin Covers(f)
      BY <1>1, <3>1, <3>2
    <3>4. C[a] = Zero
      BY <3>1, <3>3 DEF Found
    <3> QED
      BY <3>4 DEF a
  <2>2. gap = [i \in 1 .. first - at |-> Zero]
    BY <1>5
  <2> HIDE DEF gap, first
  <2> QED
    BY <2>1, <2>2 DEF Stretch
<1>7. data = Stretch(C, first, to)
  <2>1. ASSUME NEW i \in 1 .. to - first PROVE DataAt(e, first + i - 1) = C[first + i - 1]
    <3>1. first + i - 1 \in Nat /\ e.off <= first + i - 1 /\ first + i - 1 < End(e)
      BY <1>2, <1>5
    <3>2. first + i - 1 \in Covers(e)
      BY <1>0, <1>1, <3>1, ExtentFields
    <3> QED
      BY <1>1, <3>2 DEF Found
  <2>2. data = [i \in 1 .. to - first |-> DataAt(e, first + i - 1)]
    BY <1>5
  <2> HIDE DEF data, first
  <2> QED
    BY <2>1, <2>2 DEF Stretch
<1> HIDE DEF gap, data, first
<1>8. Stretch(C, off, at) \o gap = Stretch(C, off, first)
  BY <1>0, <1>1, <1>5, <1>6, StretchesJoin
<1>9. Stretch(C, off, first) \o data = Stretch(C, off, to)
  <2>1. off <= first
    BY <1>0, <1>1, <1>5
  <2> QED
    BY <1>0, <1>5, <1>7, <2>1, StretchesJoin
<1> QED
  BY <1>4, <1>5, <1>8, <1>9

\* After the extents up to any one, the walk has the content up to where it is.
LEMMA WalkSoFar ==
  ASSUME NEW off, NEW end, NEW S, NEW C, Found(off, end, S, C), NEW s \in SUBSET S, UpToHere(s, S)
  PROVE  Walks(off, end, S)[s] = [at |-> Reached(off, end, s), got |-> Stretch(C, off, Reached(off, end, s))]
<1> DEFINE W == Walks(off, end, S)
           Good(r) == W[r] = [at |-> Reached(off, end, r), got |-> Stretch(C, off, Reached(off, end, r))]
           Bad == {i \in Nat : \E r \in SUBSET S : Height(r) = i /\ UpToHere(r, S) /\ ~Good(r)}
<1>0. S \subseteq VolumeExtents /\ Apart(S) /\ \A r \in SUBSET S : r \subseteq VolumeExtents /\ Apart(r)
  BY DEF Found, Apart
<1>1. \A r \in SUBSET S : W[r] = WalkStep(off, end, W, r)
  BY <1>0, WalksStepwise
<1> HIDE DEF W
<1>2. ASSUME Bad # {} PROVE FALSE
  <2>1. PICK i \in Bad : \A j \in Bad : i <= j
    BY <1>2, LeastNumber
  <2>2. PICK r \in SUBSET S : Height(r) = i /\ UpToHere(r, S) /\ ~Good(r)
    BY <2>1
  <2>3. CASE r = {}
    <3>1. off \in Nat
      BY DEF Found
    <3>2. Stretch(C, off, off) = <<>>
      BY <3>1 DEF Stretch
    <3> QED
      BY <1>1, <2>2, <2>3, <3>2 DEF WalkStep, Reached
  <2>4. CASE r # {}
    <3> DEFINE e == LastOf(r)
               t == r \ {e}
               at == Reached(off, end, t)
    <3>1. Height(t) \in Nat /\ Height(r) \in Nat /\ Height(t) < Height(r)
      <4>1. t \in SUBSET S
        OBVIOUS
      <4> QED
        BY <1>0, <2>4, <4>1, Heights
    <3>2. UpToHere(t, S)
      BY <2>2, <2>4, NextExtent
    <3>3. Good(t)
      <4>1. SUFFICES ASSUME ~Good(t) PROVE FALSE
        OBVIOUS
      <4>2. t \in SUBSET S
        OBVIOUS
      <4>3. Height(t) \in Bad
        BY <3>1, <3>2, <4>1, <4>2
      <4>4. i <= Height(t)
        BY <2>1, <4>3
      <4> QED
        BY <2>2, <3>1, <4>4
    <3>4. W[r] = ReadExtent(W[t], e, end)
      BY <1>1, <2>4 DEF WalkStep
    <3>5. ReadExtent([at |-> at, got |-> Stretch(C, off, at)], e, end)
            = [at |-> Reached(off, end, r), got |-> Stretch(C, off, Reached(off, end, r))]
      BY <2>2, <2>4, ExtentIsRead
    <3> QED
      BY <2>2, <3>3, <3>4, <3>5
  <2> QED
    BY <2>3, <2>4
<1>3. Height(s) \in Nat
  BY <1>0, Heights
<1>4. Good(s)
  BY <1>2, <1>3
<1> QED
  BY <1>4 DEF W

\* The volume, read from off to end.
LEMMA ReadsContent ==
  ASSUME NEW off, NEW end, NEW C, Found(off, end, Overlapped(off, end), C)
  PROVE  ReadVolume(off, end) = Stretch(C, off, end)
<1> DEFINE S == Overlapped(off, end)
           to == Reached(off, end, S)
           w == Walks(off, end, S)[S]
<1>0. /\ off \in Nat /\ end \in Nat /\ off < end /\ S \subseteq VolumeExtents /\ Apart(S)
      /\ \A e \in S : Overlaps(e, off, end)
      /\ \A a \in off .. end - 1 : (\A e \in S : a \notin Covers(e)) => C[a] = Zero
  BY DEF Found
<1>1. S \in SUBSET S /\ UpToHere(S, S)
  BY DEF UpToHere
<1>2. w = [at |-> to, got |-> Stretch(C, off, to)]
  BY <1>1, WalkSoFar
<1>3. ReadVolume(off, end) = w.got \o [i \in 1 .. end - w.at |-> Zero]
  BY ReadIsWalk
<1> HIDE DEF w
<1>4. ReadVolume(off, end) = Stretch(C, off, to) \o [i \in 1 .. end - to |-> Zero]
  BY <1>2, <1>3
<1>5. to \in Nat /\ off <= to /\ to <= end /\ \A e \in S : \A a \in Covers(e) : a < end => a < to
  <2>1. CASE S = {}
    BY <1>0, <2>1 DEF Reached
  <2>2. CASE S # {}
    <3> DEFINE l == LastOf(S)
    <3>1. l \in S /\ (\A f \in S : f.off <= l.off) /\ to = IF end < End(l) THEN end ELSE End(l)
      BY <1>0, <2>2, Heights DEF Reached
    <3> HIDE DEF l, to
    <3>2. l.off \in Nat /\ End(l) \in Nat /\ l.off < End(l) /\ off < End(l)
      BY <1>0, <3>1, ExtentFields DEF Overlaps
    <3>3. ASSUME NEW e \in S, NEW a \in Covers(e), a < end PROVE a < to
      <4>1. a \in Nat /\ e.off \in Nat /\ End(e) \in Nat /\ e.off < End(e) /\ a < End(e)
        BY <1>0, ExtentFields
      <4>2. e = l \/ End(e) <= l.off \/ End(l) <= e.off
        BY <1>0, <3>1 DEF Apart
      <4>3. e.off <= l.off
        BY <3>1
      <4>4. e = l \/ End(e) <= l.off
        BY <3>2, <4>1, <4>2, <4>3
      <4>5. a < End(l)
        BY <3>2, <4>1, <4>4
      <4> QED
        BY <3>1, <3>3, <4>5
    <3> QED
      BY <1>0, <3>1, <3>2, <3>3
  <2> QED
    BY <2>1, <2>2
<1> HIDE DEF to
<1>6. [i \in 1 .. end - to |-> Zero] = Stretch(C, to, end)
  <2>1. ASSUME NEW i \in 1 .. end - to PROVE C[to + i - 1] = Zero
    <3> DEFINE a == to + i - 1
    <3>1. a \in off .. end - 1 /\ a < end /\ ~(a < to)
      BY <1>0, <1>5
    <3> HIDE DEF a
    <3>2. \A e \in S : a \notin Covers(e)
      BY <1>5, <3>1
    <3>3. C[a] = Zero
      BY <1>0, <3>1, <3>2
    <3> QED
      BY <3>3 DEF a
  <2> QED
    BY <2>1 DEF Stretch
<1>7. Stretch(C, off, to) \o Stretch(C, to, end) = Stretch(C, off, end)
  BY <1>0, <1>5, StretchesJoin
<1> QED
  BY <1>4, <1>6, <1>7

\* A tree in order reads as what was last written.
LEMMA InOrderReads == ExtentInv => ReadsLastWrite
<1> SUFFICES ASSUME ExtentInv, NEW off \in Addresses, NEW end \in off + 1 .. VolumeBlocks
             PROVE  ReadVolume(off, end)
                      = [i \in 1 .. end - off |-> IF off + i - 1 \in cutOff THEN Zero ELSE written[off + i - 1]]
  BY DEF ReadsLastWrite
<1> DEFINE C == [a \in Addresses |-> IF a \in cutOff THEN Zero ELSE written[a]]
           S == Overlapped(off, end)
<1>1. off \in Nat /\ end \in Nat /\ off < end /\ end <= VolumeBlocks /\ off .. end - 1 \subseteq Addresses
  BY VolumeAssumption DEF Addresses
<1>2. S \subseteq extents /\ extents \subseteq VolumeExtents /\ \A e \in extents : e \in S <=> Overlaps(e, off, end)
  BY DEF Overlapped, ExtentInv, ExtentTypes
<1>3. Apart(S)
  BY <1>2 DEF ExtentInv, Disjoint, Apart
<1>4. \A e \in S : \A a \in Covers(e) : DataAt(e, a) = C[a]
  BY <1>2, ExtentFields DEF ExtentInv, Current
<1>5. ASSUME NEW a \in off .. end - 1, \A e \in S : a \notin Covers(e) PROVE C[a] = Zero
  <2>1. \A e \in extents : a \notin Covers(e)
    BY <1>1, <1>2, <1>5, OverlapMeets
  <2> QED
    BY <1>1, <2>1 DEF ExtentInv, Blank
<1>6. \A i \in 1 .. end - off : C[off + i - 1] = IF off + i - 1 \in cutOff THEN Zero ELSE written[off + i - 1]
  BY <1>1
<1> HIDE DEF C
<1>7. Found(off, end, S, C)
  BY <1>1, <1>2, <1>3, <1>4, <1>5 DEF Found
<1>8. ReadVolume(off, end) = Stretch(C, off, end)
  BY <1>7, ReadsContent
<1> QED
  BY <1>6, <1>8 DEF Stretch

\* For any volume and any sequence of inserts and removals, a read of any range
\* returns what was last written or discarded there, but for what inserts cut off
\* (extent.rs and the walk of thin.rs).
THEOREM ReadsWhatWasWritten == ExtentSpec => []ReadsLastWrite
<1>1. ExtentSpec => []ExtentInv
  BY ExtentInitial, ExtentPreserved, PTL DEF ExtentSpec
<1> QED
  BY <1>1, InOrderReads, PTL

==============================================================================
