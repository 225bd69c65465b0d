------------------------------ MODULE ThinPool ------------------------------
(***************************************************************************)
(* The chunk allocation of a thin pool (warp-block, thin.rs).  Threads     *)
(* allocate and free chunks; the space check, the allocator and the count  *)
(* of allocated chunks are three accesses.                                 *)
(***************************************************************************)
EXTENDS Integers, Sequences, FiniteSets

CONSTANTS
  Allocators,   \* threads
  PoolChunks,   \* max_size in chunks; 0 for unlimited
  MaxChunkIds   \* bound: chunk ids that are handed out

ASSUME PoolAssumption ==
  /\ IsFiniteSet(Allocators)
  /\ PoolChunks \in Nat /\ MaxChunkIds \in Nat

VARIABLES
  chunkCount,   \* allocated_chunks
  nextChunk,    \* ChunkAllocator::next_id
  freeList,     \* ChunkAllocator::free_list
  ppc, ploc,    \* where each thread is, and its chunk
  owned,        \* the chunks each thread has been given
  crowd         \* history: the most threads that were inside allocate_chunk at once

poolVars == <<chunkCount, nextChunk, freeList, ppc, ploc, owned, crowd>>

PoolInit ==
  /\ chunkCount = 0
  /\ nextChunk = 1
  /\ freeList = <<>>
  /\ ppc = [t \in Allocators |-> "idle"]
  /\ ploc = [t \in Allocators |-> 0]
  /\ owned = [t \in Allocators |-> {}]
  /\ crowd = 0

Allocating == {t \in Allocators : ppc[t] \in {"allocate", "new", "count"}}

PGoto(t, label, chunk) ==
  /\ ppc' = [ppc EXCEPT ![t] = label]
  /\ ploc' = [ploc EXCEPT ![t] = chunk]

\* Mutant: a chunk is given out as long as the pool is not above its size.
SpaceCheckLate(t) ==
  /\ ppc[t] = "idle"
  /\ PoolChunks > 0 => chunkCount <= PoolChunks
  /\ crowd' = IF crowd > Cardinality(Allocating) THEN crowd ELSE Cardinality(Allocating) + 1
  /\ PGoto(t, "allocate", 0)
  /\ UNCHANGED <<chunkCount, nextChunk, freeList, owned>>

\* allocate_chunk fails without space and changes nothing.
SpaceCheck(t) ==
  /\ ppc[t] = "idle"
  /\ PoolChunks > 0 => chunkCount + 1 <= PoolChunks
  /\ crowd' = IF crowd > Cardinality(Allocating) THEN crowd ELSE Cardinality(Allocating) + 1
  /\ PGoto(t, "allocate", 0)
  /\ UNCHANGED <<chunkCount, nextChunk, freeList, owned>>

\* Mutant: the recycled id stays in the free list.
RecycleKept(t) ==
  /\ ppc[t] = "allocate"
  /\ freeList # <<>>
  /\ PGoto(t, "count", freeList[Len(freeList)])
  /\ UNCHANGED <<chunkCount, nextChunk, freeList, owned, crowd>>

\* ChunkAllocator::allocate: the last id of the free list, or a new one.
Recycle(t) ==
  /\ ppc[t] = "allocate"
  /\ freeList # <<>>
  /\ PGoto(t, "count", freeList[Len(freeList)])
  /\ freeList' = SubSeq(freeList, 1, Len(freeList) - 1)
  /\ UNCHANGED <<chunkCount, nextChunk, owned, crowd>>

\* The free list was found empty; it may have got an id since.
NewChunkSeen(t) ==
  /\ ppc[t] = "allocate"
  /\ freeList = <<>>
  /\ PGoto(t, "new", 0)
  /\ UNCHANGED <<chunkCount, nextChunk, freeList, owned, crowd>>

NewChunk(t) ==
  /\ ppc[t] = "new"
  /\ nextChunk <= MaxChunkIds
  /\ PGoto(t, "count", nextChunk)
  /\ nextChunk' = nextChunk + 1
  /\ UNCHANGED <<chunkCount, freeList, owned, crowd>>

CountChunk(t) ==
  /\ ppc[t] = "count"
  /\ chunkCount' = chunkCount + 1
  /\ owned' = [owned EXCEPT ![t] = @ \cup {ploc[t]}]
  /\ PGoto(t, "idle", 0)
  /\ UNCHANGED <<nextChunk, freeList, crowd>>

\* free_chunk looks nothing up: that a chunk is freed once, by who has it, is an
\* assumption on its callers.
FreeChunk(t, c) ==
  /\ ppc[t] = "idle"
  /\ c \in owned[t]
  /\ owned' = [owned EXCEPT ![t] = @ \ {c}]
  /\ freeList' = Append(freeList, c)
  /\ PGoto(t, "freed", 0)
  /\ UNCHANGED <<chunkCount, nextChunk, crowd>>

UncountChunk(t) ==
  /\ ppc[t] = "freed"
  /\ chunkCount' = chunkCount - 1
  /\ PGoto(t, "idle", 0)
  /\ UNCHANGED <<nextChunk, freeList, owned, crowd>>

PoolNext ==
  \E t \in Allocators :
    \/ SpaceCheck(t) \/ Recycle(t) \/ NewChunkSeen(t) \/ NewChunk(t) \/ CountChunk(t)
    \/ \E c \in owned[t] : FreeChunk(t, c)
    \/ UncountChunk(t)

PoolSpec == PoolInit /\ [][PoolNext]_poolVars

-----------------------------------------------------------------------------

\* Chunks somebody has, or has been given and not counted yet.
Given == ((UNION {owned[t] : t \in Allocators}) \cup {ploc[t] : t \in Allocators}) \ {0}

\* A chunk belongs to one volume at most, and never to one while it is free:
\* two volumes would write over each other's data (allocate, free).
ChunkHasOneOwner ==
  /\ \A t, u \in Allocators : t # u => (owned[t] \cup {ploc[t]}) \cap (owned[u] \cup {ploc[u]}) \subseteq {0}
  /\ \A i, j \in 1 .. Len(freeList) : freeList[i] \notin Given /\ (i # j => freeList[i] # freeList[j])

\* The pool goes over its size by at most one chunk less than there were threads
\* inside allocate_chunk at once, and never when they came one after the other:
\* the space check is not one step with the allocation (thin.rs:86).
PoolOverrunBounded ==
  (PoolChunks > 0 /\ crowd > 0) => Cardinality(Given) <= PoolChunks + crowd - 1
=============================================================================
