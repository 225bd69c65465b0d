----------------------------- MODULE CowBlocks -----------------------------
(***************************************************************************)
(* The copy-on-write blocks behind object snapshots (warp-store,           *)
(* snapshot/cow.rs): blocks that are deduplicated by checksum, counted by  *)
(* their references and cleaned up later.  Threads call the manager; a     *)
(* step is what a call does under one guard.                               *)
(***************************************************************************)
EXTENDS Integers, Sequences, FiniteSets

CONSTANTS
  CowThreads, Contents,
  Inline,        \* contents small enough to be stored inline
  CleanupBatch,  \* cleanup_batch_size
  MaxBlockIds,   \* bound: ids per counter
  MaxHeld,       \* bound: references to a block that users hold
  MaxPending     \* bound: entries of the list of pending deletes

ASSUME CowAssumption ==
  /\ IsFiniteSet(CowThreads) /\ Inline \subseteq Contents
  /\ {CleanupBatch, MaxBlockIds, MaxHeld, MaxPending} \subseteq Nat

VARIABLES
  cowBlocks,      \* block id |-> its content and reference count
  checksumIndex,  \* content |-> block id, 0 for none
  pendingDeletes,
  nextInline, nextExternal,  \* each constructor of CowBlock has its own counter
  cpc, cloc,      \* where each thread is, and its locals
  held,           \* history: the references users hold, per block and content
  raced,          \* history: a count changed after a cleanup saw that it was zero
  skipped         \* history: blocks that cleanup took off the list and left out

cowVars == <<cowBlocks, checksumIndex, pendingDeletes, nextInline, nextExternal,
             cpc, cloc, held, raced, skipped>>

BlockIds == 1 .. MaxBlockIds
NoBlock == [content |-> "none", refs |-> 0]
Present(id) == id \in BlockIds /\ cowBlocks[id] # NoBlock
NoWork == [content |-> "none", id |-> 0, todo |-> <<>>]

CowInit ==
  /\ cowBlocks = [id \in BlockIds |-> NoBlock]
  /\ checksumIndex = [c \in Contents |-> 0]
  /\ pendingDeletes = <<>>
  /\ nextInline = 1 /\ nextExternal = 1
  /\ cpc = [t \in CowThreads |-> "idle"]
  /\ cloc = [t \in CowThreads |-> NoWork]
  /\ held = [id \in BlockIds |-> [c \in Contents |-> 0]]
  /\ raced = FALSE
  /\ skipped = {}

CGoto(t, label, work) ==
  /\ cpc' = [cpc EXCEPT ![t] = label]
  /\ cloc' = [cloc EXCEPT ![t] = work]

Counted(id) ==
  raced' = (raced \/ \E t \in CowThreads :
              cpc[t] \in {"unindex", "delete"} /\ Head(cloc[t].todo) = id)
CleaningUp(t) == cpc[t] \in {"check", "unindex", "delete"}

Hold(id, c, n) == held' = [held EXCEPT ![id][c] = @ + n]

\* allocate_block, and the second half of copy_on_write: a block with the same
\* checksum gets one more reference, under the guards of its index entry and of it.
DedupHit(t, c) ==
  LET id == checksumIndex[c] IN
  /\ Present(id)
  /\ held[id][c] < MaxHeld
  /\ cowBlocks' = [cowBlocks EXCEPT ![id].refs = @ + 1]
  /\ Hold(id, c, 1) /\ Counted(id)
  /\ CGoto(t, "idle", NoWork)
  /\ UNCHANGED <<checksumIndex, pendingDeletes, nextInline, nextExternal, skipped>>

DedupMiss(t, c) ==
  /\ ~Present(checksumIndex[c])
  /\ CGoto(t, "create", [NoWork EXCEPT !.content = c])
  /\ UNCHANGED <<cowBlocks, checksumIndex, pendingDeletes, nextInline, nextExternal,
                 held, raced, skipped>>

\* With dedup_enabled, as in the default configuration.
AllocateBlock(t, c) == cpc[t] = "idle" /\ (DedupHit(t, c) \/ DedupMiss(t, c))

CreateBlock(t) ==
  LET c == cloc[t].content
      id == IF c \in Inline THEN nextInline ELSE nextExternal IN
  /\ cpc[t] = "create"
  /\ id <= MaxBlockIds
  /\ nextInline' = IF c \in Inline THEN id + 1 ELSE nextInline
  /\ nextExternal' = IF c \in Inline THEN nextExternal ELSE id + 1
  /\ checksumIndex' = [checksumIndex EXCEPT ![c] = id]
  /\ CGoto(t, "store", [cloc[t] EXCEPT !.id = id])
  /\ UNCHANGED <<cowBlocks, pendingDeletes, held, raced, skipped>>

StoreBlock(t) ==
  LET c == cloc[t].content
      id == cloc[t].id IN
  /\ cpc[t] = "store"
  /\ cowBlocks' = [cowBlocks EXCEPT ![id] = [content |-> c, refs |-> 1]]
  /\ Hold(id, c, 1)
  /\ CGoto(t, "idle", NoWork)
  /\ UNCHANGED <<checksumIndex, pendingDeletes, nextInline, nextExternal, raced, skipped>>

\* add_ref by a user that holds the block.
AddRef(t, id, c) ==
  /\ cpc[t] = "idle"
  /\ held[id][c] \in 1 .. MaxHeld - 1 /\ Present(id)
  /\ cowBlocks' = [cowBlocks EXCEPT ![id].refs = @ + 1]
  /\ Hold(id, c, 1) /\ Counted(id)
  /\ UNCHANGED <<checksumIndex, pendingDeletes, nextInline, nextExternal, cpc, cloc, skipped>>

\* Mutant: a block whose count reaches zero is not scheduled.
ReleaseUnscheduled(id, c) ==
  /\ held[id][c] > 0 /\ Present(id) /\ cowBlocks[id].refs > 0
  /\ Len(pendingDeletes) < MaxPending
  /\ cowBlocks' = [cowBlocks EXCEPT ![id].refs = @ - 1]
  /\ pendingDeletes' = pendingDeletes
  /\ Hold(id, c, -1) /\ Counted(id)

\* release_ref fails on a missing block and on one without references.
Release(id, c) ==
  /\ held[id][c] > 0 /\ Present(id) /\ cowBlocks[id].refs > 0
  /\ Len(pendingDeletes) < MaxPending
  /\ cowBlocks' = [cowBlocks EXCEPT ![id].refs = @ - 1]
  /\ pendingDeletes' = IF cowBlocks[id].refs = 1 THEN Append(pendingDeletes, id)
                                                ELSE pendingDeletes
  /\ Hold(id, c, -1) /\ Counted(id)

ReleaseRef(t, id, c) ==
  /\ cpc[t] = "idle"
  /\ Release(id, c)
  /\ UNCHANGED <<checksumIndex, nextInline, nextExternal, cpc, cloc, skipped>>

\* copy_on_write releases the old block, then allocates one for the new content.
CopyOnWrite(t, id, c, new) ==
  /\ cpc[t] = "idle"
  /\ Release(id, c)
  /\ CGoto(t, "copy", [NoWork EXCEPT !.content = new])
  /\ UNCHANGED <<checksumIndex, nextInline, nextExternal, skipped>>

CopyAllocates(t) ==
  /\ cpc[t] = "copy"
  /\ DedupHit(t, cloc[t].content) \/ DedupMiss(t, cloc[t].content)

\* cleanup takes the whole list and forgets what is beyond the batch.
Cleanup(t) ==
  LET n == IF Len(pendingDeletes) < CleanupBatch THEN Len(pendingDeletes) ELSE CleanupBatch IN
  /\ cpc[t] = "idle" /\ pendingDeletes # <<>>
  /\ CGoto(t, "check", [NoWork EXCEPT !.todo = SubSeq(pendingDeletes, 1, n)])
  /\ skipped' = skipped \cup {pendingDeletes[i] : i \in n + 1 .. Len(pendingDeletes)}
  /\ pendingDeletes' = <<>>
  /\ UNCHANGED <<cowBlocks, checksumIndex, nextInline, nextExternal, held, raced>>

\* Mutant: the count is not looked at again.
DeadAtHead(t) == Present(Head(cloc[t].todo))

\* A block that has been given a reference since it was scheduled stays.
Dead(t) == Present(Head(cloc[t].todo)) /\ cowBlocks[Head(cloc[t].todo)].refs = 0

NextToClean(t) == [cloc[t] EXCEPT !.todo = Tail(@)]

CheckBlock(t) ==
  /\ cpc[t] = "check"
  /\ \/ /\ cloc[t].todo = <<>>
        /\ CGoto(t, "idle", NoWork)
     \/ /\ cloc[t].todo # <<>> /\ Dead(t)
        /\ CGoto(t, "unindex", [cloc[t] EXCEPT !.content = cowBlocks[Head(cloc[t].todo)].content])
     \/ /\ cloc[t].todo # <<>> /\ ~Dead(t)
        /\ CGoto(t, "check", NextToClean(t))
  /\ UNCHANGED <<cowBlocks, checksumIndex, pendingDeletes, nextInline, nextExternal,
                 held, raced, skipped>>

Unindex(t) ==
  /\ cpc[t] = "unindex"
  /\ checksumIndex' = [checksumIndex EXCEPT ![cloc[t].content] = 0]
  /\ CGoto(t, "delete", cloc[t])
  /\ UNCHANGED <<cowBlocks, pendingDeletes, nextInline, nextExternal, held, raced, skipped>>

DeleteBlock(t) ==
  /\ cpc[t] = "delete"
  /\ cowBlocks' = [cowBlocks EXCEPT ![Head(cloc[t].todo)] = NoBlock]
  /\ CGoto(t, "check", NextToClean(t))
  /\ UNCHANGED <<checksumIndex, pendingDeletes, nextInline, nextExternal, held, raced, skipped>>

CowNext ==
  \E t \in CowThreads :
    \/ \E c \in Contents : AllocateBlock(t, c)
    \/ CreateBlock(t) \/ StoreBlock(t) \/ CopyAllocates(t)
    \/ \E id \in BlockIds, c \in Contents : AddRef(t, id, c) \/ ReleaseRef(t, id, c)
    \/ \E id \in BlockIds, c, new \in Contents : CopyOnWrite(t, id, c, new)
    \/ Cleanup(t) \/ CheckBlock(t) \/ Unindex(t) \/ DeleteBlock(t)

CowSpec == CowInit /\ [][CowNext]_cowVars

-----------------------------------------------------------------------------

\* A block that a snapshot holds is there with the content it had when it was
\* allocated and with a count of all its holders, however allocations, releases
\* and cleanups interleave, unless its count changed between a cleanup's look at it
\* and the removal (cow.rs:408 drops the guard before it removes) or the blocks
\* come from both id counters.
HeldBlockIsIntact ==
  (~raced /\ (Inline = Contents \/ Inline = {})) =>
    \A id \in BlockIds, c \in Contents : held[id][c] > 0 =>
      cowBlocks[id] = [content |-> c, refs |-> held[id][c]]

\* A block without references is waiting for a cleanup, or a cleanup took more
\* than one batch off the list and forgot it (cow.rs:398 truncates what it took).
DeadBlockIsScheduled ==
  \A id \in BlockIds : (Present(id) /\ cowBlocks[id].refs = 0) =>
    \/ \E i \in 1 .. Len(pendingDeletes) : pendingDeletes[i] = id
    \/ \E t \in CowThreads : CleaningUp(t)
         /\ \E i \in 1 .. Len(cloc[t].todo) : cloc[t].todo[i] = id
    \/ id \in skipped

\* A block id names one content: "Unique identifier for a COW block" (cow.rs:10).
BlockIdsUnique ==
  \A id \in BlockIds, c, d \in Contents : (held[id][c] > 0 /\ held[id][d] > 0) => c = d
=============================================================================
