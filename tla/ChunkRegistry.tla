---------------------------- MODULE ChunkRegistry ----------------------------
(***************************************************************************)
(* The deduplication registry and its garbage collector (warp-chonkers,    *)
(* dedup/registry.rs and dedup/gc.rs).                                     *)
(*                                                                         *)
(* Threads register chunks for versions, drop versions and collect         *)
(* garbage.  The maps are concurrent and held for one access at a time;    *)
(* register keeps the read guard of a chunk it found while it links it to  *)
(* the version, which is the only guard that spans two steps.              *)
(***************************************************************************)
EXTENDS Integers, FiniteSets

CONSTANTS
  Threads, Chunks, Versions,
  NoVersion,
  MaxU32,         \* the scaled u32::MAX of the reference count
  MaxRegisters    \* bound: calls of register

ASSUME RegistryConstants ==
  /\ IsFiniteSet(Threads) /\ IsFiniteSet(Versions) /\ NoVersion \notin Versions
  /\ MaxRegisters \in Nat /\ MaxU32 \in Nat /\ MaxU32 > MaxRegisters

Absent == -1      \* no metadata for this chunk

VARIABLES
  count,     \* chunks: the ref_count of each chunk's metadata, or Absent
  links,     \* version_chunks
  stored,    \* the chunks whose data the chunk store holds
  pending,   \* the collector's pending list
  aged,      \* the pending chunks that are older than min_age
  protected, \* the collector's protected_versions
  rpc, rloc, \* where each thread is, and its locals
  registers, \* calls of register so far that did not fail
  racedChunks  \* history: chunks that met one of the races named at Race

storeVars == <<count, links, stored>>
gcVars    == <<pending, aged, protected>>
registryVars == <<storeVars, gcVars, rpc, rloc, registers, racedChunks>>

NoRegistryWork == [chunk |-> "none", version |-> NoVersion, old |-> Absent,
                   todo |-> {}, done |-> {},    \* the chunks left, and those dealt with
                   caller |-> "none"]           \* who called collect_garbage

RGoto(t, label, work) == rpc' = [rpc EXCEPT ![t] = label] /\ rloc' = [rloc EXCEPT ![t] = work]
RReturn(t) == RGoto(t, "idle", NoRegistryWork)

\* The map entry of a chunk cannot be replaced or removed while a thread that
\* found it still holds its guard.
ChunkUnguarded(c) == \A t \in Threads : ~(rpc[t] \in {"reg_link", "dec_reset"} /\ rloc[t].chunk = c)

\* A thread is inside register for this chunk and version.
Registering(c, v) ==
  \E t \in Threads : /\ rpc[t] \in {"reg_link", "reg_insert", "reg_new_link"}
                     /\ rloc[t].chunk = c /\ rloc[t].version = v

\* A thread has looked the chunk up and not yet linked it to its version.
InRegister(c) == \E v \in Versions : Registering(c, v)

\* A thread has removed the chunk's metadata and is about to delete its data.
Deleting(u, c) == rpc[u] = "gc_delete" /\ rloc[u].chunk = c

\* Calls can get in each other's way in six places, and each of them is recorded
\* for the chunk it concerns: a version registers the chunk a second time; the
\* chunk is registered while a collector has it on its list; new metadata replaces
\* metadata that another thread has inserted; the collector deletes data that has
\* been stored again, or puts metadata back over newer metadata; a second
\* collector takes the chunk for deleted, or deletes it, while the first one's
\* deletion can still fail.
Race(c, happened) == racedChunks' = IF happened THEN racedChunks \cup {c} ELSE racedChunks

-----------------------------------------------------------------------------
RegistryInit ==
  /\ count = [c \in Chunks |-> Absent]
  /\ links = [v \in Versions |-> {}]
  /\ stored = {}
  /\ pending = {} /\ aged = {}
  /\ rpc = [t \in Threads |-> "idle"]
  /\ rloc = [t \in Threads |-> NoRegistryWork]
  /\ registers = 0
  /\ protected = {} /\ racedChunks = {}

(* register *)

Register(t, c, v) ==
  /\ rpc[t] = "idle"
  /\ registers < MaxRegisters
  /\ registers' = registers + 1
  /\ Race(c, \/ c \in links[v] \/ Registering(c, v)
             \/ \E u \in Threads : rpc[u] \in {"gc", "gc_delete"} /\ c \in rloc[u].todo)

\* Mutant: the reference is not counted when the version's set exists already.
RegisterNoCount(t, c, v) ==
  /\ Register(t, c, v)
  /\ count[c] # Absent
  /\ count' = IF links[v] # {} THEN count ELSE [count EXCEPT ![c] = @ + 1]
  /\ RGoto(t, "reg_link", [NoRegistryWork EXCEPT !.chunk = c, !.version = v])
  /\ UNCHANGED <<links, stored, gcVars>>

RegisterKnown(t, c, v) ==
  /\ Register(t, c, v)
  /\ count[c] # Absent
  /\ count' = [count EXCEPT ![c] = (@ + 1) % (MaxU32 + 1)]
  /\ RGoto(t, "reg_link", [NoRegistryWork EXCEPT !.chunk = c, !.version = v])
  /\ UNCHANGED <<links, stored, gcVars>>

RegisterStore(t, c, v) ==
  /\ Register(t, c, v)
  /\ count[c] = Absent
  /\ stored' = stored \cup {c}
  /\ RGoto(t, "reg_insert", [NoRegistryWork EXCEPT !.chunk = c, !.version = v])
  /\ UNCHANGED <<count, links, gcVars>>

\* The chunk store returns an error, and register with it: nothing has changed.
StoreFails(t, c) ==
  /\ rpc[t] = "idle"
  /\ count[c] = Absent
  /\ UNCHANGED registryVars

\* The new metadata replaces any that is there by now.
RegisterInsert(t) ==
  /\ rpc[t] = "reg_insert"
  /\ ChunkUnguarded(rloc[t].chunk)
  /\ count' = [count EXCEPT ![rloc[t].chunk] = 1]
  /\ Race(rloc[t].chunk, count[rloc[t].chunk] # Absent)
  /\ RGoto(t, "reg_new_link", rloc[t])
  /\ UNCHANGED <<links, stored, registers, gcVars>>

RegisterLink(t) ==
  /\ rpc[t] \in {"reg_link", "reg_new_link"}
  /\ links' = [links EXCEPT ![rloc[t].version] = @ \cup {rloc[t].chunk}]
  /\ RReturn(t)
  /\ UNCHANGED <<count, stored, registers, racedChunks, gcVars>>

(* unregister_version, and mark_unreferenced with what it returns *)

Unregister(t, v) ==
  /\ rpc[t] = "idle"
  /\ links[v] # {}
  /\ links' = [links EXCEPT ![v] = {}]
  /\ RGoto(t, "unreg", [NoRegistryWork EXCEPT !.todo = links[v]])
  /\ UNCHANGED <<count, stored, registers, racedChunks, gcVars>>

\* dec_ref of the next chunk: a fetch_sub, followed by a store of 0 when the
\* count wrapped around.
DecRef(t, c) ==
  /\ rpc[t] = "unreg"
  /\ c \in rloc[t].todo
  /\ count' = [count EXCEPT ![c] = IF @ = Absent THEN Absent ELSE (@ - 1) % (MaxU32 + 1)]
  /\ RGoto(t, IF count[c] = 0 THEN "dec_reset" ELSE "unreg",
          [rloc[t] EXCEPT !.chunk = c, !.todo = @ \ {c},
                         !.done = IF count[c] \in {0, 1} THEN @ \cup {c} ELSE @])
  /\ UNCHANGED <<links, stored, registers, racedChunks, gcVars>>

DecReset(t) ==
  /\ rpc[t] = "dec_reset"
  /\ count' = [count EXCEPT ![rloc[t].chunk] = 0]
  /\ RGoto(t, "unreg", rloc[t])
  /\ UNCHANGED <<links, stored, registers, racedChunks, gcVars>>

UnregisterDone(t) ==
  /\ rpc[t] = "unreg"
  /\ rloc[t].todo = {}
  /\ pending' = pending \cup rloc[t].done
  /\ RReturn(t)
  /\ UNCHANGED <<storeVars, registers, racedChunks, aged, protected>>

(* GarbageCollector::collect *)

\* min_age passes for a pending chunk.
Age(c) ==
  /\ c \in pending \ aged
  /\ aged' = aged \cup {c}
  /\ UNCHANGED <<storeVars, pending, protected, rpc, rloc, registers, racedChunks>>

\* Mutant: the pending chunks are deleted, referenced again or not.
CollectPending(t, caller) ==
  /\ rpc[t] = "idle"
  /\ RGoto(t, "gc", [NoRegistryWork EXCEPT !.caller = caller, !.todo = aged])
  /\ UNCHANGED <<storeVars, registers, racedChunks, gcVars>>

\* The registry deletes every chunk that is unreferenced now, whatever the
\* collector has on its list.
CollectGarbage(t, caller) ==
  /\ rpc[t] = "idle"
  /\ RGoto(t, "gc", [NoRegistryWork EXCEPT !.caller = caller, !.todo = {c \in Chunks : count[c] = 0}])
  /\ UNCHANGED <<storeVars, registers, racedChunks, gcVars>>

\* Nothing is eligible unless a pending chunk has aged.  (With dry_run, collect
\* only counts what it would delete and changes nothing.)
Collect(t) == aged # {} /\ CollectGarbage(t, "collect")

\* chunks.remove, whatever the count has become.
CollectRemove(t, c) ==
  /\ rpc[t] = "gc"
  /\ c \in rloc[t].todo
  /\ ChunkUnguarded(c)
  /\ count' = [count EXCEPT ![c] = Absent]
  /\ RGoto(t, IF count[c] = Absent THEN "gc" ELSE "gc_delete",
          [rloc[t] EXCEPT !.chunk = c, !.todo = @ \ {c}, !.old = count[c]])
  /\ UNCHANGED <<links, stored, registers, racedChunks, gcVars>>

CollectDelete(t) ==
  /\ rpc[t] = "gc_delete"
  /\ stored' = stored \ {rloc[t].chunk}
  /\ Race(rloc[t].chunk, \/ count[rloc[t].chunk] # Absent \/ InRegister(rloc[t].chunk)
                        \/ \E u \in Threads \ {t} : Deleting(u, rloc[t].chunk))
  /\ RGoto(t, "gc", rloc[t])
  /\ UNCHANGED <<count, links, registers, gcVars>>

\* The deletion failed: the metadata goes back, over whatever is there.
CollectFails(t) ==
  /\ rpc[t] = "gc_delete"
  /\ ChunkUnguarded(rloc[t].chunk)
  /\ count' = [count EXCEPT ![rloc[t].chunk] = rloc[t].old]
  /\ Race(rloc[t].chunk, count[rloc[t].chunk] # Absent)
  /\ RGoto(t, "gc", rloc[t])
  /\ UNCHANGED <<links, stored, registers, gcVars>>

\* collect then drops the chunks that are gone from its list.
CollectDone(t) ==
  /\ rpc[t] = "gc"
  /\ rloc[t].todo = {}
  /\ pending' = {c \in pending : rloc[t].caller = "collect" => count[c] # Absent}
  /\ aged' = aged \cap pending'
  /\ racedChunks' = racedChunks \cup {c \in pending \ pending' :
                           \E u \in Threads : Deleting(u, c)}
  /\ RReturn(t)
  /\ UNCHANGED <<storeVars, registers, protected>>

ClearPending(t) ==
  /\ rpc[t] = "idle"
  /\ pending # {}
  /\ pending' = {} /\ aged' = {}
  /\ UNCHANGED <<storeVars, rpc, rloc, registers, racedChunks, protected>>

\* protect_version and unprotect_version; collect does not look at the set.
Protect(t, v) ==
  /\ rpc[t] = "idle"
  /\ protected' = IF v \in protected THEN protected \ {v} ELSE protected \cup {v}
  /\ UNCHANGED <<storeVars, pending, aged, rpc, rloc, registers, racedChunks>>

-----------------------------------------------------------------------------
RegistryContinue(t) ==
  \/ RegisterInsert(t) \/ RegisterLink(t)
  \/ \E c \in Chunks : DecRef(t, c) \/ CollectRemove(t, c)
  \/ DecReset(t) \/ UnregisterDone(t)
  \/ CollectDelete(t) \/ CollectFails(t) \/ CollectDone(t)

RegistryNext ==
  \/ \E t \in Threads :
       \/ \E c \in Chunks, v \in Versions : RegisterKnown(t, c, v) \/ RegisterStore(t, c, v)
       \/ \E c \in Chunks : StoreFails(t, c)
       \/ \E v \in Versions : Unregister(t, v) \/ Protect(t, v)
       \/ Collect(t) \/ CollectGarbage(t, "user") \/ ClearPending(t)
       \/ RegistryContinue(t)
  \/ \E c \in Chunks : Age(c)

RegistrySpec == RegistryInit /\ [][RegistryNext]_registryVars

-----------------------------------------------------------------------------
(* Properties *)

\* The types; a count is a u32.
RegistryTypeOK ==
  /\ count \in [Chunks -> {Absent} \cup 0 .. MaxU32]
  /\ links \in [Versions -> SUBSET Chunks]
  /\ stored \subseteq Chunks
  /\ aged \subseteq pending /\ pending \subseteq Chunks
  /\ protected \subseteq Versions

AllReturned == \A t \in Threads : rpc[t] = "idle"
Users(c)    == {v \in Versions : c \in links[v]}

\* Counting is exact: when every call has returned, the reference count of a
\* chunk is the number of versions that contain it, whatever the calls did at the
\* same time short of the races named above (registry.rs:53 "Reference count
\* (atomic for thread safety)").  With the races too, no count is left wrapped
\* around: it is never above the number of registrations.
RefCountExact ==
  AllReturned =>
    /\ \A c \in Chunks \ racedChunks :
         IF count[c] = Absent THEN Users(c) = {} ELSE count[c] = Cardinality(Users(c))
    /\ \A c \in Chunks : count[c] <= registers

\* No data loss: the data of a chunk is there as long as a version contains the
\* chunk or its metadata is there, through every collection and failed deletion
\* short of the races named above (gc.rs:149 "Filter out chunks that are now
\* referenced again").
NoDataLoss ==
  AllReturned => \A c \in Chunks \ racedChunks : (Users(c) # {} \/ count[c] # Absent) => c \in stored
=============================================================================
