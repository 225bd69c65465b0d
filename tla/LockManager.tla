----------------------------- MODULE LockManager -----------------------------
(***************************************************************************)
(* The byte-range lock manager that the NFS and SMB gateways share         *)
(* (warp-gateway-common, InMemoryLockManager).                             *)
(*                                                                         *)
(* Every method runs on some worker thread and is cut where another thread *)
(* can run: between two accesses to the concurrent maps.  A map guard that *)
(* the code keeps across such a point is a variable: acquire keeps the     *)
(* write guard of the file_locks shard of its file until it returns, and   *)
(* expire_locks keeps the write guard of one token_index shard after the   *)
(* other while the closure of retain reads file_locks.                     *)
(***************************************************************************)
EXTENDS GatewayClients

CONSTANTS
  LockFiles,   \* the files that are locked
  Sweepers,    \* worker threads that run expire_locks
  TokenShards, \* the shards of the DashMap token_index
  ShardOf,     \* the shard a token hashes to
  Offsets,     \* start offsets of the requests
  Lengths,     \* lengths of the requests; 0 means "to the end of the file"
  MaxU64,      \* the scaled u64::MAX
  Expiries,    \* the kinds of `expires` the requests carry
  MaxTokens,   \* bound: acquire calls in a behaviour
  NoLock,      \* no entry at this offset of the BTreeMap
  NoFile,      \* no entry for this token in token_index
  NoThread     \* the guard is free

ASSUME LockRangesAreU64 ==
  /\ MaxU64 \in Nat
  /\ Offsets \subseteq 0 .. MaxU64
  /\ Lengths \subseteq 0 .. MaxU64
ASSUME LockBoundIsNat == MaxTokens \in Nat
ASSUME LockExpiries == Expiries \subseteq {"Forever", "Timed"}
ASSUME LockShards == ShardOf \in [1 .. MaxTokens -> TokenShards]
ASSUME LockSentinels ==
  /\ NoFile \notin LockFiles
  /\ NoThread \notin Threads \cup Sweepers
  /\ Threads \cap Sweepers = {}

VARIABLES
  table,        \* file_locks: per file, the BTreeMap from offset to lock
  tokenIndex,   \* token_index
  ownerIndex,   \* owner_index
  nextToken,    \* next_token
  fileGuard,    \* holder of the write guard of a file's shard of file_locks
  tokenGuard,   \* holder of the write guard of a shard of token_index inside retain
  pc,           \* where each thread is
  loc,          \* the local variables of the call each thread runs
  granted       \* history: tokens returned by acquire and not given back

lockVars == <<table, tokenIndex, ownerIndex, nextToken, fileGuard, tokenGuard,
          pc, loc, granted>>

Tokens == 1 .. MaxTokens
Modes  == {"Shared", "Exclusive"}

\* `expires`: None, a deadline ahead, or a deadline that has passed.
Lives  == {"Forever", "Timed", "Expired"}

Lock == [token : Tokens, owner : Clients, offset : Offsets, length : Lengths,
         mode : Modes, life : Lives]

\* The locals of a running call; a field the call does not use keeps its value.
Locals == [token : Tokens \cup {0}, file : LockFiles \cup {NoFile},
           todo : SUBSET Tokens, files : SUBSET LockFiles, shards : SUBSET TokenShards]

NoLocals == [token |-> 0, file |-> NoFile, todo |-> {}, files |-> {}, shards |-> {}]

Pcs == {"idle", "acq_token", "acq_owner", "rel_file", "rel_owner", "rel_next",
        "upgrade", "downgrade", "exp_table", "exp_retain", "exp_tokens"}

-----------------------------------------------------------------------------
(* Ranges and conflicts *)

\* Mutant: length 0 is an empty range.
RangeEndEmpty(offset, length) ==
  IF offset + length > MaxU64 THEN MaxU64 ELSE offset + length

RangeEnd(offset, length) ==
  IF length = 0 \/ offset + length > MaxU64 THEN MaxU64 ELSE offset + length

\* Mutant: the comparison of the new range's start is lost.
OverlapsLeftOnly(o1, l1, o2, l2) == o1 < RangeEnd(o2, l2) /\ o1 >= o2

Overlaps(o1, l1, o2, l2) == o1 < RangeEnd(o2, l2) /\ o2 < RangeEnd(o1, l1)

ConflictsWith(lock, offset, length, mode) ==
  /\ Overlaps(lock.offset, lock.length, offset, length)
  /\ ~(lock.mode = "Shared" /\ mode = "Shared")

IsLive(lock) == lock.life # "Expired"

LocksOf(f) == {table[f][o] : o \in Offsets} \ {NoLock}

FindConflict(f, offset, length, mode, excluded) ==
  {k \in LocksOf(f) : /\ IsLive(k)
                      /\ k.owner \notin excluded
                      /\ ConflictsWith(k, offset, length, mode)}

\* retain(|_, lock| lock.token != token) on one file's map.
WithoutTokens(f, ts) ==
  [o \in Offsets |-> IF table[f][o] # NoLock /\ table[f][o].token \in ts
                     THEN NoLock ELSE table[f][o]]

Goto(t, label) == pc' = [pc EXCEPT ![t] = label]

-----------------------------------------------------------------------------
LockInit ==
  /\ table = [f \in LockFiles |-> [o \in Offsets |-> NoLock]]
  /\ tokenIndex = [k \in Tokens |-> NoFile]
  /\ ownerIndex = [w \in Clients |-> {}]
  /\ nextToken = 1
  /\ fileGuard = [f \in LockFiles |-> NoThread]
  /\ tokenGuard = [s \in TokenShards |-> NoThread]
  /\ pc = [t \in Threads \cup Sweepers |-> "idle"]
  /\ loc = [t \in Threads \cup Sweepers |-> NoLocals]
  /\ granted = {}

(* acquire *)

\* Mutant: `lock.token = token` is forgotten and the caller's placeholder stays.
AcquirePlaceholder(t, w, f, o, l, m, e) ==
  /\ pc[t] = "idle"
  /\ nextToken <= MaxTokens
  /\ fileGuard[f] = NoThread
  /\ nextToken' = nextToken + 1
  /\ FindConflict(f, o, l, m, {}) = {}
  /\ table' = [table EXCEPT ![f][o] =
       [token |-> 0, owner |-> w, offset |-> o, length |-> l,
        mode |-> m, life |-> e]]
  /\ UNCHANGED <<tokenIndex, ownerIndex, fileGuard, tokenGuard, pc, loc, granted>>

\* allocate_token, the conflict check and the insertion, under the guard of
\* the shard.  A conflict returns at once; the token is spent either way.
\* The BTreeMap is keyed by the offset alone: an entry there is replaced.
AcquireInsert(t, w, f, o, l, m, e) ==
  /\ pc[t] = "idle"
  /\ nextToken <= MaxTokens
  /\ fileGuard[f] = NoThread
  /\ nextToken' = nextToken + 1
  /\ IF FindConflict(f, o, l, m, {}) # {}
     THEN UNCHANGED <<table, fileGuard, pc, loc>>
     ELSE /\ table' = [table EXCEPT ![f][o] =
               [token |-> nextToken, owner |-> w, offset |-> o, length |-> l,
                mode |-> m, life |-> e]]
          /\ fileGuard' = [fileGuard EXCEPT ![f] = t]
          /\ loc' = [loc EXCEPT ![t] =
               [NoLocals EXCEPT !.token = nextToken, !.file = f]]
          /\ Goto(t, "acq_token")
  /\ UNCHANGED <<tokenIndex, ownerIndex, tokenGuard, granted>>

AcquireIndexToken(t) ==
  /\ pc[t] = "acq_token"
  /\ tokenGuard[ShardOf[loc[t].token]] = NoThread
  /\ tokenIndex' = [tokenIndex EXCEPT ![loc[t].token] = loc[t].file]
  /\ Goto(t, "acq_owner")
  /\ UNCHANGED <<table, ownerIndex, nextToken, fileGuard, tokenGuard, loc, granted>>

\* The lock this thread has just inserted names the owner.
OwnerOf(t) ==
  (CHOOSE k \in LocksOf(loc[t].file) : k.token = loc[t].token).owner

AcquireIndexOwner(t) ==
  /\ pc[t] = "acq_owner"
  /\ ownerIndex' = [ownerIndex EXCEPT ![OwnerOf(t)] = @ \cup {loc[t].token}]
  /\ fileGuard' = [fileGuard EXCEPT ![loc[t].file] = NoThread]
  /\ granted' = granted \cup {loc[t].token}
  /\ Goto(t, "idle")
  /\ loc' = [loc EXCEPT ![t] = NoLocals]
  /\ UNCHANGED <<table, tokenIndex, nextToken, tokenGuard>>

(* release and release_all *)

\* release returns; release_all goes on with the tokens it has left.
ReleaseEnds(t, rest) ==
  /\ Goto(t, IF rest # {} THEN "rel_next" ELSE "idle")
  /\ loc' = [loc EXCEPT ![t] = [NoLocals EXCEPT !.todo = rest]]

\* The first statement of release: the token leaves token_index; a token that
\* is not there is NotFound and the call ends.
ReleaseToken(t, token, rest) ==
  /\ tokenGuard[ShardOf[token]] = NoThread
  /\ tokenIndex' = [tokenIndex EXCEPT ![token] = NoFile]
  /\ \/ /\ tokenIndex[token] # NoFile
        /\ loc' = [loc EXCEPT ![t] = [NoLocals EXCEPT
                 !.token = token, !.file = tokenIndex[token], !.todo = rest]]
        /\ Goto(t, "rel_file")
     \/ /\ tokenIndex[token] = NoFile
        /\ ReleaseEnds(t, rest)

\* Any token may be given, known to the client or not.
ReleaseLock(t, token) ==
  /\ pc[t] = "idle"
  /\ granted' = granted \ {token}
  /\ ReleaseToken(t, token, {})
  /\ UNCHANGED <<table, ownerIndex, nextToken, fileGuard, tokenGuard>>

ReleaseFromFile(t) ==
  /\ pc[t] = "rel_file"
  /\ fileGuard[loc[t].file] = NoThread
  /\ table' = [table EXCEPT ![loc[t].file] =
                 WithoutTokens(loc[t].file, {loc[t].token})]
  /\ Goto(t, "rel_owner")
  /\ UNCHANGED <<tokenIndex, ownerIndex, nextToken, fileGuard, tokenGuard,
                 loc, granted>>

ReleaseFromOwners(t) ==
  /\ pc[t] = "rel_owner"
  /\ ownerIndex' = [w \in Clients |-> ownerIndex[w] \ {loc[t].token}]
  /\ ReleaseEnds(t, loc[t].todo)
  /\ UNCHANGED <<table, tokenIndex, nextToken, fileGuard, tokenGuard, granted>>

\* The owner's entry leaves owner_index, then every token in it is released.
ReleaseAll(t, w) ==
  /\ pc[t] = "idle"
  /\ ownerIndex[w] # {}
  /\ loc' = [loc EXCEPT ![t] = [NoLocals EXCEPT !.todo = ownerIndex[w]]]
  /\ ownerIndex' = [ownerIndex EXCEPT ![w] = {}]
  /\ granted' = granted \ ownerIndex[w]
  /\ Goto(t, "rel_next")
  /\ UNCHANGED <<table, tokenIndex, nextToken, fileGuard, tokenGuard>>

\* Mutant: a token whose lock is already gone stays in the list.
ReleaseRestStuck(t) ==
  /\ pc[t] = "rel_next"
  /\ \E token \in loc[t].todo :
       ReleaseToken(t, token, IF tokenIndex[token] = NoFile THEN loc[t].todo
                              ELSE loc[t].todo \ {token})
  /\ UNCHANGED <<table, ownerIndex, nextToken, fileGuard, tokenGuard, granted>>

ReleaseRest(t) ==
  /\ pc[t] = "rel_next"
  /\ \E token \in loc[t].todo : ReleaseToken(t, token, loc[t].todo \ {token})
  /\ UNCHANGED <<table, ownerIndex, nextToken, fileGuard, tokenGuard, granted>>

(* upgrade and downgrade *)

\* token_index.get: a token that is gone is NotFound.
ModeLookup(t, token, label) ==
  /\ pc[t] = "idle"
  /\ label \in {"upgrade", "downgrade"}
  /\ tokenGuard[ShardOf[token]] = NoThread
  /\ tokenIndex[token] # NoFile
  /\ loc' = [loc EXCEPT ![t] =
               [NoLocals EXCEPT !.token = token, !.file = tokenIndex[token]]]
  /\ Goto(t, label)
  /\ UNCHANGED <<table, tokenIndex, ownerIndex, nextToken, fileGuard,
                 tokenGuard, granted>>

\* Under the file's guard the lock is looked up again, since it may be gone by
\* now, and its mode is set.
SetMode(t, label, mode, locks) ==
  LET f == loc[t].file
  IN /\ pc[t] = label
     /\ fileGuard[f] = NoThread
     /\ table' = [table EXCEPT ![f] =
          [o \in Offsets |-> IF table[f][o] \in locks
                             THEN [table[f][o] EXCEPT !.mode = mode]
                             ELSE table[f][o]]]
     /\ Goto(t, "idle")
     /\ loc' = [loc EXCEPT ![t] = NoLocals]
     /\ UNCHANGED <<tokenIndex, ownerIndex, nextToken, fileGuard, tokenGuard,
                    granted>>

Downgradable(t) == {k \in LocksOf(loc[t].file) : k.token = loc[t].token}

\* Locks of the same owner do not stand in the way.
Upgradable(t) ==
  {k \in Downgradable(t) :
     FindConflict(loc[t].file, k.offset, k.length, "Exclusive", {k.owner}) = {}}

Upgrade(t)   == SetMode(t, "upgrade", "Exclusive", Upgradable(t))
Downgrade(t) == SetMode(t, "downgrade", "Shared", Downgradable(t))

(* expire_locks *)

ExpireStart(t) ==
  /\ pc[t] = "idle"
  /\ Goto(t, "exp_table")
  /\ loc' = [loc EXCEPT ![t] = [NoLocals EXCEPT !.files = LockFiles, !.shards = TokenShards]]
  /\ UNCHANGED <<table, tokenIndex, ownerIndex, nextToken, fileGuard,
                 tokenGuard, granted>>

\* One step of `for entry in file_locks.iter()`.
ExpireFile(t, f) ==
  /\ pc[t] = "exp_table"
  /\ f \in loc[t].files
  /\ fileGuard[f] = NoThread
  /\ table' = [table EXCEPT ![f] =
                 WithoutTokens(f, {k.token : k \in {x \in LocksOf(f) : ~IsLive(x)}})]
  /\ loc' = [loc EXCEPT ![t].files = @ \ {f}]
  /\ Goto(t, IF loc[t].files = {f} THEN "exp_retain" ELSE "exp_table")
  /\ UNCHANGED <<tokenIndex, ownerIndex, nextToken, fileGuard, tokenGuard, granted>>

\* token_index.retain takes the write guard of one shard after the other and
\* visits every token in it.
ExpireRetain(t, s) ==
  /\ pc[t] = "exp_retain"
  /\ s \in loc[t].shards
  /\ tokenGuard[s] = NoThread
  /\ tokenGuard' = [tokenGuard EXCEPT ![s] = t]
  /\ loc' = [loc EXCEPT ![t] = [NoLocals EXCEPT
       !.todo = {k \in Tokens : tokenIndex[k] # NoFile /\ ShardOf[k] = s},
       !.shards = loc[t].shards \ {s}]]
  /\ Goto(t, "exp_tokens")
  /\ UNCHANGED <<table, tokenIndex, ownerIndex, nextToken, fileGuard, granted>>

\* The closure of retain: it reads files in the map's order until it finds the
\* token, and has to wait for the guard of every file it reads.
Located(token, fs) == \E f \in fs : \E k \in LocksOf(f) : k.token = token

\* Mutant: the files are only tried, and a file whose guard is taken is skipped.
ExpireTokenTry(t, token) ==
  /\ pc[t] = "exp_tokens"
  /\ token \in loc[t].todo
  /\ tokenIndex' = IF Located(token, {f \in LockFiles : fileGuard[f] = NoThread})
                   THEN tokenIndex
                   ELSE [tokenIndex EXCEPT ![token] = NoFile]
  /\ loc' = [loc EXCEPT ![t].todo = @ \ {token}]
  /\ UNCHANGED <<table, ownerIndex, nextToken, fileGuard, tokenGuard, pc, granted>>

ExpireToken(t, token) ==
  /\ pc[t] = "exp_tokens"
  /\ token \in loc[t].todo
  /\ \E read \in SUBSET LockFiles :
       /\ \A f \in read : fileGuard[f] = NoThread
       /\ read = LockFiles \/ Located(token, read)
       /\ tokenIndex' = IF Located(token, read) THEN tokenIndex
                        ELSE [tokenIndex EXCEPT ![token] = NoFile]
  /\ loc' = [loc EXCEPT ![t].todo = @ \ {token}]
  /\ UNCHANGED <<table, ownerIndex, nextToken, fileGuard, tokenGuard, pc, granted>>

\* A shard is done; after the last one the sweep returns.
ExpireDone(t) ==
  /\ pc[t] = "exp_tokens"
  /\ loc[t].todo = {}
  /\ tokenGuard' = [s \in TokenShards |-> IF tokenGuard[s] = t THEN NoThread
                                          ELSE tokenGuard[s]]
  /\ Goto(t, IF loc[t].shards = {} THEN "idle" ELSE "exp_retain")
  /\ UNCHANGED <<table, tokenIndex, ownerIndex, nextToken, fileGuard, loc, granted>>

\* A deadline passes.
DeadlinePasses(f, o) ==
  /\ table[f][o] # NoLock
  /\ table[f][o].life = "Timed"
  /\ table' = [table EXCEPT ![f][o].life = "Expired"]
  /\ UNCHANGED <<tokenIndex, ownerIndex, nextToken, fileGuard, tokenGuard, pc,
                 loc, granted>>

-----------------------------------------------------------------------------
Finish(t) ==
  \/ AcquireIndexToken(t)
  \/ AcquireIndexOwner(t)
  \/ ReleaseFromFile(t)
  \/ ReleaseFromOwners(t)
  \/ ReleaseRest(t)
  \/ Upgrade(t)
  \/ Downgrade(t)

Call(t) ==
  \/ \E w \in Clients, f \in LockFiles, o \in Offsets, l \in Lengths, m \in Modes,
        e \in Expiries : AcquireInsert(t, w, f, o, l, m, e)
  \/ \E token \in Tokens : ReleaseLock(t, token)
  \/ \E w \in Clients : ReleaseAll(t, w)
  \/ \E token \in Tokens, label \in {"upgrade", "downgrade"} :
        ModeLookup(t, token, label)

Sweep(t) ==
  \/ ExpireStart(t)
  \/ \E f \in LockFiles : ExpireFile(t, f)
  \/ \E s \in TokenShards : ExpireRetain(t, s)
  \/ \E token \in Tokens : ExpireToken(t, token)
  \/ ExpireDone(t)

LockNext ==
  \/ \E t \in Threads : Call(t) \/ Finish(t)
  \/ \E t \in Sweepers : Sweep(t)
  \/ \E f \in LockFiles, o \in Offsets : DeadlinePasses(f, o)

LockSpec == LockInit /\ [][LockNext]_lockVars

\* A worker that is inside a call, and a sweep that has begun, keep running: the
\* runtime schedules every runnable task, and a guard that is free again and
\* again is obtained in the end.  Nobody has to call or to start a sweep.
LockFairness ==
  /\ \A t \in Threads : SF_lockVars(Finish(t))
  /\ \A t \in Sweepers : SF_lockVars(Sweep(t) /\ pc[t] # "idle")

-----------------------------------------------------------------------------
(* Properties *)

\* Types; a lock in the table carries a token that acquire has drawn, never the
\* placeholder its caller built it with.
TypeOK ==
  /\ table \in [LockFiles -> [Offsets -> Lock \cup {NoLock}]]
  /\ tokenIndex \in [Tokens -> LockFiles \cup {NoFile}]
  /\ ownerIndex \in [Clients -> SUBSET Tokens]
  /\ nextToken \in 1 .. MaxTokens + 1
  /\ fileGuard \in [LockFiles -> Threads \cup {NoThread}]
  /\ tokenGuard \in [TokenShards -> Sweepers \cup {NoThread}]
  /\ pc \in [Threads \cup Sweepers -> Pcs]
  /\ loc \in [Threads \cup Sweepers -> Locals]
  /\ granted \in SUBSET Tokens

\* A request that is about to publish a lock has drawn its token.
LocalsOK ==
  \A t \in Threads : pc[t] \in {"acq_token", "acq_owner"} => loc[t].token \in Tokens

\* Mutual exclusion: two live locks of different clients on one file never
\* conflict, whatever acquire, upgrade, release and expire_locks do at the
\* same time on other threads.
NoConflictingLocks ==
  \A f \in LockFiles : \A a, b \in LocksOf(f) :
    (a.owner # b.owner /\ IsLive(a) /\ IsLive(b))
      => ~ConflictsWith(a, b.offset, b.length, b.mode)

\* The bytes a client means by a range: length 0 reaches to the end of the file,
\* and a file ends before the largest offset.
Covers(k, byte) == byte >= k.offset /\ (k.length = 0 \/ byte < k.offset + k.length)

\* No byte of a file is covered by two live locks of different clients unless
\* both are shared: what overlaps computes with saturated ends and the special
\* length 0 is what the ranges mean, at every boundary.
ByteExclusive ==
  \A f \in LockFiles : \A a, b \in LocksOf(f) :
    (a.owner # b.owner /\ IsLive(a) /\ IsLive(b) /\ "Exclusive" \in {a.mode, b.mode})
      => \A byte \in 0 .. MaxU64 - 1 : ~(Covers(a, byte) /\ Covers(b, byte))

\* The threads that are still inserting, or already removing, a token.
Inserting(token) == \E t \in Threads : loc[t].token = token /\ pc[t] \in {"acq_token", "acq_owner"}
Releasing(token) == \E t \in Threads : loc[t].token = token /\ pc[t] = "rel_file"

\* No lock is ever stranded: the token of every lock in the table still leads
\* to it through token_index, so release can find it, unless some thread is on
\* its way to insert or to remove exactly that lock.
NoStrandedLock ==
  \A f \in LockFiles : \A k \in LocksOf(f) :
    tokenIndex[k.token] = f \/ Inserting(k.token) \/ Releasing(k.token)

\* What a client was granted and has not given back is still in the table, when
\* no lock has a deadline (lock.rs: "Shared/read lock (multiple allowed)").
GrantedLockIsHeld ==
  \A token \in granted : \A f \in LockFiles :
    tokenIndex[token] = f => \E k \in LocksOf(f) : k.token = token

\* acquire holds the guard of its file and waits for the shard of its token in
\* token_index, which a sweeper holds while it waits for that file.
GuardCycle ==
  \E s \in Sweepers, t \in Threads :
    /\ pc[t] = "acq_token" /\ fileGuard[loc[t].file] = t
    /\ tokenGuard[ShardOf[loc[t].token]] = s /\ loc[s].todo # {}
    /\ \A token \in loc[s].todo : tokenIndex[token] = loc[t].file

\* Every call of a request thread returns, beside other requests and sweeps,
\* unless acquire and expire_locks, which take the guards of a file and of a
\* shard of token_index in opposite orders, block each other.  That deadlock is
\* possible and is excused here: the property says that it is the only way a
\* call of the lock manager can hang.
CallsReturn == \A t \in Threads : (pc[t] # "idle") ~> (pc[t] = "idle" \/ GuardCycle)
=============================================================================
