-------------------------- MODULE LockManagerProofs --------------------------
(* Type correctness and mutual exclusion of the lock manager, and the way    *)
(* from a token to its lock, for any number of threads, clients, files,      *)
(* offsets and lengths.                                                      *)
EXTENDS LockManager, TLAPS

-----------------------------------------------------------------------------
(* Ranges and conflicts *)

\* Overlap, and so conflict, does not depend on which lock came first
\* (ByteRangeLock::overlaps compares both starts with both ends).
LEMMA OverlapsSymmetric ==
  ASSUME NEW o1, NEW l1, NEW o2, NEW l2
  PROVE  Overlaps(o1, l1, o2, l2) <=> Overlaps(o2, l2, o1, l1)
BY DEF Overlaps

\* ByteRangeLock::conflicts_with is symmetric too.
LEMMA ConflictSymmetric ==
  ASSUME NEW a \in Lock, NEW b \in Lock
  PROVE  ConflictsWith(a, b.offset, b.length, b.mode)
           <=> ConflictsWith(b, a.offset, a.length, a.mode)
BY OverlapsSymmetric DEF ConflictsWith

-----------------------------------------------------------------------------
(* Type correctness *)

TypeInv == TypeOK /\ LocalsOK

\* The values that the calls store as their locals.
LEMMA LocalsType ==
  ASSUME NEW k \in Tokens, NEW f \in LockFiles \cup {NoFile},
         NEW d \in SUBSET Tokens
  PROVE  /\ NoLocals \in Locals
         /\ [NoLocals EXCEPT !.token = k, !.file = f] \in Locals
         /\ [NoLocals EXCEPT !.token = k, !.file = f].token = k
         /\ [NoLocals EXCEPT !.todo = d] \in Locals
         /\ [NoLocals EXCEPT !.token = k, !.file = f, !.todo = d] \in Locals
BY DEF NoLocals, Locals

\* The fields of a thread's locals, and what dropping a list entry leaves.
LEMMA LocalsFields ==
  ASSUME TypeOK, NEW t \in Threads \cup Sweepers
  PROVE  /\ loc[t] \in Locals
         /\ loc[t].token \in Tokens \cup {0}
         /\ loc[t].file \in LockFiles \cup {NoFile}
         /\ loc[t].todo \in SUBSET Tokens
         /\ loc[t].files \in SUBSET LockFiles
         /\ loc[t].shards \in SUBSET TokenShards
         /\ \A d \in SUBSET Tokens : [loc[t] EXCEPT !.todo = d] \in Locals
         /\ \A fs \in SUBSET LockFiles : [loc[t] EXCEPT !.files = fs] \in Locals
<1>1. loc[t] \in Locals
  BY DEF TypeOK
<1> QED
  BY <1>1 DEF Locals

\* Every entry of a file's map is a lock.
LEMMA LocksAreLocks ==
  ASSUME TypeOK, NEW f \in LockFiles, NEW k \in LocksOf(f)
  PROVE  /\ k \in Lock
         /\ \E o \in Offsets : table[f][o] = k /\ k # NoLock
BY DEF TypeOK, LocksOf

\* No lock and no call at the start.
LEMMA TypeInit == LockInit => TypeInv
<1> SUFFICES ASSUME LockInit PROVE TypeInv
  OBVIOUS
<1>1. NoLocals \in Locals
  BY DEF NoLocals, Locals, Tokens
<1>2. nextToken \in 1 .. MaxTokens + 1
  BY LockBoundIsNat DEF LockInit
<1> QED
  BY <1>1, <1>2 DEF LockInit, TypeInv, TypeOK, LocalsOK, Pcs

\* A range map without some tokens is a range map.
LEMMA WithoutTokensType ==
  ASSUME TypeOK, NEW f \in LockFiles, NEW ts
  PROVE  WithoutTokens(f, ts) \in [Offsets -> Lock \cup {NoLock}]
BY DEF TypeOK, WithoutTokens

\* acquire draws a token and inserts the lock.
LEMMA AcquireType ==
  ASSUME TypeInv, NEW t \in Threads, NEW w \in Clients, NEW f \in LockFiles,
         NEW o \in Offsets, NEW l \in Lengths, NEW m \in Modes,
         NEW e \in Expiries, AcquireInsert(t, w, f, o, l, m, e)
  PROVE  TypeInv'
<1> USE DEF TypeInv, TypeOK
<1>1. nextToken \in Tokens /\ nextToken' \in 1 .. MaxTokens + 1
  BY LockBoundIsNat DEF AcquireInsert, Tokens
<1>2. CASE FindConflict(f, o, l, m, {}) # {}
  BY <1>1, <1>2 DEF AcquireInsert, LocalsOK
<1>3. CASE FindConflict(f, o, l, m, {}) = {}
  <2> DEFINE new == [token |-> nextToken, owner |-> w, offset |-> o,
                     length |-> l, mode |-> m, life |-> e]
             rec == [NoLocals EXCEPT !.token = nextToken, !.file = f]
  <2>1. new \in Lock
    BY <1>1, LockExpiries DEF Lock, Lives
  <2>2. table' = [table EXCEPT ![f][o] = new]
    BY <1>3 DEF AcquireInsert
  <2>3. table' \in [LockFiles -> [Offsets -> Lock \cup {NoLock}]]
    BY <2>1, <2>2
  <2>4. rec \in Locals /\ rec.token \in Tokens
    BY <1>1, LocalsType
  <2>5. loc' = [loc EXCEPT ![t] = rec] /\ pc' = [pc EXCEPT ![t] = "acq_token"]
    BY <1>3 DEF AcquireInsert, Goto
  <2> HIDE DEF rec
  <2>6. loc' \in [Threads \cup Sweepers -> Locals]
        /\ pc' \in [Threads \cup Sweepers -> Pcs]
    BY <2>4, <2>5 DEF Pcs
  <2>7. LocalsOK'
    BY <2>4, <2>5 DEF LocalsOK
  <2>8. fileGuard' \in [LockFiles -> Threads \cup {NoThread}]
    BY <1>3 DEF AcquireInsert
  <2> QED
    BY <1>1, <2>3, <2>6, <2>7, <2>8 DEF AcquireInsert
<1> QED
  BY <1>2, <1>3

\* release's look-up, shared by release and release_all.
LEMMA ReleaseTokenType ==
  ASSUME TypeInv, NEW t \in Threads, NEW token \in Tokens,
         NEW rest \in SUBSET Tokens, ReleaseToken(t, token, rest),
         pc[t] \in {"idle", "rel_next"}
  PROVE  /\ tokenIndex' \in [Tokens -> LockFiles \cup {NoFile}]
         /\ loc' \in [Threads \cup Sweepers -> Locals]
         /\ pc' \in [Threads \cup Sweepers -> Pcs]
         /\ LocalsOK'
<1> USE DEF TypeInv, TypeOK
<1>1. tokenIndex' \in [Tokens -> LockFiles \cup {NoFile}] /\ tokenIndex[token] \in LockFiles \cup {NoFile}
  BY DEF ReleaseToken
<1>2. PICK r \in Locals : loc' = [loc EXCEPT ![t] = r]
  BY <1>1, LocalsType DEF ReleaseToken, ReleaseEnds
<1>3. PICK p \in {"rel_file", "rel_next", "idle"} : pc' = [pc EXCEPT ![t] = p]
  BY DEF ReleaseToken, ReleaseEnds, Goto
<1> QED
  BY <1>1, <1>2, <1>3 DEF LocalsOK, Pcs

\* The first step of every call.
LEMMA CallType ==
  ASSUME TypeInv, NEW t \in Threads, Call(t)
  PROVE  TypeInv'
<1> USE DEF TypeInv, TypeOK
<1>1. CASE \E w \in Clients, f \in LockFiles, o \in Offsets, l \in Lengths, m \in Modes,
              e \in Expiries : AcquireInsert(t, w, f, o, l, m, e)
  BY <1>1, AcquireType
<1>2. CASE \E token \in Tokens : ReleaseLock(t, token)
  <2> PICK token \in Tokens : ReleaseLock(t, token)
    BY <1>2
  <2>1. pc[t] = "idle" /\ ReleaseToken(t, token, {})
    BY DEF ReleaseLock
  <2>2. granted' \in SUBSET Tokens
    BY DEF ReleaseLock
  <2> QED
    BY <2>1, <2>2, ReleaseTokenType DEF ReleaseLock
<1>3. CASE \E w \in Clients : ReleaseAll(t, w)
  <2> PICK w \in Clients : ReleaseAll(t, w)
    BY <1>3
  <2>1. PICK r \in Locals : loc' = [loc EXCEPT ![t] = r]
    <3>1. ownerIndex[w] \in SUBSET Tokens
      OBVIOUS
    <3>2. [NoLocals EXCEPT !.todo = ownerIndex[w]] \in Locals
      BY <3>1 DEF NoLocals, Locals
    <3> QED BY <3>2 DEF ReleaseAll
  <2>2. pc' = [pc EXCEPT ![t] = "rel_next"]
    BY DEF ReleaseAll, Goto
  <2>3. LocalsOK' /\ pc' \in [Threads \cup Sweepers -> Pcs]
    BY <2>1, <2>2 DEF LocalsOK, Pcs
  <2> QED
    BY <2>1, <2>3 DEF ReleaseAll
<1>4. CASE \E token \in Tokens, label \in {"upgrade", "downgrade"} :
             ModeLookup(t, token, label)
  <2> PICK token \in Tokens, label \in {"upgrade", "downgrade"} : ModeLookup(t, token, label)
    BY <1>4
  <2>1. PICK r \in Locals : loc' = [loc EXCEPT ![t] = r]
    BY LocalsType DEF ModeLookup
  <2>2. pc' = [pc EXCEPT ![t] = label]
    BY DEF ModeLookup, Goto
  <2>3. LocalsOK' /\ pc' \in [Threads \cup Sweepers -> Pcs]
    BY <2>1, <2>2 DEF LocalsOK, Pcs
  <2> QED
    BY <2>1, <2>3 DEF ModeLookup
<1> QED
  BY <1>1, <1>2, <1>3, <1>4 DEF Call

\* A call that returns leaves the thread idle with cleared locals.
LEMMA ReturnType ==
  ASSUME TypeInv, NEW t \in Threads \cup Sweepers, Goto(t, "idle"),
         loc' = [loc EXCEPT ![t] = NoLocals]
  PROVE  /\ loc' \in [Threads \cup Sweepers -> Locals]
         /\ pc' \in [Threads \cup Sweepers -> Pcs]
         /\ LocalsOK'
<1>1. NoLocals \in Locals
  BY DEF NoLocals, Locals
<1> QED
  BY <1>1 DEF TypeInv, TypeOK, LocalsOK, Goto, Pcs

\* upgrade and downgrade replace the mode of a lock.
LEMMA SetModeType ==
  ASSUME TypeInv, NEW t \in Threads, NEW label, NEW mode \in Modes,
         NEW ks \in SUBSET Lock, SetMode(t, label, mode, ks)
  PROVE  TypeInv'
<1> USE DEF TypeInv, TypeOK
<1>1. \A k \in Lock : [k EXCEPT !.mode = mode] \in Lock
  BY DEF Lock
<1>2. ASSUME NEW f \in LockFiles
      PROVE  [o \in Offsets |-> IF table[f][o] \in ks
                                THEN [table[f][o] EXCEPT !.mode = mode]
                                ELSE table[f][o]] \in [Offsets -> Lock \cup {NoLock}]
  BY <1>1
<1>3. table' \in [LockFiles -> [Offsets -> Lock \cup {NoLock}]]
  <2> DEFINE g(f) == [o \in Offsets |-> IF table[f][o] \in ks
                                        THEN [table[f][o] EXCEPT !.mode = mode]
                                        ELSE table[f][o]]
  <2>1. table' = [table EXCEPT ![loc[t].file] = g(loc[t].file)]
    BY DEF SetMode
  <2>2. \A f \in LockFiles : g(f) \in [Offsets -> Lock \cup {NoLock}]
    BY <1>2
  <2> HIDE DEF g
  <2> QED
    BY <2>1, <2>2
<1> QED
  BY <1>3, ReturnType DEF SetMode

\* The later accesses of a call, and its return.
LEMMA FinishType ==
  ASSUME TypeInv, NEW t \in Threads, Finish(t)
  PROVE  TypeInv'
<1> USE DEF TypeInv, TypeOK
<1>1. CASE AcquireIndexToken(t)
  <2>1. tokenIndex' \in [Tokens -> LockFiles \cup {NoFile}]
    BY <1>1, LocalsFields DEF AcquireIndexToken
  <2> QED
    BY <1>1, <2>1 DEF AcquireIndexToken, Goto, LocalsOK, Pcs
<1>2. CASE AcquireIndexOwner(t)
  <2>1. loc[t].token \in Tokens
    BY <1>2 DEF AcquireIndexOwner, LocalsOK
  <2>2. ownerIndex' \in [Clients -> SUBSET Tokens]
    BY <1>2, <2>1 DEF AcquireIndexOwner
  <2>3. fileGuard' \in [LockFiles -> Threads \cup {NoThread}]
    BY <1>2 DEF AcquireIndexOwner
  <2> QED
    BY <1>2, <2>1, <2>2, <2>3, ReturnType DEF AcquireIndexOwner
<1>3. CASE ReleaseFromFile(t)
  <2>1. table' \in [LockFiles -> [Offsets -> Lock \cup {NoLock}]]
    BY <1>3, WithoutTokensType DEF ReleaseFromFile
  <2> QED
    BY <1>3, <2>1 DEF ReleaseFromFile, Goto, LocalsOK, Pcs
<1>4. CASE ReleaseFromOwners(t)
  <2>1. PICK r \in Locals : loc' = [loc EXCEPT ![t] = r]
    <3>1. [NoLocals EXCEPT !.todo = loc[t].todo] \in Locals
      BY LocalsFields DEF NoLocals, Locals
    <3> QED BY <1>4, <3>1 DEF ReleaseFromOwners, ReleaseEnds
  <2>2. PICK p \in {"idle", "rel_next"} : pc' = [pc EXCEPT ![t] = p]
    BY <1>4 DEF ReleaseFromOwners, ReleaseEnds, Goto
  <2>3. LocalsOK' /\ pc' \in [Threads \cup Sweepers -> Pcs]
    BY <2>1, <2>2 DEF LocalsOK, Pcs
  <2> QED
    BY <1>4, <2>1, <2>3 DEF ReleaseFromOwners
<1>5. CASE ReleaseRest(t)
  <2> PICK token \in loc[t].todo : ReleaseToken(t, token, loc[t].todo \ {token})
    BY <1>5 DEF ReleaseRest
  <2>1. token \in Tokens /\ loc[t].todo \ {token} \in SUBSET Tokens
    BY LocalsFields
  <2>2. pc[t] = "rel_next"
    BY <1>5 DEF ReleaseRest
  <2> QED
    BY <1>5, <2>1, <2>2, ReleaseTokenType DEF ReleaseRest
<1>6. CASE Upgrade(t) \/ Downgrade(t)
  <2>1. CASE loc[t].file \in LockFiles
    <3>1. Downgradable(t) \subseteq Lock /\ Upgradable(t) \subseteq Lock
      BY <2>1, LocksAreLocks DEF Downgradable, Upgradable
    <3> QED
      BY <1>6, <3>1, SetModeType DEF Upgrade, Downgrade, Modes
  <2>2. CASE loc[t].file \notin LockFiles
    <3>1. table' = table
      BY <1>6, <2>2 DEF Upgrade, Downgrade, SetMode
    <3> QED
      BY <1>6, <3>1, ReturnType DEF Upgrade, Downgrade, SetMode
  <2> QED BY <2>1, <2>2
<1> QED
  BY <1>1, <1>2, <1>3, <1>4, <1>5, <1>6 DEF Finish

\* expire_locks goes through the files.
LEMMA SweepType ==
  ASSUME TypeInv, NEW t \in Sweepers, Sweep(t)
  PROVE  TypeInv'
<1> USE DEF TypeInv, TypeOK
<1>0. t \notin Threads
  BY LockSentinels
<1>1. CASE ExpireStart(t)
  <2>1. [NoLocals EXCEPT !.files = LockFiles, !.shards = TokenShards] \in Locals
    BY DEF NoLocals, Locals
  <2> QED
    BY <1>0, <1>1, <2>1 DEF ExpireStart, Goto, LocalsOK, Pcs
<1>2. CASE \E f \in LockFiles : ExpireFile(t, f)
  <2> PICK f \in LockFiles : ExpireFile(t, f)
    BY <1>2
  <2>1. table' \in [LockFiles -> [Offsets -> Lock \cup {NoLock}]]
    BY WithoutTokensType DEF ExpireFile
  <2>2. PICK r \in Locals : loc' = [loc EXCEPT ![t] = r]
    BY LocalsFields DEF ExpireFile
  <2>3. PICK p \in Pcs : pc' = [pc EXCEPT ![t] = p]
    BY DEF ExpireFile, Goto, Pcs
  <2>4. LocalsOK'
    BY <1>0, <2>2, <2>3 DEF LocalsOK
  <2> QED
    BY <2>1, <2>2, <2>3, <2>4 DEF ExpireFile
<1>3. CASE \E s \in TokenShards : ExpireRetain(t, s)
  <2> PICK s \in TokenShards : ExpireRetain(t, s)
    BY <1>3
  <2>1. PICK r \in Locals : loc' = [loc EXCEPT ![t] = r]
    <3>1. ASSUME NEW d \in SUBSET Tokens, NEW ss \in SUBSET TokenShards
          PROVE  [NoLocals EXCEPT !.todo = d, !.shards = ss] \in Locals
      BY DEF NoLocals, Locals
    <3>2. loc[t].shards \ {s} \in SUBSET TokenShards
      BY LocalsFields
    <3> QED
      BY <3>1, <3>2 DEF ExpireRetain
  <2>2. LocalsOK'
    BY <1>0, <2>1 DEF LocalsOK, ExpireRetain, Goto
  <2> QED
    BY <2>1, <2>2 DEF ExpireRetain, Goto, Pcs
<1>4. CASE \E token \in Tokens : ExpireToken(t, token)
  <2> PICK token \in Tokens : ExpireToken(t, token)
    BY <1>4
  <2>1. PICK r \in Locals : loc' = [loc EXCEPT ![t] = r]
    BY LocalsFields DEF ExpireToken
  <2>2. LocalsOK'
    BY <1>0, <2>1 DEF LocalsOK, ExpireToken
  <2>3. tokenIndex' \in [Tokens -> LockFiles \cup {NoFile}]
    BY DEF ExpireToken
  <2> QED
    BY <2>1, <2>2, <2>3 DEF ExpireToken
<1>5. CASE ExpireDone(t)
  <2>1. PICK p \in Pcs : pc' = [pc EXCEPT ![t] = p]
    BY <1>5 DEF ExpireDone, Goto, Pcs
  <2>2. LocalsOK'
    BY <1>0, <1>5, <2>1 DEF LocalsOK, ExpireDone
  <2>3. tokenGuard' \in [TokenShards -> Sweepers \cup {NoThread}]
    BY <1>5 DEF ExpireDone
  <2> QED
    BY <1>5, <2>1, <2>2, <2>3 DEF ExpireDone
<1> QED
  BY <1>1, <1>2, <1>3, <1>4, <1>5 DEF Sweep

\* The deadline of a lock passes.
LEMMA DeadlineType ==
  ASSUME TypeInv, NEW f \in LockFiles, NEW o \in Offsets, DeadlinePasses(f, o)
  PROVE  TypeInv'
<1>1. table[f][o] \in Lock
  BY DEF DeadlinePasses, TypeInv, TypeOK
<1>2. [table[f][o] EXCEPT !.life = "Expired"] \in Lock
  BY <1>1 DEF Lock, Lives
<1>3. table' \in [LockFiles -> [Offsets -> Lock \cup {NoLock}]]
  BY <1>2 DEF DeadlinePasses, TypeInv, TypeOK
<1> QED
  BY <1>3 DEF DeadlinePasses, TypeInv, TypeOK, LocalsOK

\* Every step keeps the types, one case per action.
LEMMA TypeStep == TypeInv /\ [LockNext]_lockVars => TypeInv'
<1> SUFFICES ASSUME TypeInv, [LockNext]_lockVars PROVE TypeInv'
  OBVIOUS
<1>1. CASE UNCHANGED lockVars
  BY <1>1 DEF lockVars, TypeInv, TypeOK, LocalsOK
<1>2. CASE LockNext
  BY <1>2, CallType, FinishType, SweepType, DeadlineType DEF LockNext
<1> QED BY <1>1, <1>2

\* TypeOK always holds: in particular every lock in the table carries a token
\* that acquire drew from next_token.
THEOREM TypeCorrect == LockSpec => []TypeOK
<1>1. TypeInv => TypeOK
  BY DEF TypeInv
<1> QED
  BY <1>1, TypeInit, TypeStep, PTL DEF LockSpec

-----------------------------------------------------------------------------
(* Mutual exclusion                                                        *)
(*                                                                         *)
(* TypeInv /\ NoConflictingLocks is inductive.  All steps but two only take *)
(* locks away, let them expire or lower their mode; acquire and upgrade     *)
(* look for a conflict under the guard of the file they change.            *)

MutexInv == TypeInv /\ NoConflictingLocks

\* Lock a asks for no more than lock b.
NoStronger(a, b) ==
  /\ a.owner = b.owner /\ a.offset = b.offset /\ a.length = b.length
  /\ IsLive(a) => IsLive(b)
  /\ a.mode = "Exclusive" => b.mode = "Exclusive"

\* A lock that becomes shared conflicts with nothing it did not conflict with.
LEMMA WeakerStaysCompatible ==
  ASSUME NEW a \in Lock, NEW b \in Lock, NEW c \in Lock, NEW d \in Lock,
         NoStronger(a, c), NoStronger(b, d),
         ConflictsWith(a, b.offset, b.length, b.mode)
  PROVE  ConflictsWith(c, d.offset, d.length, d.mode)
<1>1. a.mode \in Modes /\ b.mode \in Modes
  BY DEF Lock
<1>2. ~(c.mode = "Shared" /\ d.mode = "Shared")
  BY <1>1 DEF ConflictsWith, NoStronger, Modes
<1> QED
  BY <1>2 DEF ConflictsWith, NoStronger

\* Steps that weaken or remove locks: release, expire_locks, downgrade, the
\* passing of a deadline, and every step that leaves the table alone.
LEMMA WeakeningStep ==
  ASSUME MutexInv, TypeInv',
         \A f \in LockFiles : \A k \in LocksOf(f)' : \E old \in LocksOf(f) : NoStronger(k, old)
  PROVE  NoConflictingLocks'
<1> SUFFICES ASSUME NEW f \in LockFiles, NEW a \in LocksOf(f)', NEW b \in LocksOf(f)',
                    a.owner # b.owner, IsLive(a), IsLive(b),
                    ConflictsWith(a, b.offset, b.length, b.mode)
             PROVE  FALSE
  BY DEF NoConflictingLocks, IsLive, ConflictsWith, Overlaps, RangeEnd
<1>1. a \in Lock /\ b \in Lock
  BY DEF TypeInv, TypeOK, LocksOf
<1>2. PICK c \in LocksOf(f), d \in LocksOf(f) : NoStronger(a, c) /\ NoStronger(b, d)
  OBVIOUS
<1>3. c \in Lock /\ d \in Lock
  BY LocksAreLocks DEF MutexInv, TypeInv
<1>4. ConflictsWith(c, d.offset, d.length, d.mode)
  BY <1>1, <1>2, <1>3, WeakerStaysCompatible
<1> QED
  BY <1>2, <1>4 DEF MutexInv, NoConflictingLocks, NoStronger

\* Steps that leave the range maps alone.
LEMMA TableUnchanged ==
  ASSUME MutexInv, table' = table
  PROVE  NoConflictingLocks'
BY DEF MutexInv, NoConflictingLocks, LocksOf, IsLive, ConflictsWith, Overlaps, RangeEnd

\* Removing tokens from one file's map only removes locks.
LEMMA RemovalStep ==
  ASSUME MutexInv, TypeInv', NEW f, NEW ts,
         table' = [table EXCEPT ![f] = WithoutTokens(f, ts)]
  PROVE  NoConflictingLocks'
<1>1. \A g \in LockFiles : LocksOf(g)' \subseteq LocksOf(g)
  BY DEF LocksOf, WithoutTokens, MutexInv, TypeInv, TypeOK
<1>2. \A k : NoStronger(k, k)
  BY DEF NoStronger
<1> QED
  BY <1>1, <1>2, WeakeningStep

\* acquire checks and inserts under the file's guard.
LEMMA AcquireMutex ==
  ASSUME MutexInv, TypeInv', NEW t \in Threads, NEW w \in Clients, NEW f \in LockFiles,
         NEW o \in Offsets, NEW l \in Lengths, NEW m \in Modes,
         NEW e \in Expiries, AcquireInsert(t, w, f, o, l, m, e)
  PROVE  NoConflictingLocks'
<1>1. CASE FindConflict(f, o, l, m, {}) # {}
  BY <1>1, TableUnchanged DEF AcquireInsert
<1>2. CASE FindConflict(f, o, l, m, {}) = {}
  <2> DEFINE new == [token |-> nextToken, owner |-> w, offset |-> o,
                     length |-> l, mode |-> m, life |-> e]
  <2>1. table' = [table EXCEPT ![f][o] = new]
    BY <1>2 DEF AcquireInsert
  <2>2. new \in Lock /\ new.owner = w /\ new.offset = o /\ new.length = l /\ new.mode = m
    <3>1. nextToken \in Tokens
      BY LockBoundIsNat DEF AcquireInsert, Tokens, MutexInv, TypeInv, TypeOK
    <3> QED BY <3>1, LockExpiries DEF Lock, Lives
  <2> HIDE DEF new
  <2>3. \A k \in LocksOf(f) : IsLive(k) => ~ConflictsWith(k, o, l, m)
    BY <1>2 DEF FindConflict
  <2>4. \A g \in LockFiles : LocksOf(g)' \subseteq LocksOf(g) \cup (IF g = f THEN {new} ELSE {})
    BY <2>1 DEF LocksOf, MutexInv, TypeInv, TypeOK
  <2> SUFFICES ASSUME NEW g \in LockFiles, NEW a \in LocksOf(g)', NEW b \in LocksOf(g)',
                      a.owner # b.owner, IsLive(a), IsLive(b)
               PROVE  ~ConflictsWith(a, b.offset, b.length, b.mode)
    BY DEF NoConflictingLocks, IsLive, ConflictsWith, Overlaps, RangeEnd
  <2>5. CASE a \in LocksOf(g) /\ b \in LocksOf(g)
    BY <2>5 DEF MutexInv, NoConflictingLocks
  <2>6. CASE g = f /\ a \in LocksOf(f) /\ b = new
    BY <2>2, <2>3, <2>6
  <2>7. CASE g = f /\ b \in LocksOf(f) /\ a = new
    <3>1. b \in Lock
      BY <2>7, LocksAreLocks DEF MutexInv, TypeInv
    <3> QED
      BY <2>2, <2>3, <2>7, <3>1, ConflictSymmetric
  <2> QED
    BY <2>4, <2>5, <2>6, <2>7
<1> QED
  BY <1>1, <1>2

\* downgrade leaves a weaker lock.
LEMMA DowngradeMutex ==
  ASSUME MutexInv, TypeInv', NEW t \in Threads, Downgrade(t)
  PROVE  NoConflictingLocks'
<1>1. \A k \in Lock : NoStronger([k EXCEPT !.mode = "Shared"], k)
  BY DEF NoStronger, Lock, IsLive
<1>2. \A k : NoStronger(k, k)
  BY DEF NoStronger
<1>3. ASSUME NEW f \in LockFiles, NEW k \in LocksOf(f)'
      PROVE  \E old \in LocksOf(f) : NoStronger(k, old)
  <2> DEFINE g(x) == IF x \in Downgradable(t) THEN [x EXCEPT !.mode = "Shared"] ELSE x
  <2>1. PICK o \in Offsets : k = table'[f][o] /\ k # NoLock
    BY DEF LocksOf
  <2>2. k = table[f][o] \/ (/\ table[f][o] \in Downgradable(t)
                            /\ k = [table[f][o] EXCEPT !.mode = "Shared"]
                            /\ f = loc[t].file)
    BY <2>1 DEF Downgrade, SetMode, MutexInv, TypeInv, TypeOK
  <2>3. CASE k = table[f][o]
    BY <1>2, <2>1, <2>3 DEF LocksOf
  <2>4. CASE /\ table[f][o] \in Downgradable(t)
             /\ k = [table[f][o] EXCEPT !.mode = "Shared"]
             /\ f = loc[t].file
    <3>1. table[f][o] \in LocksOf(f)
      BY <2>4 DEF Downgradable
    <3> QED
      BY <1>1, <2>4, <3>1, LocksAreLocks DEF MutexInv, TypeInv
  <2> QED
    BY <2>2, <2>3, <2>4
<1> QED
  BY <1>3, WeakeningStep

\* Each lock of the table after an upgrade is an old one, or an old one whose
\* range no other client holds.
LEMMA UpgradeMutex ==
  ASSUME MutexInv, TypeInv', NEW t \in Threads, Upgrade(t)
  PROVE  NoConflictingLocks'
<1> DEFINE Raised(f, k, old) ==
      /\ old.owner = k.owner /\ old.offset = k.offset /\ old.length = k.length
      /\ IsLive(k) => IsLive(old)
      /\ \/ k = old
         \/ /\ FindConflict(f, old.offset, old.length, "Exclusive", {old.owner}) = {}
            /\ k.mode = "Exclusive"
<1>1. ASSUME NEW f \in LockFiles, NEW k \in LocksOf(f)'
      PROVE  \E old \in LocksOf(f) : Raised(f, k, old)
  <2>1. PICK o \in Offsets : k = table'[f][o] /\ k # NoLock
    BY DEF LocksOf
  <2>2. k = table[f][o] \/ (/\ table[f][o] \in Upgradable(t)
                            /\ k = [table[f][o] EXCEPT !.mode = "Exclusive"]
                            /\ f = loc[t].file)
    BY <2>1 DEF Upgrade, SetMode, MutexInv, TypeInv, TypeOK
  <2>3. CASE k = table[f][o]
    BY <2>1, <2>3 DEF LocksOf
  <2>4. CASE /\ table[f][o] \in Upgradable(t)
             /\ k = [table[f][o] EXCEPT !.mode = "Exclusive"]
             /\ f = loc[t].file
    <3>1. table[f][o] \in LocksOf(f) /\ FindConflict(f, table[f][o].offset, table[f][o].length,
                                           "Exclusive", {table[f][o].owner}) = {}
      BY <2>4 DEF Upgradable, Downgradable
    <3>2. table[f][o] \in Lock
      BY <3>1, LocksAreLocks DEF MutexInv, TypeInv
    <3>3. k.owner = table[f][o].owner /\ k.offset = table[f][o].offset
          /\ k.length = table[f][o].length /\ k.mode = "Exclusive" /\ k.life = table[f][o].life
      BY <2>4, <3>2 DEF Lock
    <3> QED
      BY <3>1, <3>3 DEF IsLive
  <2> QED
    BY <2>2, <2>3, <2>4
<1> SUFFICES ASSUME NEW f \in LockFiles, NEW a \in LocksOf(f)', NEW b \in LocksOf(f)',
                    a.owner # b.owner, IsLive(a), IsLive(b)
             PROVE  ~ConflictsWith(a, b.offset, b.length, b.mode)
  BY DEF NoConflictingLocks, IsLive, ConflictsWith, Overlaps, RangeEnd
<1>2. PICK c \in LocksOf(f), d \in LocksOf(f) : Raised(f, a, c) /\ Raised(f, b, d)
  BY <1>1
<1>3. CASE a = c /\ b = d
  BY <1>2, <1>3 DEF MutexInv, NoConflictingLocks
<1>4. CASE FindConflict(f, d.offset, d.length, "Exclusive", {d.owner}) = {}
  <2>1. ~ConflictsWith(c, d.offset, d.length, "Exclusive")
    BY <1>2, <1>4 DEF FindConflict
  <2>2. ~Overlaps(c.offset, c.length, d.offset, d.length)
    BY <2>1 DEF ConflictsWith
  <2> QED
    BY <1>2, <2>2 DEF ConflictsWith
<1>5. CASE FindConflict(f, c.offset, c.length, "Exclusive", {c.owner}) = {}
  <2>1. ~ConflictsWith(d, c.offset, c.length, "Exclusive")
    BY <1>2, <1>5 DEF FindConflict
  <2>2. ~Overlaps(d.offset, d.length, c.offset, c.length)
    BY <2>1 DEF ConflictsWith
  <2> QED
    BY <1>2, <2>2, OverlapsSymmetric DEF ConflictsWith
<1> QED
  BY <1>2, <1>3, <1>4, <1>5

\* An expired lock conflicts with nothing.
LEMMA DeadlineMutex ==
  ASSUME MutexInv, TypeInv', NEW f \in LockFiles, NEW o \in Offsets, DeadlinePasses(f, o)
  PROVE  NoConflictingLocks'
<1>1. table[f][o] \in Lock /\ table[f][o] \in LocksOf(f)
  BY DEF DeadlinePasses, MutexInv, TypeInv, TypeOK, LocksOf
<1> DEFINE late == [table[f][o] EXCEPT !.life = "Expired"]
<1>2. NoStronger(late, table[f][o])
  BY <1>1 DEF NoStronger, Lock, IsLive
<1>3. \A k : NoStronger(k, k)
  BY DEF NoStronger
<1>4. table' = [table EXCEPT ![f][o] = late]
  BY <1>1 DEF DeadlinePasses, MutexInv, TypeInv, TypeOK
<1> HIDE DEF late
<1>5. \A g \in LockFiles : \A k \in LocksOf(g)' : k \in LocksOf(g) \/ (g = f /\ k = late)
  BY <1>4 DEF LocksOf, MutexInv, TypeInv, TypeOK
<1> QED
  BY <1>1, <1>2, <1>3, <1>5, WeakeningStep

\* Every step keeps mutual exclusion, one case per action.
LEMMA MutexStep == MutexInv /\ [LockNext]_lockVars => MutexInv'
<1> SUFFICES ASSUME MutexInv, [LockNext]_lockVars PROVE NoConflictingLocks'
  BY TypeStep DEF MutexInv
<1>0. TypeInv'
  BY TypeStep DEF MutexInv
<1>1. CASE UNCHANGED lockVars
  BY <1>1, TableUnchanged DEF lockVars
<1>2. ASSUME NEW t \in Threads, Call(t) PROVE NoConflictingLocks'
  <2>1. CASE \E w \in Clients, f \in LockFiles, o \in Offsets, l \in Lengths, m \in Modes,
                e \in Expiries : AcquireInsert(t, w, f, o, l, m, e)
    BY <1>0, <2>1, AcquireMutex
  <2>2. CASE table' = table
    BY <2>2, TableUnchanged
  <2> QED
    BY <1>2, <2>1, <2>2 DEF Call, ReleaseLock, ReleaseAll, ModeLookup
<1>3. ASSUME NEW t \in Threads, Finish(t) PROVE NoConflictingLocks'
  <2>1. CASE ReleaseFromFile(t)
    BY <1>0, <2>1, RemovalStep DEF ReleaseFromFile
  <2>2. CASE Upgrade(t) \/ Downgrade(t)
    BY <1>0, <2>2, UpgradeMutex, DowngradeMutex
  <2>3. CASE table' = table
    BY <2>3, TableUnchanged
  <2> QED
    BY <1>3, <2>1, <2>2, <2>3
    DEF Finish, AcquireIndexToken, AcquireIndexOwner, ReleaseFromOwners, ReleaseRest
<1>4. ASSUME NEW t \in Sweepers, Sweep(t) PROVE NoConflictingLocks'
  <2>1. CASE \E f \in LockFiles : ExpireFile(t, f)
    BY <1>0, <2>1, RemovalStep DEF ExpireFile
  <2>2. CASE table' = table
    BY <2>2, TableUnchanged
  <2> QED
    BY <1>4, <2>1, <2>2 DEF Sweep, ExpireStart, ExpireRetain, ExpireToken, ExpireDone
<1>5. ASSUME NEW f \in LockFiles, NEW o \in Offsets, DeadlinePasses(f, o)
      PROVE  NoConflictingLocks'
  BY <1>0, <1>5, DeadlineMutex
<1> QED
  BY <1>1, <1>2, <1>3, <1>4, <1>5 DEF LockNext

\* Mutual exclusion for every number of threads, clients, files and ranges: no
\* two live locks of different clients on one file ever conflict, whatever
\* acquire, upgrade, downgrade, release and expire_locks do concurrently.
THEOREM MutualExclusion == LockSpec => []NoConflictingLocks
<1>1. LockInit => MutexInv
  <2>1. LockInit => NoConflictingLocks
    BY DEF LockInit, NoConflictingLocks, LocksOf
  <2> QED BY <2>1, TypeInit DEF MutexInv
<1>2. MutexInv => NoConflictingLocks
  BY DEF MutexInv
<1> QED
  BY <1>1, <1>2, MutexStep, PTL DEF LockSpec

-----------------------------------------------------------------------------
(* What the ranges mean *)

\* Two ranges with a byte in common overlap: the saturated ends and the special
\* length 0 of ByteRangeLock::overlaps lose no byte below the largest offset.
LEMMA CommonByteOverlaps ==
  ASSUME NEW a \in Lock, NEW b \in Lock, NEW byte \in 0 .. MaxU64 - 1,
         Covers(a, byte), Covers(b, byte)
  PROVE  Overlaps(a.offset, a.length, b.offset, b.length)
<1>1. /\ a.offset \in 0 .. MaxU64 /\ a.length \in 0 .. MaxU64
      /\ b.offset \in 0 .. MaxU64 /\ b.length \in 0 .. MaxU64
  BY LockRangesAreU64 DEF Lock
<1>2. byte < RangeEnd(a.offset, a.length) /\ byte < RangeEnd(b.offset, b.length)
  BY <1>1, LockRangesAreU64 DEF Covers, RangeEnd
<1>3. a.offset <= byte /\ b.offset <= byte
  BY DEF Covers
<1>4. RangeEnd(a.offset, a.length) \in Int /\ RangeEnd(b.offset, b.length) \in Int
  BY <1>1, LockRangesAreU64 DEF RangeEnd
<1> QED
  BY <1>1, <1>2, <1>3, <1>4, LockRangesAreU64 DEF Overlaps

\* Locks that never conflict never cover a byte twice.
LEMMA MutexIsByteExclusive == MutexInv => ByteExclusive
<1> SUFFICES ASSUME MutexInv, NEW f \in LockFiles, NEW a \in LocksOf(f), NEW b \in LocksOf(f),
                    a.owner # b.owner, IsLive(a), IsLive(b),
                    "Exclusive" \in {a.mode, b.mode},
                    NEW byte \in 0 .. MaxU64 - 1, Covers(a, byte), Covers(b, byte)
             PROVE  FALSE
  BY DEF ByteExclusive
<1>1. a \in Lock /\ b \in Lock
  BY LocksAreLocks DEF MutexInv, TypeInv
<1>2. Overlaps(a.offset, a.length, b.offset, b.length)
  BY <1>1, CommonByteOverlaps
<1>3. ConflictsWith(a, b.offset, b.length, b.mode)
  BY <1>2 DEF ConflictsWith
<1> QED
  BY <1>3 DEF MutexInv, NoConflictingLocks

\* Exclusion byte by byte, for every number of threads, clients, files and
\* ranges and every width of the offsets: an exclusively locked byte is locked
\* by nobody else, whatever acquire, upgrade, release and expire_locks do.
THEOREM ByteExclusion == LockSpec => []ByteExclusive
<1>1. LockInit => MutexInv
  <2>1. LockInit => NoConflictingLocks
    BY DEF LockInit, NoConflictingLocks, LocksOf
  <2> QED BY <2>1, TypeInit DEF MutexInv
<1> QED
  BY <1>1, MutexStep, MutexIsByteExclusive, PTL DEF LockSpec

-----------------------------------------------------------------------------
(***************************************************************************)
(* No lock is stranded.  A token is drawn once, so it names one lock, and  *)
(* until acquire has put it into token_index no call finds it there,       *)
(* whatever tokens its callers try.  token_index loses a token to a        *)
(* release that is on its way to the lock, or to a sweep that has seen     *)
(* every file.                                                             *)
(***************************************************************************)
Holds(f, k) == \E x \in LocksOf(f) : x.token = k
Pending(t) == pc[t] \in {"acq_token", "acq_owner"}

\* A thread has inserted the lock of this token and not yet indexed it.
Unindexed(k) == \E t \in Threads : loc[t].token = k /\ pc[t] = "acq_token"

DrawnOnce ==
  /\ \A f \in LockFiles, k \in Tokens : Holds(f, k) => k < nextToken
  /\ \A f, g \in LockFiles, k \in Tokens : Holds(f, k) /\ Holds(g, k) => f = g
  /\ \A k \in Tokens : (tokenIndex[k] # NoFile \/ \E t \in Threads : loc[t].token = k) => k < nextToken

\* The index leads to no other file than the one of the lock.
IndexLeadsThere == \A f \in LockFiles, k \in Tokens : Holds(f, k) => tokenIndex[k] \in {f, NoFile}

\* What acquire and release know of their token.
InProgress ==
  \A t \in Threads, k \in Tokens : loc[t].token = k =>
    /\ pc[t] = "acq_token" => tokenIndex[k] = NoFile /\ \A u \in Threads : u # t => loc[u].token # k
    /\ Pending(t) \/ pc[t] = "rel_file" => \A f \in LockFiles : Holds(f, k) => f = loc[t].file

Led == \A f \in LockFiles, k \in Tokens : Holds(f, k) => tokenIndex[k] = f \/ Unindexed(k) \/ Releasing(k)

StrandInv == TypeInv /\ DrawnOnce /\ IndexLeadsThere /\ InProgress /\ Led

\* At the start there is no lock.
LEMMA StrandInitial == LockInit => StrandInv
<1> SUFFICES ASSUME LockInit PROVE StrandInv
  OBVIOUS
<1>1. \A f \in LockFiles, k \in Tokens : ~Holds(f, k)
  BY DEF LockInit, Holds, LocksOf
<1>2. \A k \in Tokens : tokenIndex[k] = NoFile /\ \A t \in Threads : loc[t].token # k
  BY DEF LockInit, NoLocals, Tokens
<1>3. \A t \in Threads : ~Pending(t) /\ pc[t] # "rel_file"
  BY DEF LockInit, Pending
<1>4. InProgress
  BY <1>3 DEF InProgress, Pending
<1> QED
  BY <1>1, <1>2, <1>4, TypeInit DEF StrandInv, DrawnOnce, IndexLeadsThere, Led

\* What no thread of a request does: sweeps, deadlines and a refused acquire.
LEMMA StrandAmbient ==
  ASSUME StrandInv, TypeInv', nextToken' \in {nextToken, nextToken + 1},
         \A t \in Threads : pc'[t] = pc[t] /\ loc'[t] = loc[t],
         \A f \in LockFiles, k \in Tokens : Holds(f, k)' => Holds(f, k),
         \A k \in Tokens : \/ tokenIndex'[k] = tokenIndex[k]
                           \/ tokenIndex'[k] = NoFile /\ \A f \in LockFiles : ~Holds(f, k)'
  PROVE  StrandInv'
<1>0. nextToken \in Nat /\ nextToken' \in Nat /\ nextToken <= nextToken' /\ Tokens \subseteq Nat
  BY LockBoundIsNat DEF StrandInv, TypeInv, TypeOK, Tokens
<1>2. \A k \in Tokens : (Unindexed(k)' <=> Unindexed(k)) /\ (Releasing(k)' <=> Releasing(k))
  BY DEF Unindexed, Releasing
<1>3. DrawnOnce'
  <2>1. \A k \in Tokens : k < nextToken => k < nextToken'
    BY <1>0
  <2>2. \A f \in LockFiles, k \in Tokens : Holds(f, k)' => k < nextToken'
    BY <2>1 DEF StrandInv, DrawnOnce
  <2>3. \A f, g \in LockFiles, k \in Tokens : Holds(f, k)' /\ Holds(g, k)' => f = g
    BY DEF StrandInv, DrawnOnce
  <2>4. \A k \in Tokens : (tokenIndex'[k] # NoFile \/ \E t \in Threads : loc'[t].token = k) => k < nextToken'
    BY <2>1 DEF StrandInv, DrawnOnce
  <2> QED
    BY <2>2, <2>3, <2>4 DEF DrawnOnce
<1>4. IndexLeadsThere'
  BY DEF StrandInv, IndexLeadsThere
<1>5. InProgress'
  <2> SUFFICES ASSUME NEW t \in Threads, NEW k \in Tokens, loc'[t].token = k
               PROVE  /\ pc'[t] = "acq_token" => tokenIndex'[k] = NoFile /\ \A u \in Threads : u # t => loc'[u].token # k
                      /\ Pending(t)' \/ pc'[t] = "rel_file" => \A f \in LockFiles : Holds(f, k)' => f = loc'[t].file
    BY DEF InProgress
  <2>1. (Pending(t)' <=> Pending(t)) /\ loc[t].token = k
    BY DEF Pending
  <2> QED
    BY <2>1 DEF StrandInv, InProgress
<1>6. Led'
  BY <1>2 DEF StrandInv, Led
<1> QED
  BY <1>3, <1>4, <1>5, <1>6 DEF StrandInv

\* What release, release_all, upgrade and downgrade do with the tokens they are given.
LEMMA StrandThread ==
  ASSUME StrandInv, TypeInv', NEW t \in Threads, ~Pending(t), ~Pending(t)',
         \A u \in Threads : u # t => pc'[u] = pc[u] /\ loc'[u] = loc[u],
         nextToken' = nextToken,
         \A k \in Tokens : loc'[t].token = k => tokenIndex[k] # NoFile \/ loc[t].token = k,
         \A f \in LockFiles, k \in Tokens : Holds(f, k)' => Holds(f, k),
         \A k \in Tokens : \/ tokenIndex'[k] = tokenIndex[k]
                           \/ tokenIndex'[k] = NoFile /\ pc'[t] = "rel_file" /\ loc'[t].token = k,
         \A f \in LockFiles, k \in Tokens : pc'[t] = "rel_file" /\ loc'[t].token = k /\ Holds(f, k)' => f = loc'[t].file,
         \A f \in LockFiles, k \in Tokens : pc[t] = "rel_file" /\ loc[t].token = k => ~Holds(f, k)'
  PROVE  StrandInv'
<1>1. DrawnOnce'
  <2>1. \A f \in LockFiles, k \in Tokens : Holds(f, k)' => k < nextToken'
    BY DEF StrandInv, DrawnOnce
  <2>2. \A f, g \in LockFiles, k \in Tokens : Holds(f, k)' /\ Holds(g, k)' => f = g
    BY DEF StrandInv, DrawnOnce
  <2>3. ASSUME NEW k \in Tokens, tokenIndex'[k] # NoFile \/ \E u \in Threads : loc'[u].token = k
        PROVE  k < nextToken'
    <3>1. tokenIndex[k] # NoFile \/ \E u \in Threads : loc[u].token = k
      BY <2>3
    <3> QED
      BY <3>1 DEF StrandInv, DrawnOnce
  <2> QED
    BY <2>1, <2>2, <2>3 DEF DrawnOnce
<1>2. IndexLeadsThere'
  BY DEF StrandInv, IndexLeadsThere
<1>3. InProgress'
  <2> SUFFICES ASSUME NEW u \in Threads, NEW k \in Tokens, loc'[u].token = k
               PROVE  /\ pc'[u] = "acq_token" => tokenIndex'[k] = NoFile /\ \A v \in Threads : v # u => loc'[v].token # k
                      /\ Pending(u)' \/ pc'[u] = "rel_file" => \A f \in LockFiles : Holds(f, k)' => f = loc'[u].file
    BY DEF InProgress
  <2>1. CASE u = t
    BY <2>1 DEF Pending
  <2>2. CASE u # t
    <3>1. (Pending(u)' <=> Pending(u)) /\ loc[u].token = k /\ pc'[u] = pc[u] /\ loc'[u] = loc[u]
      BY <2>2 DEF Pending
    <3>2. pc[u] = "acq_token" => tokenIndex[k] = NoFile /\ \A v \in Threads : v # u => loc[v].token # k
      BY <3>1 DEF StrandInv, InProgress
    <3>3. pc[u] = "acq_token" => tokenIndex'[k] = NoFile /\ \A v \in Threads : v # u => loc'[v].token # k
      BY <2>2, <3>2
    <3>4. Pending(u) \/ pc[u] = "rel_file" => \A f \in LockFiles : Holds(f, k) => f = loc[u].file
      BY <3>1 DEF StrandInv, InProgress
    <3> QED
      BY <3>1, <3>3, <3>4
  <2> QED
    BY <2>1, <2>2
<1>4. Led'
  <2> SUFFICES ASSUME NEW f \in LockFiles, NEW k \in Tokens, Holds(f, k)', tokenIndex'[k] # f
               PROVE  Unindexed(k)' \/ Releasing(k)'
    BY DEF Led
  <2>1. CASE pc'[t] = "rel_file" /\ loc'[t].token = k
    BY <2>1 DEF Releasing
  <2>2. CASE ~(pc'[t] = "rel_file" /\ loc'[t].token = k)
    <3>1. tokenIndex[k] # f /\ Holds(f, k)
      BY <2>2
    <3>2. Unindexed(k) \/ Releasing(k)
      BY <3>1 DEF StrandInv, Led
    <3>3. PICK u \in Threads : loc[u].token = k /\ pc[u] \in {"acq_token", "rel_file"}
      BY <3>2 DEF Unindexed, Releasing
    <3>4. u # t
      BY <3>3 DEF Pending
    <3> QED
      BY <3>3, <3>4 DEF Unindexed, Releasing
  <2> QED
    BY <2>1, <2>2
<1> QED
  BY <1>1, <1>2, <1>3, <1>4 DEF StrandInv

\* A map from which entries were dropped holds no more tokens, and neither does one
\* whose entries keep their token.
LEMMA HoldsShrinks ==
  ASSUME TypeOK, TypeOK',
         \A f \in LockFiles, o \in Offsets : table'[f][o] # NoLock =>
           table[f][o] # NoLock /\ table'[f][o].token = table[f][o].token
  PROVE  \A f \in LockFiles, k \in Tokens : Holds(f, k)' => Holds(f, k)
<1> SUFFICES ASSUME NEW f \in LockFiles, NEW k \in Tokens, Holds(f, k)' PROVE Holds(f, k)
  OBVIOUS
<1>1. PICK o \in Offsets : table'[f][o] # NoLock /\ table'[f][o].token = k
  BY DEF Holds, LocksOf
<1>2. table[f][o] # NoLock /\ table[f][o].token = k
  BY <1>1
<1> QED
  BY <1>2 DEF Holds, LocksOf

\* retain drops entries.
LEMMA DropsShrink ==
  ASSUME TypeOK, TypeOK', NEW g \in LockFiles, NEW ts, table' = [table EXCEPT ![g] = WithoutTokens(g, ts)]
  PROVE  /\ \A f \in LockFiles, k \in Tokens : Holds(f, k)' => Holds(f, k)
         /\ \A k \in ts : ~Holds(g, k)'
<1>1. \A o \in Offsets : table'[g][o] = IF table[g][o] # NoLock /\ table[g][o].token \in ts THEN NoLock ELSE table[g][o]
  BY DEF TypeOK, WithoutTokens
<1>2. \A f \in LockFiles : f # g => table'[f] = table[f]
  BY DEF TypeOK
<1>3. \A f \in LockFiles, k \in Tokens : Holds(f, k)' => Holds(f, k)
  BY <1>1, <1>2, HoldsShrinks
<1>4. \A k \in ts : ~Holds(g, k)'
  BY <1>1 DEF Holds, LocksOf
<1> QED
  BY <1>3, <1>4

\* The step of one thread leaves the others where they are.
LEMMA OneThread ==
  ASSUME TypeOK, NEW t \in Threads, NEW label, NEW l, Goto(t, label), loc' = [loc EXCEPT ![t] = l]
  PROVE  /\ pc'[t] = label /\ loc'[t] = l
         /\ \A u \in Threads : u # t => pc'[u] = pc[u] /\ loc'[u] = loc[u]
BY DEF TypeOK, Goto

\* release takes its token out of the index and goes to the lock.
LEMMA ReleaseTokenStrand ==
  ASSUME StrandInv, TypeInv', NEW t \in Threads, NEW token \in Tokens, NEW rest \in SUBSET Tokens,
         ReleaseToken(t, token, rest), ~Pending(t), pc[t] # "rel_file",
         UNCHANGED <<table, nextToken>>
  PROVE  StrandInv'
<1>0. TypeOK /\ TypeOK' /\ tokenIndex[token] \in LockFiles \cup {NoFile}
  BY DEF StrandInv, TypeInv, TypeOK
<1>1. \A f, k : Holds(f, k)' <=> Holds(f, k)
  BY DEF Holds, LocksOf
<1>2. tokenIndex' = [tokenIndex EXCEPT ![token] = NoFile]
  BY DEF ReleaseToken
<1>3. \A k \in Tokens : tokenIndex'[k] = IF k = token THEN NoFile ELSE tokenIndex[k]
  BY <1>0, <1>2 DEF TypeOK
<1>4. PICK label, l : /\ Goto(t, label) /\ loc' = [loc EXCEPT ![t] = l]
                      /\ \/ /\ label = "rel_file" /\ l.token = token
                            /\ l.file = tokenIndex[token] /\ tokenIndex[token] # NoFile
                         \/ label \in {"rel_next", "idle"} /\ l.token = 0 /\ tokenIndex[token] = NoFile
  <2>1. CASE tokenIndex[token] # NoFile
    <3>1. PICK l : l = [NoLocals EXCEPT !.token = token, !.file = tokenIndex[token], !.todo = rest]
      OBVIOUS
    <3>2. l.token = token /\ l.file = tokenIndex[token]
      BY <3>1 DEF NoLocals
    <3>3. Goto(t, "rel_file") /\ loc' = [loc EXCEPT ![t] = l]
      BY <2>1, <3>1 DEF ReleaseToken
    <3> QED
      BY <2>1, <3>2, <3>3
  <2>2. CASE tokenIndex[token] = NoFile
    <3>1. PICK l : l = [NoLocals EXCEPT !.todo = rest]
      OBVIOUS
    <3>2. l.token = 0
      BY <3>1 DEF NoLocals
    <3>3. (Goto(t, "rel_next") \/ Goto(t, "idle")) /\ loc' = [loc EXCEPT ![t] = l]
      BY <2>2, <3>1 DEF ReleaseToken, ReleaseEnds
    <3> QED
      BY <2>2, <3>2, <3>3
  <2> QED
    BY <2>1, <2>2
<1>5. /\ pc'[t] = label /\ loc'[t] = l
      /\ \A u \in Threads : u # t => pc'[u] = pc[u] /\ loc'[u] = loc[u]
  BY <1>0, <1>4, OneThread
<1>6. ~Pending(t)'
  BY <1>4, <1>5 DEF Pending
<1>8. \A k \in Tokens : loc'[t].token = k => tokenIndex[k] # NoFile \/ loc[t].token = k
  BY <1>4, <1>5 DEF Tokens
<1>9. \A k \in Tokens : \/ tokenIndex'[k] = tokenIndex[k]
                        \/ tokenIndex'[k] = NoFile /\ pc'[t] = "rel_file" /\ loc'[t].token = k
  BY <1>3, <1>4, <1>5
<1>10. \A f \in LockFiles, k \in Tokens : pc'[t] = "rel_file" /\ loc'[t].token = k /\ Holds(f, k)' => f = loc'[t].file
  <2> SUFFICES ASSUME NEW f \in LockFiles, NEW k \in Tokens, pc'[t] = "rel_file", loc'[t].token = k, Holds(f, k)
               PROVE  f = loc'[t].file
    BY <1>1
  <2>1. k = token /\ loc'[t].file = tokenIndex[token]
    BY <1>4, <1>5
  <2>3. tokenIndex[token] # NoFile
    BY <1>4, <1>5
  <2> QED
    BY <2>1, <2>3 DEF StrandInv, IndexLeadsThere
<1> QED
  BY <1>1, <1>5, <1>6, <1>8, <1>9, <1>10, StrandThread

\* The rest of release, release_all, upgrade and downgrade.
LEMMA LaterStrand ==
  ASSUME StrandInv, TypeInv', NEW t \in Threads,
         \/ ReleaseFromFile(t) \/ ReleaseFromOwners(t) \/ Upgrade(t) \/ Downgrade(t)
         \/ \E w \in Clients : ReleaseAll(t, w)
         \/ \E token \in Tokens, label \in {"upgrade", "downgrade"} : ModeLookup(t, token, label)
  PROVE  StrandInv'
<1>0. TypeOK /\ TypeOK' /\ loc[t] \in Locals
  BY LocalsFields DEF StrandInv, TypeInv
<1>1. CASE ReleaseFromFile(t)
  <2>1. /\ pc[t] = "rel_file" /\ Goto(t, "rel_owner") /\ UNCHANGED <<tokenIndex, nextToken, loc>>
        /\ table' = [table EXCEPT ![loc[t].file] = WithoutTokens(loc[t].file, {loc[t].token})]
    BY <1>1 DEF ReleaseFromFile
  <2>2. pc'[t] = "rel_owner" /\ \A u \in Threads : u # t => pc'[u] = pc[u] /\ loc'[u] = loc[u]
    BY <1>0, <2>1 DEF Goto, TypeOK
  <2>4. \A f \in LockFiles, k \in Tokens : Holds(f, k)' => Holds(f, k)
    <3>1. CASE loc[t].file \in LockFiles
      BY <1>0, <2>1, <3>1, DropsShrink
    <3>2. CASE loc[t].file \notin LockFiles
      <4>1. table' = table
        BY <1>0, <2>1, <3>2 DEF TypeOK
      <4> QED
        BY <4>1 DEF Holds, LocksOf
    <3> QED
      BY <3>1, <3>2
  <2>5. ASSUME NEW f \in LockFiles, NEW k \in Tokens, loc[t].token = k PROVE ~Holds(f, k)'
    <3>1. Holds(f, k) => f = loc[t].file
      BY <2>1, <2>5 DEF StrandInv, InProgress
    <3>2. f = loc[t].file => ~Holds(f, k)'
      <4> SUFFICES ASSUME f = loc[t].file PROVE ~Holds(f, k)'
        OBVIOUS
      <4>1. table' = [table EXCEPT ![f] = WithoutTokens(f, {k})]
        BY <2>1, <2>5
      <4> QED
        BY <1>0, <4>1, DropsShrink
    <3> QED
      BY <2>4, <3>1, <3>2
  <2> QED
    BY <2>1, <2>2, <2>4, <2>5, StrandThread DEF Pending
<1>2. CASE \/ ReleaseFromOwners(t) \/ \E w \in Clients : ReleaseAll(t, w)
           \/ \E token \in Tokens, label \in {"upgrade", "downgrade"} : ModeLookup(t, token, label)
  <2>1. /\ UNCHANGED <<table, tokenIndex, nextToken>> /\ pc[t] \in {"rel_owner", "idle"}
    BY <1>2 DEF ReleaseFromOwners, ReleaseAll, ModeLookup
  <2>2. PICK label, l : /\ Goto(t, label) /\ loc' = [loc EXCEPT ![t] = l]
                        /\ label \in {"idle", "rel_next", "upgrade", "downgrade"}
                        /\ l.token = 0 \/ tokenIndex[l.token] # NoFile
    <3>1. CASE ReleaseFromOwners(t)
      <4>1. PICK l : l = [NoLocals EXCEPT !.todo = loc[t].todo]
        OBVIOUS
      <4>2. l.token = 0
        BY <4>1 DEF NoLocals
      <4>3. (Goto(t, "rel_next") \/ Goto(t, "idle")) /\ loc' = [loc EXCEPT ![t] = l]
        BY <3>1, <4>1 DEF ReleaseFromOwners, ReleaseEnds
      <4> QED
        BY <4>2, <4>3
    <3>2. CASE \E w \in Clients : ReleaseAll(t, w)
      <4>0. PICK w \in Clients : ReleaseAll(t, w)
        BY <3>2
      <4>1. PICK l : l = [NoLocals EXCEPT !.todo = ownerIndex[w]]
        OBVIOUS
      <4>2. l.token = 0
        BY <4>1 DEF NoLocals
      <4>3. Goto(t, "rel_next") /\ loc' = [loc EXCEPT ![t] = l]
        BY <4>0, <4>1 DEF ReleaseAll
      <4> QED
        BY <4>2, <4>3
    <3>3. CASE \E token \in Tokens, label \in {"upgrade", "downgrade"} : ModeLookup(t, token, label)
      <4>0. PICK token \in Tokens, label \in {"upgrade", "downgrade"} : ModeLookup(t, token, label)
        BY <3>3
      <4>1. PICK l : l = [NoLocals EXCEPT !.token = token, !.file = tokenIndex[token]]
        OBVIOUS
      <4>2. l.token = token
        BY <4>1 DEF NoLocals
      <4>3. Goto(t, label) /\ loc' = [loc EXCEPT ![t] = l] /\ tokenIndex[token] # NoFile
        BY <4>0, <4>1 DEF ModeLookup
      <4> QED
        BY <4>2, <4>3
    <3> QED
      BY <1>2, <3>1, <3>2, <3>3
  <2>3. /\ pc'[t] = label /\ loc'[t] = l
        /\ \A u \in Threads : u # t => pc'[u] = pc[u] /\ loc'[u] = loc[u]
    BY <1>0, <2>2, OneThread
  <2>5. \A k \in Tokens : loc'[t].token = k => tokenIndex[k] # NoFile
    BY <2>2, <2>3 DEF Tokens
  <2>6. \A f, k : Holds(f, k)' <=> Holds(f, k)
    BY <2>1 DEF Holds, LocksOf
  <2>7. pc[t] # "rel_file" /\ pc'[t] # "rel_file" /\ ~Pending(t) /\ ~Pending(t)'
    BY <2>1, <2>2, <2>3 DEF Pending
  <2> QED
    BY <2>1, <2>3, <2>5, <2>6, <2>7, StrandThread
<1>3. CASE Upgrade(t) \/ Downgrade(t)
  <2>1. PICK mode, locks : /\ SetMode(t, "upgrade", mode, locks) \/ SetMode(t, "downgrade", mode, locks)
                           /\ NoLock \notin locks /\ (locks \subseteq Lock \/ loc[t].file \notin LockFiles)
    <3>1. loc[t].file \in LockFiles => Downgradable(t) \subseteq Lock /\ Upgradable(t) \subseteq Lock
      BY <1>0, LocksAreLocks DEF Downgradable, Upgradable
    <3>2. NoLock \notin Downgradable(t) /\ NoLock \notin Upgradable(t)
      BY DEF Downgradable, Upgradable, LocksOf
    <3> QED
      BY <1>3, <3>1, <3>2 DEF Upgrade, Downgrade
  <2>2. /\ pc[t] \in {"upgrade", "downgrade"} /\ Goto(t, "idle") /\ loc' = [loc EXCEPT ![t] = NoLocals]
        /\ UNCHANGED <<tokenIndex, nextToken>>
    BY <2>1 DEF SetMode
  <2>3. /\ pc'[t] = "idle" /\ loc'[t] = NoLocals
        /\ \A u \in Threads : u # t => pc'[u] = pc[u] /\ loc'[u] = loc[u]
    BY <1>0, <2>2, OneThread
  <2>4. \A f \in LockFiles, k \in Tokens : Holds(f, k)' => Holds(f, k)
    <3>1. CASE loc[t].file \notin LockFiles
      <4>1. table' = table
        BY <1>0, <2>1, <3>1 DEF SetMode, TypeOK
      <4> QED
        BY <4>1 DEF Holds, LocksOf
    <3>2. CASE loc[t].file \in LockFiles
      <4> DEFINE h == loc[t].file
                 Moded(k) == [k EXCEPT !.mode = mode]
      <4>1. \A k \in Lock : Moded(k).token = k.token
        BY DEF Lock
      <4>2. table' = [table EXCEPT ![h] = [o \in Offsets |-> IF table[h][o] \in locks THEN Moded(table[h][o]) ELSE table[h][o]]]
        BY <2>1 DEF SetMode
      <4> HIDE DEF Moded, h
      <4>3. ASSUME NEW f \in LockFiles, NEW o \in Offsets, table'[f][o] # NoLock
            PROVE  table[f][o] # NoLock /\ table'[f][o].token = table[f][o].token
        <5>1. table'[f][o] = table[f][o] \/ (table[f][o] \in locks /\ table'[f][o] = Moded(table[f][o]))
          BY <1>0, <4>2 DEF TypeOK
        <5> QED
          BY <2>1, <3>2, <4>1, <4>3, <5>1
      <4> QED
        BY <1>0, <4>3, HoldsShrinks
    <3> QED
      BY <3>1, <3>2
  <2>5. NoLocals.token = 0 /\ 0 \notin Tokens
    BY DEF NoLocals, Tokens
  <2>7. pc[t] # "rel_file" /\ pc'[t] # "rel_file" /\ ~Pending(t) /\ ~Pending(t)'
    BY <2>2, <2>3 DEF Pending
  <2> QED
    BY <2>2, <2>3, <2>4, <2>5, <2>7, StrandThread
<1> QED
  BY <1>1, <1>2, <1>3

\* Every step of a sweep.
LEMMA SweepStrand ==
  ASSUME StrandInv, TypeInv', NEW t \in Sweepers, Sweep(t)
  PROVE  StrandInv'
<1>0. TypeOK /\ TypeOK' /\ t \notin Threads
  BY LockSentinels DEF StrandInv, TypeInv
<1>1. /\ nextToken' = nextToken
      /\ \A u \in Threads : pc'[u] = pc[u] /\ loc'[u] = loc[u]
  BY <1>0 DEF Sweep, ExpireStart, ExpireFile, ExpireRetain, ExpireToken, ExpireDone, Goto, TypeOK
<1>2. CASE \E f \in LockFiles : ExpireFile(t, f)
  <2>1. \A f \in LockFiles, k \in Tokens : Holds(f, k)' => Holds(f, k)
    BY <1>0, <1>2, DropsShrink DEF ExpireFile
  <2> QED
    BY <1>1, <1>2, <2>1, StrandAmbient DEF ExpireFile
<1>3. CASE ExpireStart(t) \/ (\E s \in TokenShards : ExpireRetain(t, s)) \/ ExpireDone(t)
  <2>1. UNCHANGED <<table, tokenIndex>>
    BY <1>3 DEF ExpireStart, ExpireRetain, ExpireDone
  <2>2. \A f, k : Holds(f, k)' <=> Holds(f, k)
    BY <2>1 DEF Holds, LocksOf
  <2> QED
    BY <1>1, <2>1, <2>2, StrandAmbient
<1>4. CASE \E token \in Tokens : ExpireToken(t, token)
  <2>1. PICK token \in Tokens : ExpireToken(t, token)
    BY <1>4
  <2>2. table' = table
    BY <2>1 DEF ExpireToken
  <2>3. \A f, k : Holds(f, k)' <=> Holds(f, k)
    BY <2>2 DEF Holds, LocksOf
  <2>4. \/ tokenIndex' = tokenIndex
        \/ tokenIndex' = [tokenIndex EXCEPT ![token] = NoFile] /\ \A f \in LockFiles : ~Holds(f, token)
    BY <2>1 DEF ExpireToken, Located, Holds
  <2>5. \A k \in Tokens : \/ tokenIndex'[k] = tokenIndex[k]
                          \/ tokenIndex'[k] = NoFile /\ \A f \in LockFiles : ~Holds(f, k)'
    BY <1>0, <2>3, <2>4 DEF TypeOK
  <2> QED
    BY <1>1, <2>3, <2>5, StrandAmbient
<1> QED
  BY <1>2, <1>3, <1>4 DEF Sweep

\* acquire draws a token that nobody has, and inserts its lock.
LEMMA AcquireStrand ==
  ASSUME StrandInv, TypeInv', NEW t \in Threads, NEW w \in Clients, NEW f \in LockFiles, NEW o \in Offsets,
         NEW l \in Lengths, NEW m \in Modes, NEW e \in Expiries, AcquireInsert(t, w, f, o, l, m, e)
  PROVE  StrandInv'
<1>0. /\ TypeOK /\ TypeOK' /\ nextToken \in Tokens /\ nextToken' = nextToken + 1 /\ Tokens \subseteq Nat
      /\ nextToken \in Nat
  BY LockBoundIsNat DEF StrandInv, TypeInv, TypeOK, AcquireInsert, Tokens
<1>1. CASE FindConflict(f, o, l, m, {}) # {}
  <2>1. UNCHANGED <<table, tokenIndex, pc, loc>>
    BY <1>1 DEF AcquireInsert
  <2>2. \A g, k : Holds(g, k)' <=> Holds(g, k)
    BY <2>1 DEF Holds, LocksOf
  <2> QED
    BY <1>0, <2>1, <2>2, StrandAmbient
<1>2. CASE FindConflict(f, o, l, m, {}) = {}
  <2> DEFINE new == [token |-> nextToken, owner |-> w, offset |-> o, length |-> l, mode |-> m, life |-> e]
             rec == [NoLocals EXCEPT !.token = nextToken, !.file = f]
  <2>1. /\ pc[t] = "idle" /\ table' = [table EXCEPT ![f][o] = new] /\ loc' = [loc EXCEPT ![t] = rec]
        /\ Goto(t, "acq_token") /\ UNCHANGED tokenIndex
    BY <1>2 DEF AcquireInsert
  <2>2. new.token = nextToken /\ rec.token = nextToken /\ rec.file = f
    BY DEF NoLocals
  <2> HIDE DEF new, rec
  <2>3. /\ pc'[t] = "acq_token" /\ loc'[t] = rec
        /\ \A u \in Threads : u # t => pc'[u] = pc[u] /\ loc'[u] = loc[u]
    BY <1>0, <2>1, OneThread
  <2>4. ASSUME NEW g \in LockFiles, NEW k \in Tokens, Holds(g, k)' PROVE Holds(g, k) \/ (g = f /\ k = nextToken)
    <3>1. PICK p \in Offsets : table'[g][p] # NoLock /\ table'[g][p].token = k
      BY <2>4 DEF Holds, LocksOf
    <3>2. table'[g][p] = table[g][p] \/ (g = f /\ table'[g][p] = new)
      BY <1>0, <2>1 DEF TypeOK
    <3> QED
      BY <2>2, <3>1, <3>2 DEF Holds, LocksOf
  <2>6. /\ \A g \in LockFiles : ~Holds(g, nextToken)
        /\ tokenIndex[nextToken] = NoFile /\ \A u \in Threads : loc[u].token # nextToken
    BY <1>0 DEF StrandInv, DrawnOnce
  <2>7. \A k \in Tokens : k < nextToken => k < nextToken'
    BY <1>0
  <2>8. nextToken < nextToken'
    BY <1>0
  <2>9. DrawnOnce'
    <3>1. \A g \in LockFiles, k \in Tokens : Holds(g, k)' => k < nextToken'
      BY <2>4, <2>7, <2>8 DEF StrandInv, DrawnOnce
    <3>2. \A g, h \in LockFiles, k \in Tokens : Holds(g, k)' /\ Holds(h, k)' => g = h
      BY <2>4, <2>6 DEF StrandInv, DrawnOnce
    <3>3. ASSUME NEW k \in Tokens, tokenIndex'[k] # NoFile \/ \E u \in Threads : loc'[u].token = k
          PROVE  k < nextToken'
      <4>1. k = nextToken \/ tokenIndex[k] # NoFile \/ \E u \in Threads : loc[u].token = k
        BY <2>1, <2>2, <2>3, <3>3
      <4> QED
        BY <2>7, <2>8, <4>1 DEF StrandInv, DrawnOnce
    <3> QED
      BY <3>1, <3>2, <3>3 DEF DrawnOnce
  <2>10. IndexLeadsThere'
    BY <2>1, <2>4, <2>6 DEF StrandInv, IndexLeadsThere
  <2>11. InProgress'
    <3> SUFFICES ASSUME NEW u \in Threads, NEW k \in Tokens, loc'[u].token = k
                 PROVE  /\ pc'[u] = "acq_token" => tokenIndex'[k] = NoFile /\ \A v \in Threads : v # u => loc'[v].token # k
                        /\ Pending(u)' \/ pc'[u] = "rel_file" => \A g \in LockFiles : Holds(g, k)' => g = loc'[u].file
      BY DEF InProgress
    <3>1. CASE u = t
      <4>1. k = nextToken /\ pc'[u] = "acq_token" /\ loc'[u].file = f
        BY <2>2, <2>3, <3>1
      <4> QED
        BY <2>1, <2>3, <2>4, <2>6, <3>1, <4>1
    <3>2. CASE u # t
      <4>1. loc[u].token = k /\ loc'[u] = loc[u] /\ pc'[u] = pc[u] /\ (Pending(u)' <=> Pending(u)) /\ k # nextToken
        BY <2>3, <2>6, <3>2 DEF Pending
      <4>2. \A g \in LockFiles : Holds(g, k)' => Holds(g, k)
        BY <2>4, <4>1
      <4>3. pc[u] = "acq_token" => tokenIndex'[k] = NoFile /\ \A v \in Threads : v # u => loc'[v].token # k
        BY <2>1, <2>2, <2>3, <4>1 DEF StrandInv, InProgress
      <4>4. Pending(u) \/ pc[u] = "rel_file" => \A g \in LockFiles : Holds(g, k) => g = loc[u].file
        BY <4>1 DEF StrandInv, InProgress
      <4> QED
        BY <4>1, <4>2, <4>3, <4>4
    <3> QED
      BY <3>1, <3>2
  <2>12. Led'
    <3> SUFFICES ASSUME NEW g \in LockFiles, NEW k \in Tokens, Holds(g, k)', tokenIndex'[k] # g
                 PROVE  Unindexed(k)' \/ Releasing(k)'
      BY DEF Led
    <3>1. CASE k = nextToken
      BY <2>2, <2>3, <3>1 DEF Unindexed
    <3>2. CASE k # nextToken
      <4>1. Unindexed(k) \/ Releasing(k)
        BY <2>1, <2>4, <3>2 DEF StrandInv, Led
      <4> QED
        BY <2>1, <2>3, <4>1 DEF Unindexed, Releasing
    <3> QED
      BY <3>1, <3>2
  <2> QED
    BY <2>9, <2>10, <2>11, <2>12 DEF StrandInv
<1> QED
  BY <1>1, <1>2

\* acquire publishes the token it has drawn.
LEMMA IndexTokenStrand ==
  ASSUME StrandInv, TypeInv', NEW t \in Threads, AcquireIndexToken(t)
  PROVE  StrandInv'
<1> DEFINE n == loc[t].token
<1>0. TypeOK /\ TypeOK' /\ pc[t] = "acq_token" /\ Pending(t) /\ n \in Tokens
  BY DEF StrandInv, TypeInv, LocalsOK, AcquireIndexToken, Pending
<1>1. /\ \A u \in Threads : u # t => loc[u].token # n
      /\ \A g \in LockFiles : Holds(g, n) => g = loc[t].file
      /\ n < nextToken
  BY <1>0 DEF StrandInv, InProgress, DrawnOnce
<1>2. /\ Goto(t, "acq_owner") /\ UNCHANGED <<table, nextToken, loc>>
      /\ tokenIndex' = [tokenIndex EXCEPT ![n] = loc[t].file]
  BY DEF AcquireIndexToken
<1>3. \A g, k : Holds(g, k)' <=> Holds(g, k)
  BY <1>2 DEF Holds, LocksOf
<1>4. pc'[t] = "acq_owner" /\ \A u \in Threads : u # t => pc'[u] = pc[u]
  BY <1>0, <1>2 DEF Goto, TypeOK
<1>5. tokenIndex'[n] = loc[t].file /\ \A k \in Tokens : k # n => tokenIndex'[k] = tokenIndex[k]
  BY <1>0, <1>2 DEF TypeOK
<1>6. DrawnOnce'
  <2> HIDE DEF n
  <2> QED
    BY <1>1, <1>2, <1>3, <1>5 DEF StrandInv, DrawnOnce
<1>7. IndexLeadsThere'
  BY <1>1, <1>3, <1>5 DEF StrandInv, IndexLeadsThere
<1>8. InProgress'
  <2> SUFFICES ASSUME NEW u \in Threads, NEW k \in Tokens, loc'[u].token = k
               PROVE  /\ pc'[u] = "acq_token" => tokenIndex'[k] = NoFile /\ \A v \in Threads : v # u => loc'[v].token # k
                      /\ Pending(u)' \/ pc'[u] = "rel_file" => \A g \in LockFiles : Holds(g, k)' => g = loc'[u].file
    BY DEF InProgress
  <2>1. loc[u].token = k /\ loc' = loc
    BY <1>2
  <2>2. pc'[u] = "acq_token" => pc[u] = "acq_token" /\ u # t /\ k # n
    BY <1>1, <1>4, <2>1
  <2>3. Pending(u)' \/ pc'[u] = "rel_file" => Pending(u) \/ pc[u] = "rel_file"
    BY <1>0, <1>4 DEF Pending
  <2>4. pc[u] = "acq_token" => tokenIndex[k] = NoFile /\ \A v \in Threads : v # u => loc[v].token # k
    BY <2>1 DEF StrandInv, InProgress
  <2>5. Pending(u) \/ pc[u] = "rel_file" => \A g \in LockFiles : Holds(g, k) => g = loc[u].file
    BY <2>1 DEF StrandInv, InProgress
  <2> QED
    BY <1>3, <1>5, <2>1, <2>2, <2>3, <2>4, <2>5
<1>9. Led'
  <2> SUFFICES ASSUME NEW g \in LockFiles, NEW k \in Tokens, Holds(g, k), tokenIndex'[k] # g
               PROVE  Unindexed(k)' \/ Releasing(k)'
    BY <1>3 DEF Led
  <2>1. k # n
    BY <1>1, <1>5
  <2>2. Unindexed(k) \/ Releasing(k)
    BY <1>5, <2>1 DEF StrandInv, Led
  <2>3. PICK u \in Threads : loc[u].token = k /\ pc[u] \in {"acq_token", "rel_file"}
    BY <2>2 DEF Unindexed, Releasing
  <2>4. u # t
    BY <2>1, <2>3
  <2> QED
    BY <1>2, <1>4, <2>3, <2>4 DEF Unindexed, Releasing
<1> QED
  BY <1>6, <1>7, <1>8, <1>9 DEF StrandInv

\* acquire returns: its token has been in token_index since the step before.
LEMMA IndexOwnerStrand ==
  ASSUME StrandInv, TypeInv', NEW t \in Threads, AcquireIndexOwner(t)
  PROVE  StrandInv'
<1>0. TypeOK /\ TypeOK' /\ pc[t] = "acq_owner"
  BY DEF StrandInv, TypeInv, AcquireIndexOwner
<1>1. /\ Goto(t, "idle") /\ loc' = [loc EXCEPT ![t] = NoLocals]
      /\ UNCHANGED <<table, tokenIndex, nextToken>>
  BY DEF AcquireIndexOwner
<1>2. /\ pc'[t] = "idle" /\ loc'[t] = NoLocals
      /\ \A u \in Threads : u # t => pc'[u] = pc[u] /\ loc'[u] = loc[u]
  BY <1>0, <1>1, OneThread
<1>3. NoLocals.token = 0 /\ 0 \notin Tokens
  BY DEF NoLocals, Tokens
<1>4. \A g, k : Holds(g, k)' <=> Holds(g, k)
  BY <1>1 DEF Holds, LocksOf
<1>5. \A u \in Threads, k \in Tokens : loc'[u].token = k => u # t /\ loc[u].token = k /\ loc'[u] = loc[u] /\ pc'[u] = pc[u]
  BY <1>2, <1>3
<1>6. DrawnOnce'
  BY <1>1, <1>4, <1>5 DEF StrandInv, DrawnOnce
<1>7. IndexLeadsThere'
  BY <1>1, <1>4 DEF StrandInv, IndexLeadsThere
<1>8. InProgress'
  <2> SUFFICES ASSUME NEW u \in Threads, NEW k \in Tokens, loc'[u].token = k
               PROVE  /\ pc'[u] = "acq_token" => tokenIndex'[k] = NoFile /\ \A v \in Threads : v # u => loc'[v].token # k
                      /\ Pending(u)' \/ pc'[u] = "rel_file" => \A g \in LockFiles : Holds(g, k)' => g = loc'[u].file
    BY DEF InProgress
  <2>1. loc[u].token = k /\ loc'[u] = loc[u] /\ pc'[u] = pc[u] /\ (Pending(u)' <=> Pending(u))
    BY <1>5 DEF Pending
  <2>2. pc[u] = "acq_token" => tokenIndex[k] = NoFile /\ \A v \in Threads : v # u => loc[v].token # k
    BY <2>1 DEF StrandInv, InProgress
  <2>3. Pending(u) \/ pc[u] = "rel_file" => \A g \in LockFiles : Holds(g, k) => g = loc[u].file
    BY <2>1 DEF StrandInv, InProgress
  <2> QED
    BY <1>1, <1>4, <1>5, <2>1, <2>2, <2>3
<1>9. Led'
  <2> SUFFICES ASSUME NEW g \in LockFiles, NEW k \in Tokens, Holds(g, k), tokenIndex[k] # g
               PROVE  Unindexed(k)' \/ Releasing(k)'
    BY <1>1, <1>4 DEF Led
  <2>1. PICK u \in Threads : loc[u].token = k /\ pc[u] \in {"acq_token", "rel_file"}
    BY DEF StrandInv, Led, Unindexed, Releasing
  <2>2. u # t
    BY <1>0, <2>1
  <2> QED
    BY <1>2, <2>1, <2>2 DEF Unindexed, Releasing
<1> QED
  BY <1>6, <1>7, <1>8, <1>9 DEF StrandInv

\* Every step keeps the way to every lock.
LEMMA StrandPreserved == StrandInv /\ [LockNext]_lockVars => StrandInv'
<1> SUFFICES ASSUME StrandInv, [LockNext]_lockVars PROVE StrandInv'
  OBVIOUS
<1>0. TypeInv' /\ TypeOK /\ TypeOK'
  BY TypeStep DEF StrandInv, TypeInv
<1>1. CASE UNCHANGED lockVars
  <2>1. \A g, k : Holds(g, k)' <=> Holds(g, k)
    BY <1>1 DEF Holds, LocksOf, lockVars
  <2> QED
    BY <1>0, <1>1, <2>1, StrandAmbient DEF lockVars
<1>2. ASSUME NEW t \in Threads, Call(t) PROVE StrandInv'
  <2>1. CASE \E token \in Tokens : ReleaseLock(t, token)
    <3>1. PICK token \in Tokens : ReleaseLock(t, token)
      BY <2>1
    <3>2. pc[t] = "idle" /\ ReleaseToken(t, token, {}) /\ UNCHANGED <<table, nextToken>>
      BY <3>1 DEF ReleaseLock
    <3>3. ~Pending(t)
      BY <3>2 DEF Pending
    <3> QED
      BY <1>0, <3>2, <3>3, ReleaseTokenStrand
  <2>2. CASE \E w \in Clients, f \in LockFiles, o \in Offsets, l \in Lengths, m \in Modes,
                e \in Expiries : AcquireInsert(t, w, f, o, l, m, e)
    BY <1>0, <2>2, AcquireStrand
  <2> QED
    BY <1>0, <1>2, <2>1, <2>2, LaterStrand DEF Call
<1>3. ASSUME NEW t \in Threads, Finish(t) PROVE StrandInv'
  <2>1. CASE ReleaseRest(t)
    <3>1. PICK token \in loc[t].todo : ReleaseToken(t, token, loc[t].todo \ {token})
      BY <2>1 DEF ReleaseRest
    <3>2. /\ pc[t] = "rel_next" /\ token \in Tokens /\ loc[t].todo \ {token} \in SUBSET Tokens
          /\ UNCHANGED <<table, nextToken>>
      BY <1>0, <2>1, LocalsFields DEF ReleaseRest
    <3>3. ~Pending(t)
      BY <3>2 DEF Pending
    <3> QED
      BY <1>0, <3>1, <3>2, <3>3, ReleaseTokenStrand
  <2> QED
    BY <1>0, <1>3, <2>1, IndexTokenStrand, IndexOwnerStrand, LaterStrand DEF Finish
<1>4. ASSUME NEW f \in LockFiles, NEW o \in Offsets, DeadlinePasses(f, o) PROVE StrandInv'
  <2>1. /\ table[f][o] # NoLock /\ table' = [table EXCEPT ![f][o] = [table[f][o] EXCEPT !.life = "Expired"]]
        /\ UNCHANGED <<tokenIndex, nextToken, pc, loc>>
    BY <1>0, <1>4 DEF DeadlinePasses, TypeOK
  <2> DEFINE old == table[f][o]
             late == [old EXCEPT !.life = "Expired"]
  <2>2. old \in Lock /\ late.token = old.token
    BY <1>0, <2>1 DEF TypeOK, Lock
  <2> HIDE DEF late
  <2>3. \A g \in LockFiles, p \in Offsets : table'[g][p] = table[g][p] \/ (g = f /\ p = o /\ table'[g][p] = late)
    BY <1>0, <2>1 DEF TypeOK, late
  <2>4. \A g \in LockFiles, k \in Tokens : Holds(g, k)' => Holds(g, k)
    BY <1>0, <2>1, <2>2, <2>3, HoldsShrinks
  <2> QED
    BY <1>0, <2>1, <2>4, StrandAmbient
<1> QED
  BY <1>0, <1>1, <1>2, <1>3, <1>4, SweepStrand DEF LockNext

\* The token of every lock leads to it through token_index, unless a thread is on its
\* way to insert or to remove that lock, whatever acquires, releases, mode changes and
\* sweeps do at the same time.
THEOREM NoLockStranded == LockSpec => []NoStrandedLock
<1>1. StrandInv => NoStrandedLock
  <2> SUFFICES ASSUME StrandInv, NEW f \in LockFiles, NEW k \in LocksOf(f)
               PROVE  tokenIndex[k.token] = f \/ Inserting(k.token) \/ Releasing(k.token)
    BY DEF NoStrandedLock
  <2>1. k.token \in Tokens /\ Holds(f, k.token)
    BY LocksAreLocks DEF StrandInv, TypeInv, Lock, Holds
  <2>2. Unindexed(k.token) => Inserting(k.token)
    BY DEF Unindexed, Inserting
  <2> QED
    BY <2>1, <2>2 DEF StrandInv, Led
<1> QED
  BY <1>1, StrandInitial, StrandPreserved, PTL DEF LockSpec
=============================================================================
