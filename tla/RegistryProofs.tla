--------------------------- MODULE RegistryProofs ----------------------------
(* What the chunk registry and its garbage collector guarantee, for any       *)
(* number of threads, chunks and versions.                                    *)
EXTENDS ChunkRegistry, FiniteSetTheorems, TLAPS

RLabels == {"idle", "reg_link", "reg_insert", "reg_new_link", "unreg", "dec_reset", "gc", "gc_delete"}
RTasks == [chunk : Chunks \cup {"none"}, version : Versions \cup {NoVersion}, old : Int,
           todo : SUBSET Chunks, done : SUBSET Chunks, caller : {"none", "user", "collect"}]
RegLabels == {"reg_link", "reg_insert", "reg_new_link"}

\* What a thread has in its hands.
RInHand ==
  \A t \in Threads :
    /\ rpc[t] \in RegLabels => (rloc[t].chunk \in Chunks /\ rloc[t].version \in Versions /\ registers >= 1)
    /\ rpc[t] \in {"dec_reset", "gc_delete"} => rloc[t].chunk \in Chunks
    /\ rpc[t] = "gc_delete" => rloc[t].old \in 0 .. registers

RTypes ==
  /\ count \in [Chunks -> {Absent} \cup 0 .. MaxU32]
  /\ links \in [Versions -> SUBSET Chunks]
  /\ rpc \in [Threads -> RLabels] /\ rloc \in [Threads -> RTasks]
  /\ registers \in 0 .. MaxRegisters
  /\ RInHand

\* The threads at work on a chunk: about to link it, about to insert its metadata,
\* about to take a reference off, to reset its count, to delete it; and those that
\* have it on their list of garbage.
Linkers(c)   == {t \in Threads : rpc[t] \in {"reg_link", "reg_new_link"} /\ rloc[t].chunk = c}
Inserters(c) == {t \in Threads : rpc[t] = "reg_insert" /\ rloc[t].chunk = c}
Droppers(c)  == {t \in Threads : rpc[t] \in {"unreg", "dec_reset"} /\ c \in rloc[t].todo}
Resetters(c) == {t \in Threads : rpc[t] = "dec_reset" /\ rloc[t].chunk = c}
Deleters(c)  == {t \in Threads : Deleting(t, c)}
Listers(c)   == {t \in Threads : rpc[t] \in {"gc", "gc_delete"} /\ c \in rloc[t].todo}

Unused(c) == Users(c) = {} /\ Linkers(c) = {} /\ Droppers(c) = {}

\* Nobody deletes the chunk: its count is that of its versions, of the threads
\* about to link it and of those about to take a reference off.
Settled(c) ==
  /\ Deleters(c) = {} /\ Resetters(c) = {}
  /\ count[c] = Absent => Unused(c)
  /\ count[c] # Absent =>
       /\ count[c] = Cardinality(Users(c)) + Cardinality(Linkers(c)) + Cardinality(Droppers(c))
       /\ c \in stored
  /\ Inserters(c) # {} => c \in stored
  /\ Listers(c) # {} => count[c] \in {0, Absent}
  /\ (Listers(c) # {} /\ Inserters(c) # {}) => count[c] # Absent

\* One thread deletes the chunk, which nobody uses, and its data is still there.
Vanishing(c) ==
  /\ \E t \in Threads : Deleters(c) = {t} /\ rloc[t].old = 0
  /\ Resetters(c) = {} /\ count[c] = Absent /\ Unused(c) /\ c \in stored

\* The end of the deletion is sure to be one of the races.
Doomed(c) == \E t \in Deleters(c) : count[c] # Absent \/ \E u \in Deleters(c) : u # t

\* Threads that register the chunk do so for versions of their own.
Apart(c) ==
  \A t, u \in Linkers(c) \cup Inserters(c) :
    c \notin links[rloc[t].version] /\ (rloc[t].version = rloc[u].version => t = u)

ChunkOK(c) == Apart(c) /\ (Settled(c) \/ Vanishing(c) \/ Doomed(c))

Exact == \A c \in Chunks \ racedChunks : ChunkOK(c)

\* A count above the number of registrations has wrapped around and is being reset.
Bounded == \A c \in Chunks : count[c] <= registers \/ Resetters(c) # {}

RegistryInv == RTypes /\ Bounded /\ Exact

-----------------------------------------------------------------------------
\* The empty locals.
LEMMA NoTask == NoRegistryWork \in RTasks
BY DEF NoRegistryWork, RTasks, Absent

\* No chunk at the start.
LEMMA RegistryInitial == RegistryInit => RegistryInv
<1> SUFFICES ASSUME RegistryInit PROVE RegistryInv
  OBVIOUS
<1>1. /\ \A c \in Chunks : count[c] = Absent
      /\ \A v \in Versions : links[v] = {}
      /\ \A t \in Threads : rpc[t] = "idle"
      /\ registers = 0
  BY DEF RegistryInit
<1>2. count \in [Chunks -> {Absent} \cup 0 .. MaxU32] /\ links \in [Versions -> SUBSET Chunks]
  BY DEF RegistryInit
<1>3. rpc \in [Threads -> RLabels] /\ rloc \in [Threads -> RTasks]
  BY NoTask DEF RegistryInit, RLabels
<1>4. registers \in 0 .. MaxRegisters
  BY <1>1, RegistryConstants
<1>5. RInHand
  BY <1>1 DEF RInHand, RegLabels
<1>6. RTypes
  BY <1>2, <1>3, <1>4, <1>5 DEF RTypes
<1>7. Bounded
  BY <1>1 DEF Bounded, Absent
<1>8. ASSUME NEW c \in Chunks PROVE ChunkOK(c)
  <2>1. /\ Linkers(c) = {} /\ Inserters(c) = {} /\ Droppers(c) = {} /\ Resetters(c) = {} /\ Deleters(c) = {} /\ Listers(c) = {}
        /\ Users(c) = {}
    BY <1>1 DEF Linkers, Inserters, Droppers, Resetters, Deleters, Deleting, Listers, Users
  <2> QED
    BY <1>1, <2>1 DEF ChunkOK, Apart, Settled, Unused
<1> QED
  BY <1>6, <1>7, <1>8 DEF RegistryInv, Exact

\* What a step of one thread leaves of the others.
LEMMA RMoved ==
  ASSUME RTypes, NEW t \in Threads, NEW label \in RLabels, NEW work \in RTasks, RGoto(t, label, work)
  PROVE  /\ rpc' \in [Threads -> RLabels] /\ rloc' \in [Threads -> RTasks]
         /\ rpc'[t] = label /\ rloc'[t] = work
         /\ \A u \in Threads \ {t} : rpc'[u] = rpc[u] /\ rloc'[u] = rloc[u]
BY DEF RGoto, RTypes

\* How the thread that moves leaves a set S of threads: it is in the new one, S2, or not.
Moves(t, S, S2, in) ==
  (in => S2 = S \cup {t}) /\ (~in => S2 = S \ {t}) /\ ((t \in S <=> in) => S2 = S)

\* Where the thread that moves is found afterwards.
LEMMA Roles ==
  ASSUME RTypes, NEW t \in Threads, NEW label \in RLabels, NEW work \in RTasks, RGoto(t, label, work), NEW c
  PROVE  /\ Moves(t, Linkers(c), Linkers(c)', label \in {"reg_link", "reg_new_link"} /\ work.chunk = c)
         /\ Moves(t, Inserters(c), Inserters(c)', label = "reg_insert" /\ work.chunk = c)
         /\ Moves(t, Droppers(c), Droppers(c)', label \in {"unreg", "dec_reset"} /\ c \in work.todo)
         /\ Moves(t, Resetters(c), Resetters(c)', label = "dec_reset" /\ work.chunk = c)
         /\ Moves(t, Deleters(c), Deleters(c)', label = "gc_delete" /\ work.chunk = c)
         /\ Moves(t, Listers(c), Listers(c)', label \in {"gc", "gc_delete"} /\ c \in work.todo)
<1>1. /\ rpc'[t] = label /\ rloc'[t] = work
      /\ \A u \in Threads \ {t} : rpc'[u] = rpc[u] /\ rloc'[u] = rloc[u]
  BY RMoved
<1>2. Moves(t, Linkers(c), Linkers(c)', label \in {"reg_link", "reg_new_link"} /\ work.chunk = c)
  <2>1. \A u : u \in Linkers(c)' <=> ((u = t /\ label \in {"reg_link", "reg_new_link"} /\ work.chunk = c) \/ (u # t /\ u \in Linkers(c)))
    BY <1>1 DEF Linkers
  <2> QED
    BY <2>1 DEF Moves
<1>3. Moves(t, Inserters(c), Inserters(c)', label = "reg_insert" /\ work.chunk = c)
  <2>1. \A u : u \in Inserters(c)' <=> ((u = t /\ label = "reg_insert" /\ work.chunk = c) \/ (u # t /\ u \in Inserters(c)))
    BY <1>1 DEF Inserters
  <2> QED
    BY <2>1 DEF Moves
<1>4. Moves(t, Droppers(c), Droppers(c)', label \in {"unreg", "dec_reset"} /\ c \in work.todo)
  <2>1. \A u : u \in Droppers(c)' <=> ((u = t /\ label \in {"unreg", "dec_reset"} /\ c \in work.todo) \/ (u # t /\ u \in Droppers(c)))
    BY <1>1 DEF Droppers
  <2> QED
    BY <2>1 DEF Moves
<1>5. Moves(t, Resetters(c), Resetters(c)', label = "dec_reset" /\ work.chunk = c)
  <2>1. \A u : u \in Resetters(c)' <=> ((u = t /\ label = "dec_reset" /\ work.chunk = c) \/ (u # t /\ u \in Resetters(c)))
    BY <1>1 DEF Resetters
  <2> QED
    BY <2>1 DEF Moves
<1>6. Moves(t, Deleters(c), Deleters(c)', label = "gc_delete" /\ work.chunk = c)
  <2>1. \A u : u \in Deleters(c)' <=> ((u = t /\ label = "gc_delete" /\ work.chunk = c) \/ (u # t /\ u \in Deleters(c)))
    BY <1>1 DEF Deleters, Deleting
  <2> QED
    BY <2>1 DEF Moves
<1>7. Moves(t, Listers(c), Listers(c)', label \in {"gc", "gc_delete"} /\ c \in work.todo)
  <2>1. \A u : u \in Listers(c)' <=> ((u = t /\ label \in {"gc", "gc_delete"} /\ c \in work.todo) \/ (u # t /\ u \in Listers(c)))
    BY <1>1 DEF Listers
  <2> QED
    BY <2>1 DEF Moves
<1> QED
  BY <1>2, <1>3, <1>4, <1>5, <1>6, <1>7

\* A chunk that the step is not about.
LEMMA Untouched ==
  ASSUME NEW c \in Chunks, ChunkOK(c),
         Linkers(c)' = Linkers(c), Inserters(c)' = Inserters(c), Droppers(c)' = Droppers(c), Resetters(c)' = Resetters(c),
         Deleters(c)' = Deleters(c), Listers(c)' \subseteq Listers(c), Users(c)' = Users(c),
         count'[c] = count[c], c \in stored => c \in stored',
         \A t \in Linkers(c) \cup Inserters(c) : rloc'[t].version = rloc[t].version /\ (c \in links'[rloc[t].version] => c \in links[rloc[t].version]),
         \A t \in Deleters(c) : rloc'[t].old = rloc[t].old
  PROVE  ChunkOK(c)'
<1>1. Apart(c)'
  BY DEF ChunkOK, Apart
<1>2. Settled(c) => Settled(c)'
  BY DEF Settled, Unused
<1>3. Vanishing(c) => Vanishing(c)'
  BY DEF Vanishing, Unused
<1>4. Doomed(c) => Doomed(c)'
  BY DEF Doomed
<1> QED
  BY <1>1, <1>2, <1>3, <1>4 DEF ChunkOK

\* The threads' locals keep the types their place asks for.
LEMMA RCarried ==
  ASSUME RTypes, NEW t \in Threads, NEW label \in RLabels, NEW work \in RTasks, RGoto(t, label, work),
         registers' \in Nat, registers <= registers',
         label \in RegLabels => (work.chunk \in Chunks /\ work.version \in Versions /\ registers' >= 1),
         label \in {"dec_reset", "gc_delete"} => work.chunk \in Chunks,
         label = "gc_delete" => work.old \in 0 .. registers'
  PROVE  RInHand'
<1>0. registers \in Nat /\ RInHand
  BY RegistryConstants DEF RTypes
<1>1. /\ rpc'[t] = label /\ rloc'[t] = work
      /\ \A u \in Threads \ {t} : rpc'[u] = rpc[u] /\ rloc'[u] = rloc[u]
  BY RMoved
<1> SUFFICES ASSUME NEW u \in Threads
             PROVE  /\ rpc'[u] \in RegLabels => (rloc'[u].chunk \in Chunks /\ rloc'[u].version \in Versions /\ registers' >= 1)
                    /\ rpc'[u] \in {"dec_reset", "gc_delete"} => rloc'[u].chunk \in Chunks
                    /\ rpc'[u] = "gc_delete" => rloc'[u].old \in 0 .. registers'
  BY DEF RInHand
<1>2. CASE u = t
  BY <1>1, <1>2
<1>3. CASE u # t
  BY <1>0, <1>1, <1>3 DEF RInHand
<1> QED
  BY <1>2, <1>3

\* A thread moves and is to chunk d what it was before.
LEMMA Elsewhere ==
  ASSUME RTypes, NEW t \in Threads, NEW label \in RLabels, NEW work \in RTasks, RGoto(t, label, work),
         NEW d \in Chunks, ChunkOK(d),
         t \in Linkers(d) <=> (label \in {"reg_link", "reg_new_link"} /\ work.chunk = d),
         t \in Inserters(d) <=> (label = "reg_insert" /\ work.chunk = d),
         t \in Droppers(d) <=> (label \in {"unreg", "dec_reset"} /\ d \in work.todo),
         t \in Resetters(d) <=> (label = "dec_reset" /\ work.chunk = d),
         t \in Deleters(d) <=> (label = "gc_delete" /\ work.chunk = d),
         (label \in {"gc", "gc_delete"} /\ d \in work.todo) => t \in Listers(d),
         t \in Linkers(d) \cup Inserters(d) => work.version = rloc[t].version,
         t \in Deleters(d) => work.old = rloc[t].old,
         count'[d] = count[d], d \in stored => d \in stored', \A v \in Versions : d \in links'[v] <=> d \in links[v]
  PROVE  ChunkOK(d)'
<1>1. /\ rpc'[t] = label /\ rloc'[t] = work
      /\ \A u \in Threads \ {t} : rpc'[u] = rpc[u] /\ rloc'[u] = rloc[u]
  BY RMoved
<1>2. Linkers(d)' = Linkers(d) /\ Inserters(d)' = Inserters(d) /\ Droppers(d)' = Droppers(d)
  BY Roles DEF Moves
<1>3. Resetters(d)' = Resetters(d) /\ Deleters(d)' = Deleters(d) /\ Listers(d)' \subseteq Listers(d)
  BY Roles DEF Moves
<1>4. Users(d)' = Users(d)
  BY DEF Users
<1>5. \A u \in Linkers(d) \cup Inserters(d) :
        rloc'[u].version = rloc[u].version /\ (d \in links'[rloc[u].version] => d \in links[rloc[u].version])
  <2> SUFFICES ASSUME NEW u \in Linkers(d) \cup Inserters(d)
               PROVE  rloc'[u].version = rloc[u].version /\ (d \in links'[rloc[u].version] => d \in links[rloc[u].version])
    OBVIOUS
  <2>1. u \in Threads /\ rloc[u].version \in Versions
    BY DEF Linkers, Inserters, RTypes, RInHand, RegLabels
  <2> QED
    BY <1>1, <2>1
<1>6. \A u \in Deleters(d) : rloc'[u].old = rloc[u].old
  BY <1>1 DEF Deleters
<1> QED
  BY <1>2, <1>3, <1>4, <1>5, <1>6, Untouched

\* Counts stay within the registrations, or are being reset.
LEMMA BoundKept ==
  ASSUME RTypes, Bounded, registers' \in Nat, registers <= registers', NEW c,
         \A d \in Chunks \ {c} : count'[d] = count[d] /\ Resetters(d)' = Resetters(d),
         c \in Chunks => (count'[c] <= registers' \/ Resetters(c)' # {})
  PROVE  Bounded'
<1>1. registers \in Nat /\ \A d \in Chunks : count[d] \in Int
  BY RegistryConstants DEF RTypes, Absent
<1> SUFFICES ASSUME NEW d \in Chunks, d # c PROVE count'[d] <= registers' \/ Resetters(d)' # {}
  BY DEF Bounded
<1>2. CASE count[d] <= registers
  BY <1>1, <1>2
<1> QED
  BY <1>2 DEF Bounded

\* The sets that are counted are finite.
LEMMA Finite == \A c : /\ IsFiniteSet(Users(c)) /\ IsFiniteSet(Linkers(c)) /\ IsFiniteSet(Droppers(c))
                       /\ Cardinality(Users(c)) \in Nat /\ Cardinality(Linkers(c)) \in Nat /\ Cardinality(Droppers(c)) \in Nat
<1> SUFFICES ASSUME NEW c
             PROVE  /\ IsFiniteSet(Users(c)) /\ IsFiniteSet(Linkers(c)) /\ IsFiniteSet(Droppers(c))
                    /\ Cardinality(Users(c)) \in Nat /\ Cardinality(Linkers(c)) \in Nat /\ Cardinality(Droppers(c)) \in Nat
  OBVIOUS
<1>1. Users(c) \subseteq Versions /\ Linkers(c) \subseteq Threads /\ Droppers(c) \subseteq Threads
  BY DEF Users, Linkers, Droppers
<1>2. IsFiniteSet(Users(c)) /\ IsFiniteSet(Linkers(c)) /\ IsFiniteSet(Droppers(c))
  BY <1>1, FS_Subset, RegistryConstants
<1> QED
  BY <1>2, FS_CardinalityType

\* What both ways into register have in common.
LEMMA RegisterFacts ==
  ASSUME RTypes, NEW t \in Threads, NEW c \in Chunks, NEW v \in Versions, Register(t, c, v)
  PROVE  /\ rpc[t] = "idle" /\ registers' = registers + 1 /\ registers' \in 1 .. MaxRegisters /\ registers' \in Nat /\ registers <= registers'
         /\ racedChunks \subseteq racedChunks'
         /\ c \notin racedChunks' => (c \notin links[v] /\ ~Registering(c, v) /\ Listers(c) = {})
<1>1. rpc[t] = "idle" /\ registers < MaxRegisters /\ registers' = registers + 1
  BY DEF Register
<1>2. registers' \in 1 .. MaxRegisters /\ registers' \in Nat /\ registers <= registers'
  BY <1>1, RegistryConstants DEF RTypes
<1>3. racedChunks \subseteq racedChunks'
  BY DEF Register, Race
<1>4. c \notin racedChunks' => (c \notin links[v] /\ ~Registering(c, v) /\ Listers(c) = {})
  BY DEF Register, Race, Listers
<1> QED
  BY <1>1, <1>2, <1>3, <1>4

\* A registration that meets no other of its version stays apart from them.
LEMMA RegisterApart ==
  ASSUME RTypes, NEW t \in Threads, NEW c \in Chunks, NEW v \in Versions, Apart(c), c \notin links[v], ~Registering(c, v),
         UNCHANGED links, (Linkers(c) \cup Inserters(c))' \subseteq Linkers(c) \cup Inserters(c) \cup {t},
         rloc'[t].version = v, \A u \in Threads \ {t} : rloc'[u] = rloc[u]
  PROVE  Apart(c)'
<1>1. \A u \in Linkers(c) \cup Inserters(c) : u \in Threads /\ rloc[u].version # v
  BY DEF Registering, Linkers, Inserters
<1> QED
  BY <1>1 DEF Apart

\* register finds the chunk and counts the reference before it links it.
LEMMA KnownRegistered ==
  ASSUME RegistryInv, NEW t \in Threads, NEW c \in Chunks, NEW v \in Versions, RegisterKnown(t, c, v)
  PROVE  RegistryInv'
<1>0. RTypes /\ Bounded /\ Exact
  BY DEF RegistryInv
<1> DEFINE work == [NoRegistryWork EXCEPT !.chunk = c, !.version = v]
<1>1. /\ Register(t, c, v) /\ count[c] # Absent /\ count' = [count EXCEPT ![c] = (@ + 1) % (MaxU32 + 1)]
      /\ RGoto(t, "reg_link", work) /\ UNCHANGED <<links, stored>>
  BY DEF RegisterKnown
<1>2. work \in RTasks /\ work.chunk = c /\ work.version = v /\ work.todo = {}
  BY NoTask DEF NoRegistryWork, RTasks
<1> HIDE DEF work
<1>l. "reg_link" \in RLabels /\ "reg_link" \in RegLabels
  BY DEF RLabels, RegLabels
<1>3. /\ rpc[t] = "idle" /\ registers' = registers + 1 /\ registers' \in 1 .. MaxRegisters /\ registers' \in Nat /\ registers <= registers'
      /\ racedChunks \subseteq racedChunks'
      /\ c \notin racedChunks' => (c \notin links[v] /\ ~Registering(c, v) /\ Listers(c) = {})
  BY <1>0, <1>1, RegisterFacts
<1>4. /\ rpc' \in [Threads -> RLabels] /\ rloc' \in [Threads -> RTasks] /\ rloc'[t] = work
      /\ \A u \in Threads \ {t} : rpc'[u] = rpc[u] /\ rloc'[u] = rloc[u]
  BY <1>0, <1>1, <1>2, <1>l, RMoved
<1>5. RInHand'
  BY <1>0, <1>1, <1>2, <1>3, <1>l, RCarried
<1>c. count[c] \in 0 .. MaxU32 /\ MaxU32 \in Nat /\ registers \in 0 .. MaxRegisters /\ MaxRegisters < MaxU32 /\ MaxRegisters \in Nat
  BY <1>0, <1>1, RegistryConstants DEF RTypes
<1>6. (count[c] + 1) % (MaxU32 + 1) \in 0 .. MaxU32 /\ (count[c] <= registers => (count[c] + 1) % (MaxU32 + 1) = count[c] + 1)
  BY <1>c
<1>7. count' \in [Chunks -> {Absent} \cup 0 .. MaxU32] /\ count'[c] = (count[c] + 1) % (MaxU32 + 1) /\ \A d \in Chunks \ {c} : count'[d] = count[d]
  BY <1>0, <1>1, <1>6 DEF RTypes
<1>8. RTypes'
  BY <1>0, <1>1, <1>3, <1>4, <1>5, <1>7 DEF RTypes
<1>r. \A d : Resetters(d)' = Resetters(d)
  <2>1. \A d : t \notin Resetters(d)
    BY <1>3 DEF Resetters
  <2> QED
    BY <1>0, <1>1, <1>2, <1>l, <2>1, Roles DEF Moves
<1>9. Bounded'
  <2>1. count'[c] <= registers' \/ Resetters(c)' # {}
    <3>1. CASE count[c] <= registers
      BY <1>3, <1>6, <1>7, <1>c, <3>1
    <3>2. CASE Resetters(c) # {}
      BY <1>r, <3>2
    <3> QED
      BY <1>0, <3>1, <3>2 DEF Bounded
  <2> QED
    BY <1>0, <1>3, <1>7, <1>r, <2>1, BoundKept
<1>t. \A d \in Chunks : t \notin Linkers(d) \cup Inserters(d) \cup Droppers(d) \cup Resetters(d) \cup Deleters(d) \cup Listers(d)
  BY <1>3 DEF Linkers, Inserters, Droppers, Resetters, Deleters, Deleting, Listers
<1>10. ASSUME NEW d \in Chunks \ racedChunks, d # c PROVE ChunkOK(d)'
  BY <1>0, <1>1, <1>2, <1>7, <1>l, <1>t, <1>10, Elsewhere DEF Exact
<1>11. ASSUME c \notin racedChunks' PROVE ChunkOK(c)'
  <2>0. ChunkOK(c) /\ c \notin links[v] /\ ~Registering(c, v) /\ Listers(c) = {}
    BY <1>0, <1>3, <1>11 DEF Exact
  <2>1. /\ Linkers(c)' = Linkers(c) \cup {t} /\ Inserters(c)' = Inserters(c) /\ Droppers(c)' = Droppers(c)
        /\ Resetters(c)' = Resetters(c) /\ Deleters(c)' = Deleters(c) /\ Listers(c)' = Listers(c)
    BY <1>0, <1>1, <1>2, <1>l, <1>t, Roles DEF Moves
  <2>2. Users(c)' = Users(c)
    BY <1>1 DEF Users
  <2>3. Apart(c)'
    BY <1>0, <1>1, <1>2, <1>4, <2>0, <2>1, RegisterApart DEF ChunkOK
  <2>4. count'[c] # Absent
    BY <1>6, <1>7 DEF Absent
  <2>5. Settled(c) => Settled(c)'
    <3> SUFFICES ASSUME Settled(c) PROVE Settled(c)'
      OBVIOUS
    <3>1. count[c] <= registers
      BY <1>0 DEF Settled, Bounded
    <3>2. count'[c] = count[c] + 1
      BY <1>6, <1>7, <3>1
    <3>3. Cardinality(Linkers(c)') = Cardinality(Linkers(c)) + 1
      BY <1>t, <2>1, Finite, FS_AddElement
    <3>4. count'[c] = Cardinality(Users(c)') + Cardinality(Linkers(c)') + Cardinality(Droppers(c)')
      BY <1>1, <2>1, <2>2, <3>2, <3>3, Finite DEF Settled
    <3> QED
      BY <1>1, <2>0, <2>1, <2>4, <3>4 DEF Settled
  <2>6. ~Vanishing(c)
    BY <1>1 DEF Vanishing
  <2>7. Doomed(c) => Doomed(c)'
    BY <2>1, <2>4 DEF Doomed
  <2> QED
    BY <2>0, <2>3, <2>5, <2>6, <2>7 DEF ChunkOK
<1>12. Exact'
  BY <1>3, <1>10, <1>11 DEF Exact
<1> QED
  BY <1>8, <1>9, <1>12 DEF RegistryInv

\* register stores the data of a chunk it does not know.
LEMMA NewRegistered ==
  ASSUME RegistryInv, NEW t \in Threads, NEW c \in Chunks, NEW v \in Versions, RegisterStore(t, c, v)
  PROVE  RegistryInv'
<1>0. RTypes /\ Bounded /\ Exact
  BY DEF RegistryInv
<1> DEFINE work == [NoRegistryWork EXCEPT !.chunk = c, !.version = v]
<1>1. /\ Register(t, c, v) /\ count[c] = Absent /\ stored' = stored \cup {c}
      /\ RGoto(t, "reg_insert", work) /\ UNCHANGED <<count, links>>
  BY DEF RegisterStore
<1>2. work \in RTasks /\ work.chunk = c /\ work.version = v /\ work.todo = {}
  BY NoTask DEF NoRegistryWork, RTasks
<1> HIDE DEF work
<1>l. "reg_insert" \in RLabels /\ "reg_insert" \in RegLabels
  BY DEF RLabels, RegLabels
<1>3. /\ rpc[t] = "idle" /\ registers' \in 1 .. MaxRegisters /\ registers' \in Nat /\ registers <= registers'
      /\ racedChunks \subseteq racedChunks'
      /\ c \notin racedChunks' => (c \notin links[v] /\ ~Registering(c, v) /\ Listers(c) = {})
  BY <1>0, <1>1, RegisterFacts
<1>4. /\ rpc' \in [Threads -> RLabels] /\ rloc' \in [Threads -> RTasks] /\ rloc'[t] = work
      /\ \A u \in Threads \ {t} : rpc'[u] = rpc[u] /\ rloc'[u] = rloc[u]
  BY <1>0, <1>1, <1>2, <1>l, RMoved
<1>5. RInHand'
  BY <1>0, <1>1, <1>2, <1>3, <1>l, RCarried
<1>8. RTypes'
  BY <1>0, <1>1, <1>3, <1>4, <1>5 DEF RTypes
<1>t. \A d : t \notin Linkers(d) \cup Inserters(d) \cup Droppers(d) \cup Resetters(d) \cup Deleters(d) \cup Listers(d)
  BY <1>3 DEF Linkers, Inserters, Droppers, Resetters, Deleters, Deleting, Listers
<1>r. \A d : Resetters(d)' = Resetters(d)
  BY <1>0, <1>1, <1>2, <1>l, <1>t, Roles DEF Moves
<1>9. Bounded'
  BY <1>0, <1>1, <1>3, <1>r, BoundKept DEF Absent
<1>10. ASSUME NEW d \in Chunks \ racedChunks, d # c PROVE ChunkOK(d)'
  BY <1>0, <1>1, <1>2, <1>l, <1>t, <1>10, Elsewhere DEF Exact
<1>11. ASSUME c \notin racedChunks' PROVE ChunkOK(c)'
  <2>0. ChunkOK(c) /\ c \notin links[v] /\ ~Registering(c, v) /\ Listers(c) = {}
    BY <1>0, <1>3, <1>11 DEF Exact
  <2>1. /\ Linkers(c)' = Linkers(c) /\ Inserters(c)' = Inserters(c) \cup {t} /\ Droppers(c)' = Droppers(c)
        /\ Resetters(c)' = Resetters(c) /\ Deleters(c)' = Deleters(c) /\ Listers(c)' = Listers(c)
    BY <1>0, <1>1, <1>2, <1>l, <1>t, Roles DEF Moves
  <2>2. Users(c)' = Users(c)
    BY <1>1 DEF Users
  <2>3. Apart(c)'
    BY <1>0, <1>1, <1>2, <1>4, <2>0, <2>1, RegisterApart DEF ChunkOK
  <2>5. Settled(c) => Settled(c)'
    BY <1>1, <2>0, <2>1, <2>2 DEF Settled, Unused
  <2>6. Vanishing(c) => Vanishing(c)'
    <3> SUFFICES ASSUME Vanishing(c) PROVE Vanishing(c)'
      OBVIOUS
    <3>1. PICK u \in Threads : Deleters(c) = {u} /\ rloc[u].old = 0
      BY DEF Vanishing
    <3>2. rloc'[u].old = 0
      BY <1>4, <1>t, <3>1
    <3> QED
      BY <1>1, <2>1, <2>2, <3>1, <3>2 DEF Vanishing, Unused
  <2>7. Doomed(c) => Doomed(c)'
    BY <1>1, <2>1 DEF Doomed
  <2> QED
    BY <2>0, <2>3, <2>5, <2>6, <2>7 DEF ChunkOK
<1>12. Exact'
  BY <1>3, <1>10, <1>11 DEF Exact
<1> QED
  BY <1>8, <1>9, <1>12 DEF RegistryInv

\* Threads in the middle of a call: their locals have their types.
LEMMA TaskTypes ==
  ASSUME RTypes, NEW t \in Threads
  PROVE  /\ rloc[t] \in RTasks /\ rloc[t].todo \subseteq Chunks /\ rpc[t] \in RLabels
         /\ registers \in Nat /\ registers <= registers
         /\ rpc[t] \in RegLabels => (rloc[t].chunk \in Chunks /\ rloc[t].version \in Versions /\ registers >= 1)
         /\ rpc[t] \in {"dec_reset", "gc_delete"} => rloc[t].chunk \in Chunks
         /\ rpc[t] = "gc_delete" => rloc[t].old \in 0 .. registers
<1>1. registers \in Nat /\ registers <= registers
  BY RegistryConstants DEF RTypes
<1>2. rloc[t] \in RTasks /\ rloc[t].todo \subseteq Chunks /\ rpc[t] \in RLabels
  BY DEF RTypes, RTasks
<1> QED
  BY <1>1, <1>2 DEF RTypes, RInHand

\* register inserts the metadata, with a count of one.
LEMMA Inserted ==
  ASSUME RegistryInv, NEW t \in Threads, RegisterInsert(t)
  PROVE  RegistryInv'
<1>0. RTypes /\ Bounded /\ Exact
  BY DEF RegistryInv
<1>1. PICK c \in Chunks : c = rloc[t].chunk /\ rpc[t] = "reg_insert"
  BY <1>0, TaskTypes DEF RegisterInsert, RegLabels
<1>2. /\ ChunkUnguarded(c) /\ count' = [count EXCEPT ![c] = 1] /\ Race(c, count[c] # Absent)
      /\ RGoto(t, "reg_new_link", rloc[t]) /\ UNCHANGED <<links, stored, registers>>
  BY <1>1 DEF RegisterInsert
<1>3. /\ rloc[t] \in RTasks /\ rloc[t].version \in Versions /\ registers \in Nat /\ registers <= registers /\ registers >= 1
  BY <1>0, <1>1, TaskTypes DEF RegLabels
<1>l. "reg_new_link" \in RLabels /\ "reg_new_link" \in RegLabels
  BY DEF RLabels, RegLabels
<1>4. /\ rpc' \in [Threads -> RLabels] /\ rloc' \in [Threads -> RTasks] /\ rloc'[t] = rloc[t]
      /\ \A u \in Threads \ {t} : rpc'[u] = rpc[u] /\ rloc'[u] = rloc[u]
  BY <1>0, <1>2, <1>3, <1>l, RMoved
<1>5. RInHand'
  BY <1>0, <1>1, <1>2, <1>3, <1>l, RCarried
<1>7. count' \in [Chunks -> {Absent} \cup 0 .. MaxU32] /\ count'[c] = 1 /\ \A d \in Chunks \ {c} : count'[d] = count[d]
  <2>1. 1 \in 0 .. MaxU32
    BY <1>0, <1>3, RegistryConstants DEF RTypes
  <2> QED
    BY <1>0, <1>2, <2>1 DEF RTypes
<1>8. RTypes'
  BY <1>0, <1>2, <1>4, <1>5, <1>7 DEF RTypes
<1>t. /\ \A d : t \notin Linkers(d) \cup Droppers(d) \cup Resetters(d) \cup Deleters(d) \cup Listers(d)
      /\ \A d : t \in Inserters(d) <=> d = c
  BY <1>1 DEF Linkers, Inserters, Droppers, Resetters, Deleters, Deleting, Listers
<1>r. \A d : Resetters(d)' = Resetters(d)
  BY <1>0, <1>2, <1>3, <1>l, <1>t, Roles DEF Moves
<1>9. Bounded'
  BY <1>0, <1>2, <1>3, <1>7, <1>r, BoundKept
<1>R. racedChunks \subseteq racedChunks' /\ (c \notin racedChunks' => count[c] = Absent)
  BY <1>2 DEF Race
<1>10. ASSUME NEW d \in Chunks \ racedChunks, d # c PROVE ChunkOK(d)'
  BY <1>0, <1>1, <1>2, <1>3, <1>7, <1>l, <1>t, <1>10, Elsewhere DEF Exact
<1>11. ASSUME c \notin racedChunks' PROVE ChunkOK(c)'
  <2>0. ChunkOK(c) /\ count[c] = Absent
    BY <1>0, <1>R, <1>11 DEF Exact
  <2>1. /\ Linkers(c)' = Linkers(c) \cup {t} /\ Inserters(c)' = Inserters(c) \ {t} /\ Droppers(c)' = Droppers(c)
        /\ Resetters(c)' = Resetters(c) /\ Deleters(c)' = Deleters(c) /\ Listers(c)' = Listers(c)
    BY <1>0, <1>1, <1>2, <1>3, <1>l, <1>t, Roles DEF Moves
  <2>2. Users(c)' = Users(c)
    BY <1>2 DEF Users
  <2>3. Apart(c)'
    <3>1. (Linkers(c) \cup Inserters(c))' \subseteq Linkers(c) \cup Inserters(c)
      BY <1>t, <2>1
    <3>2. \A u \in Linkers(c) \cup Inserters(c) : rloc'[u] = rloc[u]
      BY <1>4 DEF Linkers, Inserters
    <3> QED
      BY <1>2, <2>0, <3>1, <3>2 DEF ChunkOK, Apart
  <2>4. count'[c] # Absent
    BY <1>7 DEF Absent
  <2>5. Settled(c) => Settled(c)'
    <3> SUFFICES ASSUME Settled(c) PROVE Settled(c)'
      OBVIOUS
    <3>1. Unused(c) /\ c \in stored /\ Listers(c) = {}
      BY <1>t, <2>0 DEF Settled
    <3>2. Linkers(c)' = {t} /\ Users(c)' = {} /\ Droppers(c)' = {}
      BY <2>1, <2>2, <3>1 DEF Unused
    <3>3. count'[c] = Cardinality(Users(c)') + Cardinality(Linkers(c)') + Cardinality(Droppers(c)')
      <4>1. Cardinality({}) = 0 /\ Cardinality({t}) = 1
        BY FS_EmptySet, FS_Singleton
      <4>2. Cardinality(Users(c)') = 0 /\ Cardinality(Linkers(c)') = 1 /\ Cardinality(Droppers(c)') = 0
        BY <3>2, <4>1
      <4> QED
        BY <1>7, <4>2
    <3> QED
      BY <1>2, <2>1, <2>4, <3>1, <3>3 DEF Settled
  <2>6. Vanishing(c) => Doomed(c)'
    BY <2>1, <2>4 DEF Vanishing, Doomed
  <2>7. Doomed(c) => Doomed(c)'
    BY <2>1, <2>4 DEF Doomed
  <2> QED
    BY <2>0, <2>3, <2>5, <2>6, <2>7 DEF ChunkOK
<1>12. Exact'
  BY <1>R, <1>10, <1>11 DEF Exact
<1> QED
  BY <1>8, <1>9, <1>12 DEF RegistryInv

\* register links the chunk to its version: a thread's reference becomes the
\* version's.
LEMMA Linked ==
  ASSUME RegistryInv, NEW t \in Threads, RegisterLink(t)
  PROVE  RegistryInv'
<1>0. RTypes /\ Bounded /\ Exact
  BY DEF RegistryInv
<1>1. PICK c \in Chunks, v \in Versions : c = rloc[t].chunk /\ v = rloc[t].version /\ rpc[t] \in {"reg_link", "reg_new_link"}
  BY <1>0, TaskTypes DEF RegisterLink, RegLabels
<1>2. /\ links' = [links EXCEPT ![v] = @ \cup {c}] /\ RGoto(t, "idle", NoRegistryWork)
      /\ UNCHANGED <<count, stored, registers, racedChunks>>
  BY <1>1 DEF RegisterLink, RReturn
<1>3. registers \in Nat /\ registers <= registers
  BY <1>0, TaskTypes
<1>l. "idle" \in RLabels /\ "idle" \notin RegLabels /\ NoRegistryWork \in RTasks
  BY NoTask DEF RLabels, RegLabels
<1>4. /\ rpc' \in [Threads -> RLabels] /\ rloc' \in [Threads -> RTasks]
      /\ \A u \in Threads \ {t} : rpc'[u] = rpc[u] /\ rloc'[u] = rloc[u]
  BY <1>0, <1>2, <1>l, RMoved
<1>5. RInHand'
  BY <1>0, <1>2, <1>3, <1>l, RCarried
<1>7. /\ links' \in [Versions -> SUBSET Chunks] /\ links'[v] = links[v] \cup {c} /\ \A w \in Versions \ {v} : links'[w] = links[w]
  BY <1>0, <1>2 DEF RTypes
<1>8. RTypes'
  BY <1>0, <1>2, <1>4, <1>5, <1>7 DEF RTypes
<1>t. /\ \A d : t \notin Inserters(d) \cup Droppers(d) \cup Resetters(d) \cup Deleters(d) \cup Listers(d)
      /\ \A d : t \in Linkers(d) <=> d = c
  BY <1>1 DEF Linkers, Inserters, Droppers, Resetters, Deleters, Deleting, Listers
<1>r. \A d : Resetters(d)' = Resetters(d)
  BY <1>0, <1>2, <1>l, <1>t, Roles DEF Moves
<1>9. Bounded'
  BY <1>0, <1>2, <1>r DEF Bounded
<1>10. ASSUME NEW d \in Chunks \ racedChunks, d # c PROVE ChunkOK(d)'
  <2>1. \A w \in Versions : d \in links'[w] <=> d \in links[w]
    BY <1>7, <1>10
  <2> QED
    BY <1>0, <1>2, <1>l, <1>t, <1>10, <2>1, Elsewhere DEF Exact
<1>11. ASSUME c \notin racedChunks PROVE ChunkOK(c)'
  <2>0. ChunkOK(c)
    BY <1>0, <1>11 DEF Exact
  <2>1. /\ Linkers(c)' = Linkers(c) \ {t} /\ Inserters(c)' = Inserters(c) /\ Droppers(c)' = Droppers(c)
        /\ Resetters(c)' = Resetters(c) /\ Deleters(c)' = Deleters(c) /\ Listers(c)' = Listers(c)
    BY <1>0, <1>2, <1>l, <1>t, Roles DEF Moves
  <2>2. v \notin Users(c) /\ Users(c)' = Users(c) \cup {v}
    <3>1. v \notin Users(c)
      BY <1>1, <1>t, <2>0 DEF ChunkOK, Apart, Users
    <3>2. Users(c)' = Users(c) \cup {v}
      BY <1>7 DEF Users
    <3> QED
      BY <3>1, <3>2
  <2>3. Apart(c)'
    <3>1. ASSUME NEW u \in (Linkers(c) \cup Inserters(c))'
          PROVE  /\ u \in Linkers(c) \cup Inserters(c) /\ u \in Threads /\ u # t /\ rloc'[u] = rloc[u]
                 /\ rloc[u].version # v /\ rloc[u].version \in Versions
      <4>1. u \in Linkers(c) \cup Inserters(c) /\ u # t /\ u \in Threads
        BY <1>t, <2>1, <3>1 DEF Linkers, Inserters
      <4>2. rloc[u].version # v
        BY <1>1, <1>t, <2>0, <4>1 DEF ChunkOK, Apart
      <4>3. rpc[u] \in RegLabels
        BY <4>1 DEF Linkers, Inserters, RegLabels
      <4>4. rloc[u].version \in Versions
        BY <1>0, <4>1, <4>3, TaskTypes
      <4> QED
        BY <1>4, <4>1, <4>2, <4>4
    <3> QED
      BY <1>7, <2>0, <3>1 DEF ChunkOK, Apart
  <2>5. Settled(c) => Settled(c)'
    <3> SUFFICES ASSUME Settled(c) PROVE Settled(c)'
      OBVIOUS
    <3>1. count[c] # Absent
      BY <1>t DEF Settled, Unused
    <3>2. Cardinality(Linkers(c)') = Cardinality(Linkers(c)) - 1
      BY <1>t, <2>1, Finite, FS_RemoveElement
    <3>3. Cardinality(Users(c)') = Cardinality(Users(c)) + 1
      BY <2>2, Finite, FS_AddElement
    <3>4. count[c] = Cardinality(Users(c)') + Cardinality(Linkers(c)') + Cardinality(Droppers(c)')
      BY <2>1, <3>1, <3>2, <3>3, Finite DEF Settled
    <3> QED
      BY <1>2, <2>1, <3>1, <3>4 DEF Settled
  <2>6. ~Vanishing(c)
    BY <1>t DEF Vanishing, Unused
  <2>7. Doomed(c) => Doomed(c)'
    BY <1>2, <2>1 DEF Doomed
  <2> QED
    BY <2>0, <2>3, <2>5, <2>6, <2>7 DEF ChunkOK
<1>12. Exact'
  BY <1>2, <1>10, <1>11 DEF Exact
<1> QED
  BY <1>8, <1>9, <1>12 DEF RegistryInv

\* unregister_version takes the version's links away before it drops the
\* references.
LEMMA Unregistered ==
  ASSUME RegistryInv, NEW t \in Threads, NEW v \in Versions, Unregister(t, v)
  PROVE  RegistryInv'
<1>0. RTypes /\ Bounded /\ Exact
  BY DEF RegistryInv
<1>1. PICK work : work = [NoRegistryWork EXCEPT !.todo = links[v]]
  OBVIOUS
<1>2. /\ rpc[t] = "idle" /\ links' = [links EXCEPT ![v] = {}] /\ RGoto(t, "unreg", work)
      /\ UNCHANGED <<count, stored, registers, racedChunks>>
  BY <1>1 DEF Unregister
<1>3. work \in RTasks /\ work.todo = links[v]
  BY <1>0, <1>1, NoTask DEF RTypes, NoRegistryWork, RTasks
<1>l. "unreg" \in RLabels /\ "unreg" \notin RegLabels /\ registers \in Nat /\ registers <= registers
  BY <1>0, TaskTypes DEF RLabels, RegLabels
<1>4. /\ rpc' \in [Threads -> RLabels] /\ rloc' \in [Threads -> RTasks]
      /\ \A u \in Threads \ {t} : rpc'[u] = rpc[u] /\ rloc'[u] = rloc[u]
  BY <1>0, <1>2, <1>3, <1>l, RMoved
<1>5. RInHand'
  BY <1>0, <1>2, <1>3, <1>l, RCarried
<1>7. links' \in [Versions -> SUBSET Chunks] /\ links'[v] = {} /\ \A w \in Versions \ {v} : links'[w] = links[w]
  BY <1>0, <1>2 DEF RTypes
<1>8. RTypes'
  BY <1>0, <1>2, <1>4, <1>5, <1>7 DEF RTypes
<1>t. \A d : t \notin Linkers(d) \cup Inserters(d) \cup Droppers(d) \cup Resetters(d) \cup Deleters(d) \cup Listers(d)
  BY <1>2 DEF Linkers, Inserters, Droppers, Resetters, Deleters, Deleting, Listers
<1>r. \A d : Resetters(d)' = Resetters(d)
  BY <1>0, <1>2, <1>3, <1>l, <1>t, Roles DEF Moves
<1>9. Bounded'
  BY <1>0, <1>2, <1>r DEF Bounded
<1>10. ASSUME NEW d \in Chunks \ racedChunks, d \notin links[v] PROVE ChunkOK(d)'
  <2>1. \A w \in Versions : d \in links'[w] <=> d \in links[w]
    BY <1>7, <1>10
  <2> QED
    BY <1>0, <1>2, <1>3, <1>l, <1>t, <1>10, <2>1, Elsewhere DEF Exact
<1>11. ASSUME NEW c \in Chunks \ racedChunks, c \in links[v] PROVE ChunkOK(c)'
  <2>0. ChunkOK(c)
    BY <1>0, <1>11 DEF Exact
  <2>1. /\ Linkers(c)' = Linkers(c) /\ Inserters(c)' = Inserters(c) /\ Droppers(c)' = Droppers(c) \cup {t}
        /\ Resetters(c)' = Resetters(c) /\ Deleters(c)' = Deleters(c) /\ Listers(c)' = Listers(c)
    BY <1>0, <1>2, <1>3, <1>l, <1>t, <1>11, Roles DEF Moves
  <2>2. v \in Users(c) /\ Users(c)' = Users(c) \ {v}
    <3>1. v \in Users(c)
      BY <1>11 DEF Users
    <3>2. Users(c)' = Users(c) \ {v}
      BY <1>7 DEF Users
    <3> QED
      BY <3>1, <3>2
  <2>3. Apart(c)'
    <3>1. ASSUME NEW u \in Linkers(c) \cup Inserters(c)
          PROVE  rloc'[u] = rloc[u] /\ rloc[u].version \in Versions
      <4>1. u \in Threads /\ u # t /\ rpc[u] \in RegLabels
        BY <1>t, <3>1 DEF Linkers, Inserters, RegLabels
      <4> QED
        BY <1>0, <1>4, <4>1, TaskTypes
    <3> QED
      BY <1>7, <2>0, <2>1, <3>1 DEF ChunkOK, Apart
  <2>5. Settled(c) => Settled(c)'
    <3> SUFFICES ASSUME Settled(c) PROVE Settled(c)'
      OBVIOUS
    <3>1. count[c] # Absent
      BY <2>2 DEF Settled, Unused
    <3>2. Cardinality(Droppers(c)') = Cardinality(Droppers(c)) + 1
      BY <1>t, <2>1, Finite, FS_AddElement
    <3>3. Cardinality(Users(c)') = Cardinality(Users(c)) - 1
      BY <2>2, Finite, FS_RemoveElement
    <3>4. count[c] = Cardinality(Users(c)') + Cardinality(Linkers(c)') + Cardinality(Droppers(c)')
      BY <2>1, <3>1, <3>2, <3>3, Finite DEF Settled
    <3> QED
      BY <1>2, <2>1, <3>1, <3>4 DEF Settled
  <2>6. ~Vanishing(c)
    BY <2>2 DEF Vanishing, Unused
  <2>7. Doomed(c) => Doomed(c)'
    BY <1>2, <2>1 DEF Doomed
  <2> QED
    BY <2>0, <2>3, <2>5, <2>6, <2>7 DEF ChunkOK
<1>12. Exact'
  BY <1>2, <1>10, <1>11 DEF Exact
<1> QED
  BY <1>8, <1>9, <1>12 DEF RegistryInv

\* dec_ref takes one reference off; a settled count is never zero then.
LEMMA Decremented ==
  ASSUME RegistryInv, NEW t \in Threads, NEW c \in Chunks, DecRef(t, c)
  PROVE  RegistryInv'
<1>0. RTypes /\ Bounded /\ Exact
  BY DEF RegistryInv
<1>1. PICK work, label :
        /\ work = [rloc[t] EXCEPT !.chunk = c, !.todo = @ \ {c}, !.done = IF count[c] \in {0, 1} THEN @ \cup {c} ELSE @]
        /\ label = IF count[c] = 0 THEN "dec_reset" ELSE "unreg"
  OBVIOUS
<1>2. /\ rpc[t] = "unreg" /\ c \in rloc[t].todo /\ RGoto(t, label, work)
      /\ count' = [count EXCEPT ![c] = IF @ = Absent THEN Absent ELSE (@ - 1) % (MaxU32 + 1)]
      /\ UNCHANGED <<links, stored, registers, racedChunks>>
  BY <1>1 DEF DecRef
<1>3. work \in RTasks /\ work.todo = rloc[t].todo \ {c} /\ work.chunk = c
  <2>1. rloc[t] \in RTasks
    BY <1>0, TaskTypes
  <2> QED
    BY <1>1, <2>1 DEF RTasks
<1>l. label \in RLabels /\ label \notin RegLabels /\ label \in {"unreg", "dec_reset"} /\ (label = "dec_reset" <=> count[c] = 0)
  BY <1>1 DEF RLabels, RegLabels
<1>g. registers \in Nat /\ registers <= registers
  BY <1>0, TaskTypes
<1>4. /\ rpc' \in [Threads -> RLabels] /\ rloc' \in [Threads -> RTasks]
      /\ \A u \in Threads \ {t} : rpc'[u] = rpc[u] /\ rloc'[u] = rloc[u]
  BY <1>0, <1>2, <1>3, <1>l, RMoved
<1>5. RInHand'
  BY <1>0, <1>2, <1>3, <1>l, <1>g, RCarried
<1>c. count[c] \in {Absent} \cup 0 .. MaxU32 /\ MaxU32 \in Nat
  BY <1>0, RegistryConstants DEF RTypes
<1>6. count[c] # Absent => (/\ (count[c] - 1) % (MaxU32 + 1) \in 0 .. MaxU32
                            /\ count[c] # 0 => (count[c] - 1) % (MaxU32 + 1) = count[c] - 1)
  BY <1>c
<1>7. /\ count' \in [Chunks -> {Absent} \cup 0 .. MaxU32]
      /\ count[c] = Absent => count'[c] = Absent
      /\ count[c] # Absent => count'[c] = (count[c] - 1) % (MaxU32 + 1)
      /\ \A d \in Chunks \ {c} : count'[d] = count[d]
  BY <1>0, <1>2, <1>6 DEF RTypes
<1>8. RTypes'
  BY <1>0, <1>2, <1>4, <1>5, <1>7 DEF RTypes
<1>t. /\ \A d : t \notin Linkers(d) \cup Inserters(d) \cup Resetters(d) \cup Deleters(d) \cup Listers(d)
      /\ \A d : t \in Droppers(d) <=> d \in rloc[t].todo
  BY <1>2 DEF Linkers, Inserters, Droppers, Resetters, Deleters, Deleting, Listers
<1>r. /\ \A d : d # c => Resetters(d)' = Resetters(d)
      /\ label = "dec_reset" => Resetters(c)' = Resetters(c) \cup {t}
      /\ label # "dec_reset" => Resetters(c)' = Resetters(c)
  BY <1>0, <1>2, <1>3, <1>l, <1>t, Roles DEF Moves
<1>9. Bounded'
  <2>1. count'[c] <= registers' \/ Resetters(c)' # {}
    <3>1. CASE count[c] = Absent
      BY <1>2, <1>7, <1>g, <3>1 DEF Absent
    <3>2. CASE count[c] = 0
      BY <1>l, <1>r, <3>2
    <3>3. CASE count[c] \notin {0, Absent} /\ count[c] <= registers
      BY <1>2, <1>6, <1>7, <1>c, <1>g, <3>3
    <3>4. CASE Resetters(c) # {}
      BY <1>r, <3>4
    <3> QED
      BY <1>0, <3>1, <3>2, <3>3, <3>4 DEF Bounded
  <2>2. registers' \in Nat /\ registers <= registers'
    BY <1>2, <1>g
  <2> QED
    BY <1>0, <1>7, <1>r, <2>1, <2>2, BoundKept
<1>10. ASSUME NEW d \in Chunks \ racedChunks, d # c PROVE ChunkOK(d)'
  BY <1>0, <1>2, <1>3, <1>7, <1>l, <1>t, <1>10, Elsewhere DEF Exact
<1>11. ASSUME c \notin racedChunks PROVE ChunkOK(c)'
  <2>0. ChunkOK(c)
    BY <1>0, <1>11 DEF Exact
  <2>1. /\ Linkers(c)' = Linkers(c) /\ Inserters(c)' = Inserters(c) /\ Droppers(c)' = Droppers(c) \ {t}
        /\ Deleters(c)' = Deleters(c) /\ Listers(c)' = Listers(c)
    BY <1>0, <1>2, <1>3, <1>l, <1>t, Roles DEF Moves
  <2>2. Users(c)' = Users(c) /\ t \in Droppers(c)
    BY <1>2, <1>t DEF Users
  <2>3. Apart(c)'
    <3>1. \A u \in Linkers(c) \cup Inserters(c) : rloc'[u] = rloc[u]
      BY <1>4, <1>t DEF Linkers, Inserters
    <3> QED
      BY <1>2, <2>0, <2>1, <3>1 DEF ChunkOK, Apart
  <2>4. count[c] # Absent => count'[c] # Absent
    BY <1>6, <1>7 DEF Absent
  <2>5. Settled(c) => Settled(c)'
    <3> SUFFICES ASSUME Settled(c) PROVE Settled(c)'
      OBVIOUS
    <3>1. count[c] # Absent
      BY <2>2 DEF Settled, Unused
    <3>2. Cardinality(Droppers(c)') = Cardinality(Droppers(c)) - 1 /\ Cardinality(Droppers(c)') \in Nat
      BY <2>1, <2>2, Finite, FS_RemoveElement, FS_CardinalityType
    <3>3. count[c] = Cardinality(Users(c)) + Cardinality(Linkers(c)) + Cardinality(Droppers(c))
      BY <3>1 DEF Settled
    <3>4. count[c] >= 1 /\ count[c] # 0
      BY <3>2, <3>3, Finite
    <3>5. count'[c] = count[c] - 1
      BY <1>6, <1>7, <3>1, <3>4
    <3>6. count'[c] = Cardinality(Users(c)') + Cardinality(Linkers(c)') + Cardinality(Droppers(c)')
      BY <2>1, <2>2, <3>2, <3>3, <3>5, Finite
    <3>7. Resetters(c)' = {} /\ Listers(c) = {}
      BY <1>l, <1>r, <3>1, <3>4 DEF Settled
    <3> QED
      BY <1>2, <2>1, <2>4, <3>1, <3>6, <3>7 DEF Settled
  <2>6. ~Vanishing(c)
    BY <2>2 DEF Vanishing, Unused
  <2>7. Doomed(c) => Doomed(c)'
    BY <2>1, <2>4 DEF Doomed
  <2> QED
    BY <2>0, <2>3, <2>5, <2>6, <2>7 DEF ChunkOK
<1>12. Exact'
  BY <1>2, <1>10, <1>11 DEF Exact
<1> QED
  BY <1>8, <1>9, <1>12 DEF RegistryInv

\* The count that wrapped around is set to zero.
LEMMA Reset ==
  ASSUME RegistryInv, NEW t \in Threads, DecReset(t)
  PROVE  RegistryInv'
<1>0. RTypes /\ Bounded /\ Exact
  BY DEF RegistryInv
<1>1. PICK c \in Chunks, work \in RTasks : c = rloc[t].chunk /\ rpc[t] = "dec_reset" /\ work = rloc[t]
  BY <1>0, TaskTypes DEF DecReset
<1>2. /\ count' = [count EXCEPT ![c] = 0] /\ RGoto(t, "unreg", work)
      /\ UNCHANGED <<links, stored, registers, racedChunks>>
  BY <1>1 DEF DecReset
<1>l. "unreg" \in RLabels /\ "unreg" \notin RegLabels /\ registers \in Nat /\ registers <= registers
  BY <1>0, TaskTypes DEF RLabels, RegLabels
<1>4. /\ rpc' \in [Threads -> RLabels] /\ rloc' \in [Threads -> RTasks]
      /\ \A u \in Threads \ {t} : rpc'[u] = rpc[u] /\ rloc'[u] = rloc[u]
  BY <1>0, <1>1, <1>2, <1>l, RMoved
<1>5. RInHand'
  BY <1>0, <1>1, <1>2, <1>l, RCarried
<1>7. count' \in [Chunks -> {Absent} \cup 0 .. MaxU32] /\ count'[c] = 0 /\ \A d \in Chunks \ {c} : count'[d] = count[d]
  <2>1. 0 \in 0 .. MaxU32
    BY RegistryConstants
  <2> QED
    BY <1>0, <1>2, <2>1 DEF RTypes
<1>8. RTypes'
  BY <1>0, <1>2, <1>4, <1>5, <1>7 DEF RTypes
<1>t. /\ \A d : t \notin Linkers(d) \cup Inserters(d) \cup Deleters(d) \cup Listers(d)
      /\ \A d : t \in Droppers(d) <=> d \in work.todo
      /\ \A d : t \in Resetters(d) <=> d = c
  BY <1>1 DEF Linkers, Inserters, Droppers, Resetters, Deleters, Deleting, Listers
<1>r. \A d : d # c => Resetters(d)' = Resetters(d)
  BY <1>0, <1>1, <1>2, <1>l, <1>t, Roles DEF Moves
<1>9. Bounded'
  <2>1. registers' \in Nat /\ registers <= registers' /\ count'[c] <= registers'
    BY <1>2, <1>7, <1>l
  <2> QED
    BY <1>0, <1>7, <1>r, <2>1, BoundKept
<1>10. ASSUME NEW d \in Chunks \ racedChunks, d # c PROVE ChunkOK(d)'
  BY <1>0, <1>1, <1>2, <1>7, <1>l, <1>t, <1>10, Elsewhere DEF Exact
<1>11. ASSUME c \notin racedChunks PROVE ChunkOK(c)'
  <2>0. ChunkOK(c)
    BY <1>0, <1>11 DEF Exact
  <2>1. Linkers(c)' = Linkers(c) /\ Inserters(c)' = Inserters(c) /\ Deleters(c)' = Deleters(c)
    BY <1>0, <1>1, <1>2, <1>l, <1>t, Roles DEF Moves
  <2>2. Apart(c)'
    <3>1. \A u \in Linkers(c) \cup Inserters(c) : rloc'[u] = rloc[u]
      BY <1>4, <1>t DEF Linkers, Inserters
    <3> QED
      BY <1>2, <2>0, <2>1, <3>1 DEF ChunkOK, Apart
  <2>3. ~Settled(c) /\ ~Vanishing(c)
    BY <1>t DEF Settled, Vanishing
  <2>4. Doomed(c) => Doomed(c)'
    BY <1>7, <2>1 DEF Doomed, Absent
  <2> QED
    BY <2>0, <2>2, <2>3, <2>4 DEF ChunkOK
<1>12. Exact'
  BY <1>2, <1>10, <1>11 DEF Exact
<1> QED
  BY <1>8, <1>9, <1>12 DEF RegistryInv


\* The maps and the threads stay as they are.
LEMMA RegistryStutter ==
  ASSUME RegistryInv, UNCHANGED <<storeVars, rpc, rloc, racedChunks>>,
         registers' \in 0 .. MaxRegisters, registers <= registers'
  PROVE  RegistryInv'
<1>0. RTypes /\ Bounded /\ registers \in Nat /\ registers' \in Nat
  BY RegistryConstants DEF RegistryInv, RTypes
<1>h. RInHand'
  <2> SUFFICES ASSUME NEW u \in Threads
               PROVE  /\ rpc[u] \in RegLabels => (rloc[u].chunk \in Chunks /\ rloc[u].version \in Versions /\ registers' >= 1)
                      /\ rpc[u] \in {"dec_reset", "gc_delete"} => rloc[u].chunk \in Chunks
                      /\ rpc[u] = "gc_delete" => rloc[u].old \in 0 .. registers'
    BY DEF RInHand
  <2> QED
    BY <1>0 DEF RTypes, RInHand
<1>1. RTypes'
  BY <1>0, <1>h DEF RTypes, storeVars
<1>2. \A d : /\ Linkers(d)' = Linkers(d) /\ Inserters(d)' = Inserters(d) /\ Droppers(d)' = Droppers(d)
             /\ Resetters(d)' = Resetters(d) /\ Deleters(d)' = Deleters(d) /\ Listers(d)' = Listers(d)
             /\ Users(d)' = Users(d)
  BY DEF Linkers, Inserters, Droppers, Resetters, Deleters, Deleting, Listers, Users, storeVars
<1>3. Bounded'
  <2> SUFFICES ASSUME NEW d \in Chunks PROVE count'[d] <= registers' \/ Resetters(d)' # {}
    BY DEF Bounded
  <2>1. count'[d] = count[d] /\ count[d] \in Int
    BY <1>0, RegistryConstants DEF storeVars, RTypes, Absent
  <2>2. Resetters(d)' = Resetters(d) /\ (count[d] <= registers \/ Resetters(d) # {})
    BY <1>0, <1>2 DEF Bounded
  <2>3. CASE count[d] <= registers
    BY <1>0, <2>1, <2>3
  <2> QED
    BY <2>2, <2>3
<1>4. Exact'
  BY <1>2, Untouched DEF RegistryInv, Exact, storeVars
<1> QED
  BY <1>1, <1>3, <1>4 DEF RegistryInv

\* A call ends that has nothing left to do: unregister_version or collect.
LEMMA Returned ==
  ASSUME RegistryInv, NEW t \in Threads, rpc[t] \in {"unreg", "gc"}, rloc[t].todo = {}, RReturn(t),
         UNCHANGED <<storeVars, registers>>, racedChunks \subseteq racedChunks'
  PROVE  RegistryInv'
<1>0. RTypes /\ Bounded /\ Exact
  BY DEF RegistryInv
<1>1. RGoto(t, "idle", NoRegistryWork) /\ UNCHANGED <<count, links, stored, registers>>
  BY DEF RReturn, storeVars
<1>l. /\ "idle" \in RLabels /\ "idle" \notin RegLabels /\ NoRegistryWork \in RTasks
      /\ registers \in Nat /\ registers <= registers
  BY <1>0, NoTask, TaskTypes DEF RLabels, RegLabels
<1>2. rpc' \in [Threads -> RLabels] /\ rloc' \in [Threads -> RTasks]
  BY <1>0, <1>1, <1>l, RMoved
<1>3. RInHand'
  BY <1>0, <1>1, <1>l, RCarried
<1>4. RTypes'
  BY <1>0, <1>1, <1>2, <1>3 DEF RTypes
<1>t. \A d : t \notin Linkers(d) \cup Inserters(d) \cup Droppers(d) \cup Resetters(d) \cup Deleters(d) \cup Listers(d)
  BY DEF Linkers, Inserters, Droppers, Resetters, Deleters, Deleting, Listers
<1>r. \A d : Resetters(d)' = Resetters(d)
  BY <1>0, <1>1, <1>l, <1>t, Roles DEF Moves
<1>5. Bounded'
  BY <1>0, <1>1, <1>r DEF Bounded
<1>6. ASSUME NEW d \in Chunks \ racedChunks PROVE ChunkOK(d)'
  BY <1>0, <1>1, <1>l, <1>t, <1>6, Elsewhere DEF Exact
<1> QED
  BY <1>4, <1>5, <1>6 DEF RegistryInv, Exact

\* collect_garbage lists the chunks whose count is zero.
LEMMA Collected ==
  ASSUME RegistryInv, NEW t \in Threads, NEW caller \in {"user", "collect"}, CollectGarbage(t, caller)
  PROVE  RegistryInv'
<1>0. RTypes /\ Bounded /\ Exact
  BY DEF RegistryInv
<1>1. PICK work : work = [NoRegistryWork EXCEPT !.caller = caller, !.todo = {c \in Chunks : count[c] = 0}]
  OBVIOUS
<1>2. rpc[t] = "idle" /\ RGoto(t, "gc", work) /\ UNCHANGED <<count, links, stored, registers, racedChunks>>
  BY <1>1 DEF CollectGarbage, storeVars
<1>3. work \in RTasks /\ work.todo = {c \in Chunks : count[c] = 0}
  BY <1>1, NoTask DEF NoRegistryWork, RTasks
<1>l. "gc" \in RLabels /\ "gc" \notin RegLabels /\ registers \in Nat /\ registers <= registers
  BY <1>0, TaskTypes DEF RLabels, RegLabels
<1>4. /\ rpc' \in [Threads -> RLabels] /\ rloc' \in [Threads -> RTasks]
      /\ \A u \in Threads \ {t} : rpc'[u] = rpc[u] /\ rloc'[u] = rloc[u]
  BY <1>0, <1>2, <1>3, <1>l, RMoved
<1>5. RInHand'
  BY <1>0, <1>2, <1>3, <1>l, RCarried
<1>6. RTypes'
  BY <1>0, <1>2, <1>4, <1>5 DEF RTypes
<1>t. \A d : t \notin Linkers(d) \cup Inserters(d) \cup Droppers(d) \cup Resetters(d) \cup Deleters(d) \cup Listers(d)
  BY <1>2 DEF Linkers, Inserters, Droppers, Resetters, Deleters, Deleting, Listers
<1>r. \A d : Resetters(d)' = Resetters(d)
  BY <1>0, <1>2, <1>3, <1>l, <1>t, Roles DEF Moves
<1>7. Bounded'
  BY <1>0, <1>2, <1>r DEF Bounded
<1>8. ASSUME NEW d \in Chunks \ racedChunks, count[d] # 0 PROVE ChunkOK(d)'
  BY <1>0, <1>2, <1>3, <1>l, <1>t, <1>8, Elsewhere DEF Exact
<1>9. ASSUME NEW c \in Chunks \ racedChunks, count[c] = 0 PROVE ChunkOK(c)'
  <2>0. ChunkOK(c)
    BY <1>0, <1>9 DEF Exact
  <2>1. /\ Linkers(c)' = Linkers(c) /\ Inserters(c)' = Inserters(c) /\ Droppers(c)' = Droppers(c)
        /\ Resetters(c)' = Resetters(c) /\ Deleters(c)' = Deleters(c)
    BY <1>0, <1>2, <1>3, <1>l, <1>t, Roles DEF Moves
  <2>2. Users(c)' = Users(c) /\ count[c] # Absent
    BY <1>2, <1>9 DEF Users, Absent
  <2>3. Apart(c)'
    <3>1. \A u \in Linkers(c) \cup Inserters(c) : rloc'[u] = rloc[u]
      BY <1>4, <1>t DEF Linkers, Inserters
    <3> QED
      BY <1>2, <2>0, <2>1, <3>1 DEF ChunkOK, Apart
  <2>4. Settled(c) => Settled(c)'
    BY <1>2, <1>9, <2>1, <2>2 DEF Settled
  <2>5. ~Vanishing(c)
    BY <2>2 DEF Vanishing
  <2>6. Doomed(c) => Doomed(c)'
    BY <1>2, <2>1 DEF Doomed
  <2> QED
    BY <2>0, <2>3, <2>4, <2>5, <2>6 DEF ChunkOK
<1> QED
  BY <1>2, <1>6, <1>7, <1>8, <1>9 DEF RegistryInv, Exact

\* A count of zero, spelled out.
LEMMA CountsNothing ==
  ASSUME NEW c, Cardinality(Users(c)) + Cardinality(Linkers(c)) + Cardinality(Droppers(c)) = 0
  PROVE  Unused(c)
<1>1. Cardinality(Users(c)) = 0 /\ Cardinality(Linkers(c)) = 0 /\ Cardinality(Droppers(c)) = 0
  BY Finite
<1> QED
  BY <1>1, Finite, FS_EmptySet DEF Unused

\* collect removes the metadata of a chunk on its list: nobody uses it, or the
\* race is sure to be noticed.
LEMMA Removed ==
  ASSUME RegistryInv, NEW t \in Threads, NEW c \in Chunks, CollectRemove(t, c)
  PROVE  RegistryInv'
<1>0. RTypes /\ Bounded /\ Exact
  BY DEF RegistryInv
<1>1. PICK work, label : /\ work = [rloc[t] EXCEPT !.chunk = c, !.todo = @ \ {c}, !.old = count[c]]
                         /\ label = IF count[c] = Absent THEN "gc" ELSE "gc_delete"
  OBVIOUS
<1>2. /\ rpc[t] = "gc" /\ c \in rloc[t].todo /\ ChunkUnguarded(c) /\ RGoto(t, label, work)
      /\ count' = [count EXCEPT ![c] = Absent] /\ UNCHANGED <<links, stored, registers, racedChunks>>
  BY <1>1 DEF CollectRemove
<1>c. count[c] \in {Absent} \cup 0 .. MaxU32 /\ count[c] \in Int /\ MaxU32 \in Nat /\ registers \in Nat /\ registers <= registers
  BY <1>0, RegistryConstants, TaskTypes DEF RTypes, Absent
<1>3. work \in RTasks /\ work.todo = rloc[t].todo \ {c} /\ work.chunk = c /\ work.old = count[c]
  <2>1. rloc[t] \in RTasks
    BY <1>0, TaskTypes
  <2> QED
    BY <1>1, <1>c, <2>1 DEF RTasks
<1>l. /\ label \in RLabels /\ label \notin RegLabels /\ label \in {"gc", "gc_delete"}
      /\ (label = "gc_delete" <=> count[c] # Absent)
  BY <1>1 DEF RLabels, RegLabels
<1>4. /\ rpc' \in [Threads -> RLabels] /\ rloc' \in [Threads -> RTasks] /\ rloc'[t] = work
      /\ \A u \in Threads \ {t} : rpc'[u] = rpc[u] /\ rloc'[u] = rloc[u]
  BY <1>0, <1>2, <1>3, <1>l, RMoved
<1>o. label = "gc_delete" => work.old \in 0 .. registers
  <2>1. Resetters(c) = {}
    BY <1>2 DEF ChunkUnguarded, Resetters
  <2>2. count[c] <= registers
    BY <1>0, <2>1 DEF Bounded
  <2> QED
    BY <1>3, <1>c, <1>l, <2>2
<1>5. RInHand'
  BY <1>0, <1>2, <1>3, <1>c, <1>l, <1>o, RCarried
<1>7. count' \in [Chunks -> {Absent} \cup 0 .. MaxU32] /\ count'[c] = Absent /\ \A d \in Chunks \ {c} : count'[d] = count[d]
  BY <1>0, <1>2 DEF RTypes
<1>8. RTypes'
  BY <1>0, <1>2, <1>4, <1>5, <1>7 DEF RTypes
<1>t. /\ \A d : t \notin Linkers(d) \cup Inserters(d) \cup Droppers(d) \cup Resetters(d) \cup Deleters(d)
      /\ \A d : t \in Listers(d) <=> d \in rloc[t].todo
  BY <1>2 DEF Linkers, Inserters, Droppers, Resetters, Deleters, Deleting, Listers
<1>r. \A d : Resetters(d)' = Resetters(d)
  BY <1>0, <1>2, <1>3, <1>l, <1>t, Roles DEF Moves
<1>9. Bounded'
  <2>1. registers' \in Nat /\ registers <= registers' /\ count'[c] <= registers'
    BY <1>2, <1>7, <1>c DEF Absent
  <2> QED
    BY <1>0, <1>7, <1>r, <2>1, BoundKept
<1>10. ASSUME NEW d \in Chunks \ racedChunks, d # c \/ count[c] = Absent PROVE ChunkOK(d)'
  <2>1. count'[d] = count[d] /\ ~(label = "gc_delete" /\ work.chunk = d)
    BY <1>3, <1>7, <1>l, <1>10
  <2> QED
    BY <1>0, <1>2, <1>3, <1>l, <1>t, <1>10, <2>1, Elsewhere DEF Exact
<1>11. ASSUME c \notin racedChunks, count[c] # Absent PROVE ChunkOK(c)'
  <2>0. ChunkOK(c) /\ label = "gc_delete"
    BY <1>0, <1>l, <1>11 DEF Exact
  <2>1. /\ Linkers(c)' = Linkers(c) /\ Inserters(c)' = Inserters(c) /\ Droppers(c)' = Droppers(c)
        /\ Resetters(c)' = Resetters(c) /\ Deleters(c)' = Deleters(c) \cup {t}
    BY <1>0, <1>2, <1>3, <1>l, <1>t, <2>0, Roles DEF Moves
  <2>2. Users(c)' = Users(c) /\ t \in Listers(c)
    BY <1>2, <1>t DEF Users
  <2>3. Apart(c)'
    <3>1. \A u \in Linkers(c) \cup Inserters(c) : rloc'[u] = rloc[u]
      BY <1>4, <1>t DEF Linkers, Inserters
    <3> QED
      BY <1>2, <2>0, <2>1, <3>1 DEF ChunkOK, Apart
  <2>4. Settled(c) => Vanishing(c)'
    <3> SUFFICES ASSUME Settled(c) PROVE Vanishing(c)'
      OBVIOUS
    <3>1. count[c] = 0 /\ c \in stored /\ Deleters(c) = {} /\ Resetters(c) = {}
      BY <1>11, <2>2 DEF Settled
    <3>2. Unused(c)
      BY <1>11, <3>1, CountsNothing DEF Settled
    <3>3. Deleters(c)' = {t} /\ rloc'[t].old = 0
      BY <1>3, <1>4, <2>1, <3>1
    <3> QED
      BY <1>2, <1>7, <2>1, <2>2, <3>1, <3>2, <3>3 DEF Vanishing, Unused
  <2>5. ~Vanishing(c)
    BY <1>11 DEF Vanishing
  <2>6. Doomed(c) => Doomed(c)'
    <3>1. \A u \in Deleters(c) : u # t
      BY <1>t
    <3> QED
      BY <2>1, <3>1 DEF Doomed
  <2> QED
    BY <2>0, <2>3, <2>4, <2>5, <2>6 DEF ChunkOK
<1>12. Exact'
  BY <1>2, <1>10, <1>11 DEF Exact
<1> QED
  BY <1>8, <1>9, <1>12 DEF RegistryInv

\* collect deletes the data of a chunk that is still without metadata.
LEMMA Deleted ==
  ASSUME RegistryInv, NEW t \in Threads, CollectDelete(t)
  PROVE  RegistryInv'
<1>0. RTypes /\ Bounded /\ Exact
  BY DEF RegistryInv
<1>1. PICK c \in Chunks, work \in RTasks : c = rloc[t].chunk /\ rpc[t] = "gc_delete" /\ work = rloc[t]
  BY <1>0, TaskTypes DEF CollectDelete
<1>2. /\ stored' = stored \ {c} /\ RGoto(t, "gc", work) /\ UNCHANGED <<count, links, registers>>
      /\ racedChunks \subseteq racedChunks'
      /\ c \notin racedChunks' => (count[c] = Absent /\ ~InRegister(c) /\ \A u \in Threads \ {t} : ~Deleting(u, c))
  BY <1>1 DEF CollectDelete, Race
<1>l. "gc" \in RLabels /\ "gc" \notin RegLabels /\ registers \in Nat /\ registers <= registers
  BY <1>0, TaskTypes DEF RLabels, RegLabels
<1>4. /\ rpc' \in [Threads -> RLabels] /\ rloc' \in [Threads -> RTasks]
      /\ \A u \in Threads \ {t} : rpc'[u] = rpc[u] /\ rloc'[u] = rloc[u]
  BY <1>0, <1>1, <1>2, <1>l, RMoved
<1>5. RInHand'
  BY <1>0, <1>1, <1>2, <1>l, RCarried
<1>8. RTypes'
  BY <1>0, <1>2, <1>4, <1>5 DEF RTypes
<1>t. /\ \A d : t \notin Linkers(d) \cup Inserters(d) \cup Droppers(d) \cup Resetters(d)
      /\ \A d : t \in Deleters(d) <=> d = c
      /\ \A d : t \in Listers(d) <=> d \in work.todo
  BY <1>1 DEF Linkers, Inserters, Droppers, Resetters, Deleters, Deleting, Listers
<1>r. \A d : Resetters(d)' = Resetters(d)
  BY <1>0, <1>1, <1>2, <1>l, <1>t, Roles DEF Moves
<1>9. Bounded'
  BY <1>0, <1>2, <1>r DEF Bounded
<1>10. ASSUME NEW d \in Chunks \ racedChunks, d # c PROVE ChunkOK(d)'
  BY <1>0, <1>1, <1>2, <1>l, <1>t, <1>10, Elsewhere DEF Exact
<1>11. ASSUME c \notin racedChunks' PROVE ChunkOK(c)'
  <2>0. ChunkOK(c) /\ count[c] = Absent /\ ~InRegister(c)
    BY <1>0, <1>2, <1>11 DEF Exact
  <2>1. Deleters(c) = {t}
    BY <1>2, <1>t, <1>11 DEF Deleters
  <2>2. Linkers(c) = {} /\ Inserters(c) = {}
    <3>1. ASSUME NEW u \in Linkers(c) \cup Inserters(c) PROVE FALSE
      <4>1. u \in Threads /\ rpc[u] \in RegLabels /\ rloc[u].chunk = c
        BY <3>1 DEF Linkers, Inserters, RegLabels
      <4>2. rloc[u].version \in Versions
        BY <1>0, <4>1, TaskTypes
      <4> QED
        BY <2>0, <4>1, <4>2 DEF InRegister, Registering, RegLabels
    <3> QED
      BY <3>1
  <2>3. Vanishing(c)
    BY <2>0, <2>1 DEF ChunkOK, Settled, Doomed
  <2>4. /\ Linkers(c)' = {} /\ Inserters(c)' = {} /\ Droppers(c)' = Droppers(c)
        /\ Resetters(c)' = Resetters(c) /\ Deleters(c)' = {}
    BY <1>0, <1>1, <1>2, <1>l, <1>t, <2>1, <2>2, Roles DEF Moves
  <2>5. Users(c)' = Users(c)
    BY <1>2 DEF Users
  <2>6. Settled(c)'
    BY <1>2, <2>0, <2>3, <2>4, <2>5 DEF Settled, Vanishing, Unused
  <2> QED
    BY <2>4, <2>6 DEF ChunkOK, Apart
<1>12. Exact'
  BY <1>2, <1>10, <1>11 DEF Exact
<1> QED
  BY <1>8, <1>9, <1>12 DEF RegistryInv

\* A failed deletion puts the metadata back as it was.
LEMMA Failed ==
  ASSUME RegistryInv, NEW t \in Threads, CollectFails(t)
  PROVE  RegistryInv'
<1>0. RTypes /\ Bounded /\ Exact
  BY DEF RegistryInv
<1>1. PICK c \in Chunks, work \in RTasks : /\ c = rloc[t].chunk /\ rpc[t] = "gc_delete" /\ work = rloc[t]
                                           /\ work.old \in 0 .. registers
  BY <1>0, TaskTypes DEF CollectFails
<1>2. /\ count' = [count EXCEPT ![c] = work.old] /\ RGoto(t, "gc", work) /\ UNCHANGED <<links, stored, registers>>
      /\ racedChunks \subseteq racedChunks' /\ (c \notin racedChunks' => count[c] = Absent)
  BY <1>1 DEF CollectFails, Race
<1>l. "gc" \in RLabels /\ "gc" \notin RegLabels /\ registers \in Nat /\ registers <= registers
  BY <1>0, TaskTypes DEF RLabels, RegLabels
<1>4. /\ rpc' \in [Threads -> RLabels] /\ rloc' \in [Threads -> RTasks]
      /\ \A u \in Threads \ {t} : rpc'[u] = rpc[u] /\ rloc'[u] = rloc[u]
  BY <1>0, <1>1, <1>2, <1>l, RMoved
<1>5. RInHand'
  BY <1>0, <1>1, <1>2, <1>l, RCarried
<1>7. count' \in [Chunks -> {Absent} \cup 0 .. MaxU32] /\ count'[c] = work.old /\ \A d \in Chunks \ {c} : count'[d] = count[d]
  <2>1. registers \in 0 .. MaxRegisters
    BY <1>0 DEF RTypes
  <2>2. work.old \in 0 .. MaxU32
    BY <1>1, <2>1, RegistryConstants
  <2> QED
    BY <1>0, <1>2, <2>2 DEF RTypes
<1>8. RTypes'
  BY <1>0, <1>2, <1>4, <1>5, <1>7 DEF RTypes
<1>t. /\ \A d : t \notin Linkers(d) \cup Inserters(d) \cup Droppers(d) \cup Resetters(d)
      /\ \A d : t \in Deleters(d) <=> d = c
      /\ \A d : t \in Listers(d) <=> d \in work.todo
  BY <1>1 DEF Linkers, Inserters, Droppers, Resetters, Deleters, Deleting, Listers
<1>r. \A d : Resetters(d)' = Resetters(d)
  BY <1>0, <1>1, <1>2, <1>l, <1>t, Roles DEF Moves
<1>9. Bounded'
  <2>1. registers' \in Nat /\ registers <= registers' /\ count'[c] <= registers'
    BY <1>1, <1>2, <1>7, <1>l
  <2> QED
    BY <1>0, <1>7, <1>r, <2>1, BoundKept
<1>10. ASSUME NEW d \in Chunks \ racedChunks, d # c PROVE ChunkOK(d)'
  BY <1>0, <1>1, <1>2, <1>7, <1>l, <1>t, <1>10, Elsewhere DEF Exact
<1>11. ASSUME c \notin racedChunks' PROVE ChunkOK(c)'
  <2>0. ChunkOK(c) /\ count[c] = Absent
    BY <1>0, <1>2, <1>11 DEF Exact
  <2>1. /\ Linkers(c)' = Linkers(c) /\ Inserters(c)' = Inserters(c) /\ Droppers(c)' = Droppers(c)
        /\ Resetters(c)' = Resetters(c) /\ Deleters(c)' = Deleters(c) \ {t}
    BY <1>0, <1>1, <1>2, <1>l, <1>t, Roles DEF Moves
  <2>2. Users(c)' = Users(c) /\ t \in Deleters(c)
    BY <1>2, <1>t DEF Users
  <2>3. Apart(c)'
    <3>1. \A u \in Linkers(c) \cup Inserters(c) : rloc'[u] = rloc[u]
      BY <1>4, <1>t DEF Linkers, Inserters
    <3> QED
      BY <1>2, <2>0, <2>1, <3>1 DEF ChunkOK, Apart
  <2>4. count'[c] # Absent
    BY <1>1, <1>7 DEF Absent
  <2>5. ~Settled(c)
    BY <2>2 DEF Settled
  <2>6. Vanishing(c) => Settled(c)'
    <3> SUFFICES ASSUME Vanishing(c) PROVE Settled(c)'
      OBVIOUS
    <3>1. Deleters(c) = {t} /\ work.old = 0
      BY <1>1, <2>2 DEF Vanishing
    <3>2. count'[c] = 0 /\ Deleters(c)' = {}
      BY <1>7, <2>1, <3>1
    <3>3. Linkers(c)' = {} /\ Users(c)' = {} /\ Droppers(c)' = {} /\ Resetters(c)' = {} /\ c \in stored'
      BY <1>2, <2>1, <2>2 DEF Vanishing, Unused
    <3>4. Cardinality(Users(c)') = 0 /\ Cardinality(Linkers(c)') = 0 /\ Cardinality(Droppers(c)') = 0
      BY <3>3, FS_EmptySet
    <3>5. count'[c] = Cardinality(Users(c)') + Cardinality(Linkers(c)') + Cardinality(Droppers(c)')
      BY <3>2, <3>4
    <3> QED
      BY <2>4, <3>2, <3>3, <3>5 DEF Settled
  <2>7. Doomed(c) => Doomed(c)'
    <3> SUFFICES ASSUME Doomed(c) PROVE Doomed(c)'
      OBVIOUS
    <3>1. \E u \in Deleters(c) : u # t
      BY <2>0, <2>2 DEF Doomed
    <3> QED
      BY <2>1, <2>4, <3>1 DEF Doomed
  <2> QED
    BY <2>0, <2>3, <2>5, <2>6, <2>7 DEF ChunkOK
<1>12. Exact'
  BY <1>2, <1>10, <1>11 DEF Exact
<1> QED
  BY <1>8, <1>9, <1>12 DEF RegistryInv

\* Every step keeps the invariant, one case per action.
LEMMA RegistryPreserved == RegistryInv /\ [RegistryNext]_registryVars => RegistryInv'
<1> SUFFICES ASSUME RegistryInv, [RegistryNext]_registryVars PROVE RegistryInv'
  OBVIOUS
<1>0. registers \in Nat /\ registers \in 0 .. MaxRegisters
  BY RegistryConstants DEF RegistryInv, RTypes
<1>1. CASE UNCHANGED registryVars
  BY <1>0, <1>1, RegistryStutter DEF registryVars
<1>2. ASSUME NEW c \in Chunks, Age(c) PROVE RegistryInv'
  BY <1>0, <1>2, RegistryStutter DEF Age
<1>3. ASSUME NEW t \in Threads,
             \/ \E v \in Versions : Protect(t, v)
             \/ ClearPending(t)
             \/ \E c \in Chunks : StoreFails(t, c)
      PROVE  RegistryInv'
  BY <1>0, <1>3, RegistryStutter DEF Protect, ClearPending, StoreFails, registryVars
<1>4. ASSUME NEW t \in Threads, UnregisterDone(t) PROVE RegistryInv'
  BY <1>4, Returned DEF UnregisterDone
<1>5. ASSUME NEW t \in Threads, CollectDone(t) PROVE RegistryInv'
  BY <1>5, Returned DEF CollectDone
<1>6. ASSUME NEW t \in Threads,
             \/ \E c \in Chunks, v \in Versions : RegisterKnown(t, c, v) \/ RegisterStore(t, c, v)
             \/ \E v \in Versions : Unregister(t, v)
             \/ Collect(t) \/ CollectGarbage(t, "user")
      PROVE  RegistryInv'
  BY <1>6, KnownRegistered, NewRegistered, Unregistered, Collected DEF Collect
<1>7. ASSUME NEW t \in Threads, RegistryContinue(t) PROVE RegistryInv'
  BY <1>4, <1>5, <1>7, Inserted, Linked, Decremented, Removed, Reset, Deleted, Failed DEF RegistryContinue
<1> QED
  BY <1>1, <1>2, <1>3, <1>6, <1>7 DEF RegistryNext

\* The invariant holds in every reachable state.
LEMMA RegistryInvariant == RegistrySpec => []RegistryInv
BY RegistryInitial, RegistryPreserved, PTL DEF RegistrySpec

\* When every call has returned nobody is at work on a chunk.
LEMMA AllSettled ==
  ASSUME RegistryInv, AllReturned
  PROVE  /\ \A c \in Chunks : Linkers(c) = {} /\ Droppers(c) = {} /\ Resetters(c) = {} /\ Deleters(c) = {}
         /\ \A c \in Chunks \ racedChunks : Settled(c)
<1>1. \A c \in Chunks : Linkers(c) = {} /\ Droppers(c) = {} /\ Resetters(c) = {} /\ Deleters(c) = {}
  BY DEF AllReturned, Linkers, Droppers, Resetters, Deleters, Deleting
<1>2. \A c \in Chunks \ racedChunks : Settled(c)
  BY <1>1 DEF RegistryInv, Exact, ChunkOK, Vanishing, Doomed
<1> QED
  BY <1>1, <1>2

\* For any number of threads, chunks and versions: when every call has
\* returned, the count of a chunk that met none of the named races is the
\* number of versions that contain it, and no count is left wrapped around
\* (register, unregister_version, dec_ref, collect_garbage).
THEOREM CountsExact == RegistrySpec => []RefCountExact
<1>1. RegistryInv => RefCountExact
  <2> SUFFICES ASSUME RegistryInv, AllReturned
               PROVE  /\ \A c \in Chunks \ racedChunks :
                           IF count[c] = Absent THEN Users(c) = {} ELSE count[c] = Cardinality(Users(c))
                      /\ \A c \in Chunks : count[c] <= registers
    BY DEF RefCountExact
  <2>1. \A c \in Chunks : count[c] <= registers
    BY AllSettled DEF RegistryInv, Bounded
  <2>2. ASSUME NEW c \in Chunks \ racedChunks, count[c] # Absent PROVE count[c] = Cardinality(Users(c))
    <3>1. Cardinality(Linkers(c)) = 0 /\ Cardinality(Droppers(c)) = 0
      BY AllSettled, FS_EmptySet
    <3>2. count[c] = Cardinality(Users(c)) + Cardinality(Linkers(c)) + Cardinality(Droppers(c))
      BY <2>2, AllSettled DEF Settled
    <3> QED
      BY <3>1, <3>2, Finite
  <2>3. ASSUME NEW c \in Chunks \ racedChunks, count[c] = Absent PROVE Users(c) = {}
    BY <2>3, AllSettled DEF Settled, Unused
  <2> QED
    BY <2>1, <2>2, <2>3
<1> QED
  BY <1>1, RegistryInvariant, PTL

\* For any number of threads, chunks and versions: when every call has
\* returned, the data of a chunk that is used or known is there, unless the
\* chunk met one of the named races (register, collect_garbage).
THEOREM DataKept == RegistrySpec => []NoDataLoss
<1>1. RegistryInv => NoDataLoss
  <2> SUFFICES ASSUME RegistryInv, AllReturned, NEW c \in Chunks \ racedChunks, Users(c) # {} \/ count[c] # Absent
               PROVE  c \in stored
    BY DEF NoDataLoss
  <2> QED
    BY AllSettled DEF Settled, Unused
<1> QED
  BY <1>1, RegistryInvariant, PTL
=============================================================================
