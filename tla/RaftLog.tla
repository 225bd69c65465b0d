------------------------------- MODULE RaftLog -------------------------------
(***************************************************************************)
(* The persistent Raft log of the consistency layer (warp-store,           *)
(* consistency/persistent_log.rs) on sled.  The Raft library (openraft)    *)
(* calls it one operation at a time, each under the store's write lock.    *)
(*                                                                         *)
(* sled applies single writes and batches atomically and in order, and     *)
(* flush makes everything so far durable: a crash leaves the state after   *)
(* any write since the last flush.                                         *)
(***************************************************************************)
EXTENDS Integers, FiniteSets

CONSTANTS
  MaxIndex,    \* bound: log indices
  MaxVote,     \* bound: terms that are voted in
  MaxCrashes   \* bound: crashes

ASSUME RaftLogAssumption == MaxIndex \in Nat /\ MaxVote \in Nat /\ MaxCrashes \in Nat

VARIABLES
  tree,      \* log_tree and meta_tree
  durable,   \* external: what sled may come back with after a crash
  job,       \* the operation under way: its name, the keys still to remove, its
             \* argument and the entries it removes
  acked,     \* history: the entries, vote and commit index that were acknowledged
  gone,      \* history: the entries a truncate that returned has removed
  crashes    \* the number of crashes

raftVars == <<tree, durable, job, acked, gone, crashes>>

Indices == 1 .. MaxIndex
NoJob == [op |-> "idle", todo |-> {}, arg |-> 0, drops |-> {}]
\* log[i] is the term of the entry, 0 without one.
EmptyTree == [log |-> [i \in Indices |-> 0], vote |-> 0, committed |-> 0, purged |-> 0]

Present(d) == {i \in Indices : d.log[i] # 0}
Highest(S, low) == IF S = {} THEN low ELSE CHOOSE i \in S : \A j \in S : j <= i
Lowest(S) == CHOOSE i \in S : \A j \in S : i <= j

\* last_log_id: 0 for None, when the log is empty.
LastLogId(d) == Highest(Present(d), 0)

\* external: get_log_state hands out last_log_id and last_purged, and the library
\* goes on behind the later of the two.
LastLog(d) == Highest({LastLogId(d), d.purged}, 0)

RaftLogInit ==
  /\ tree = EmptyTree
  /\ durable = {EmptyTree}
  /\ job = NoJob
  /\ acked = [log |-> [i \in Indices |-> 0], vote |-> 0, committed |-> 0]
  /\ gone = {}
  /\ crashes = 0

\* A write or a batch of sled, and its flush.
SledWrite(d) == tree' = d /\ durable' = durable \cup {d}
SledFlush == durable' = {tree} /\ UNCHANGED tree

Begin(op, todo, arg) ==
  job' = [op |-> op, todo |-> todo, arg |-> arg, drops |-> {<<i, tree.log[i]>> : i \in todo}]

-----------------------------------------------------------------------------
(* The operations up to their flush *)

SaveVote(v) ==
  /\ job = NoJob
  /\ v > tree.vote
  /\ SledWrite([tree EXCEPT !.vote = v])
  /\ Begin("save_vote", {}, v)
  /\ UNCHANGED <<acked, gone, crashes>>

\* A batch of entries behind the last one, in the term of the vote.
AppendEntries(last) ==
  /\ job = NoJob
  /\ tree.vote > 0
  /\ last > LastLog(tree)
  /\ SledWrite([tree EXCEPT !.log = [i \in Indices |->
                  IF i > LastLog(tree) /\ i <= last THEN tree.vote ELSE @[i]]])
  /\ Begin("append", {}, 0)
  /\ UNCHANGED <<acked, gone, crashes>>

\* The Raft library only saves what is in the log, and never None.
SaveCommitted(c) ==
  /\ job = NoJob
  /\ c > tree.committed /\ c <= LastLog(tree)
  /\ SledWrite([tree EXCEPT !.committed = c])
  /\ Begin("save_committed", {}, c)
  /\ UNCHANGED <<acked, gone, crashes>>

\* The library truncates entries behind the commit index that a leader of a later
\* term does not have, and purges up to the commit index.
Truncate(from) ==
  /\ job = NoJob
  /\ from > tree.committed
  /\ \A i \in Present(tree) : i >= from => tree.log[i] < tree.vote
  /\ Begin("truncate", {i \in Present(tree) : i >= from}, from)
  /\ acked' = [acked EXCEPT !.log = [i \in Indices |-> IF i >= from THEN 0 ELSE @[i]]]
  /\ UNCHANGED <<tree, durable, gone, crashes>>

Purge(to) ==
  /\ job = NoJob
  /\ to > tree.purged /\ to <= tree.committed
  /\ Begin("purge", {i \in Present(tree) : i <= to}, to)
  /\ acked' = [acked EXCEPT !.log = [i \in Indices |-> IF i <= to THEN 0 ELSE @[i]]]
  /\ UNCHANGED <<tree, durable, gone, crashes>>

\* keys_to_remove, one by one in the order of the keys.
RemoveKey ==
  /\ job.todo # {}
  /\ LET i == Lowest(job.todo)
     IN  /\ SledWrite([tree EXCEPT !.log[i] = 0])
         /\ job' = [job EXCEPT !.todo = @ \ {i}]
  /\ UNCHANGED <<acked, gone, crashes>>

SetLastPurged ==
  /\ job.op = "purge" /\ job.todo = {}
  /\ SledWrite([tree EXCEPT !.purged = job.arg])
  /\ job' = [job EXCEPT !.op = "purged"]
  /\ UNCHANGED <<acked, gone, crashes>>

-----------------------------------------------------------------------------
(* The end of the operations *)

\* Mutant: append acknowledges before it flushes.
AckUnflushed ==
  /\ job.op \in {"save_vote", "append", "save_committed"}
  /\ acked' = CASE job.op = "save_vote" -> [acked EXCEPT !.vote = job.arg]
                [] job.op = "append" -> [acked EXCEPT !.log = tree.log]
                [] OTHER -> [acked EXCEPT !.committed = job.arg]
  /\ job' = NoJob
  /\ UNCHANGED <<tree, durable, gone, crashes>>

\* Flush and answer; append calls log_io_completed.
FlushAndAck ==
  /\ job.op \in {"save_vote", "append", "save_committed"}
  /\ SledFlush
  /\ acked' = CASE job.op = "save_vote" -> [acked EXCEPT !.vote = job.arg]
                [] job.op = "append" -> [acked EXCEPT !.log = tree.log]
                [] OTHER -> [acked EXCEPT !.committed = job.arg]
  /\ job' = NoJob
  /\ UNCHANGED <<gone, crashes>>

\* truncate and purge flush when they have removed something.
Removed ==
  /\ job.op \in {"truncate", "purged"} /\ job.todo = {}
  /\ IF job.drops # {} THEN SledFlush ELSE UNCHANGED <<tree, durable>>
  /\ gone' = IF job.op = "truncate" THEN gone \cup job.drops ELSE gone
  /\ job' = NoJob
  /\ UNCHANGED <<acked, crashes>>

\* The process dies; open finds what sled has kept.
Crash ==
  /\ crashes < MaxCrashes
  /\ crashes' = crashes + 1
  /\ \E d \in durable : tree' = d /\ durable' = {d}
  /\ job' = NoJob
  /\ UNCHANGED <<acked, gone>>

RaftLogNext ==
  \/ \E v \in 1 .. MaxVote : SaveVote(v)
  \/ \E i \in Indices : AppendEntries(i) \/ SaveCommitted(i) \/ Truncate(i) \/ Purge(i)
  \/ RemoveKey \/ SetLastPurged
  \/ FlushAndAck \/ Removed
  \/ Crash

RaftLogSpec == RaftLogInit /\ [][RaftLogNext]_raftVars

-----------------------------------------------------------------------------

\* What an operation has answered for is so after a crash at any moment.  The vote
\* is there, so that this node does not vote twice in a term, the entries are, so
\* that a quorum that was counted is a quorum, and so is the commit index
\* (save_vote, append, save_committed: "Flush to ensure durability"); an entry that
\* truncate has removed does not come back, since a later leader has put another
\* one in its place.
AnswersSurviveCrash ==
  \A d \in durable :
    /\ d.vote >= acked.vote
    /\ d.committed >= acked.committed
    /\ \A i \in Indices : /\ acked.log[i] # 0 => d.log[i] = acked.log[i]
                          /\ <<i, d.log[i]>> \notin gone
=============================================================================
