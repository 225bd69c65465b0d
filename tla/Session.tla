------------------------------- MODULE Session -------------------------------
(***************************************************************************)
(* The client sessions of the gateways (warp-gateway-common, session.rs):  *)
(* sessions by id, the client-to-session mapping, the files a session has  *)
(* open and the locks it holds on them, with their limits.                 *)
(*                                                                         *)
(* A call on a session holds a guard of its map entry, so a session is not *)
(* removed while a thread works on it.  open_files is a concurrent map of  *)
(* its own: its length is read before the new file goes in.                *)
(***************************************************************************)
EXTENDS GatewayClients

CONSTANTS
  MaxOpenFiles,  \* SessionConfig::max_open_files
  MaxLocks,      \* SessionConfig::max_locks
  MaxSessions,   \* bound: sessions that are created
  MaxFiles       \* bound: files opened in a session

ASSUME SessionConstants ==
  /\ {MaxOpenFiles, MaxLocks, MaxSessions, MaxFiles} \subseteq Nat

SessionIds == 1 .. MaxSessions
FileIds    == 1 .. MaxFiles

VARIABLES
  session,   \* sessions: the client of each session, NoClient without one
  expired,   \* the sessions past idle_timeout or max_lifetime
  mapped,    \* client_to_session: 0 for a client without an entry
  open,      \* open_files of each session: its file ids
  locks,     \* the number of locks on each file of each session
  nextId,    \* next_session_id
  nextFile,  \* next_file_id of each session
  spc, sloc,   \* where each thread is, and its locals
  reconnected, \* history: clients that created a session while they had one
  sessionOverlapped   \* history: two calls have been under way at the same time

sHistVars == <<reconnected, sessionOverlapped>>
sessionVars     == <<session, expired, mapped, open, locks, nextId, nextFile, spc, sloc, sHistVars>>

SNoWork == [session |-> 0, client |-> NoClient, todo |-> {}]

SBusy == {t \in Threads : spc[t] # "idle"}

SGoto(t, label, work) ==
  /\ spc' = [spc EXCEPT ![t] = label]
  /\ sloc' = [sloc EXCEPT ![t] = work]
  /\ sessionOverlapped' = (sessionOverlapped \/ (label # "idle" /\ SBusy \ {t} # {}))

SReturn(t) == SGoto(t, "idle", SNoWork)

Live(s)      == session[s] # NoClient
SUnguarded(s) == \A t \in Threads : ~(spc[t] = "open" /\ sloc[t].session = s)

-----------------------------------------------------------------------------
SessionInit ==
  /\ session = [s \in SessionIds |-> NoClient]
  /\ expired = {}
  /\ mapped = [c \in Clients |-> 0]
  /\ open = [s \in SessionIds |-> {}]
  /\ locks = [s \in SessionIds |-> [f \in FileIds |-> 0]]
  /\ nextId = 1
  /\ nextFile = [s \in SessionIds |-> 1]
  /\ spc = [t \in Threads |-> "idle"]
  /\ sloc = [t \in Threads |-> SNoWork]
  /\ reconnected = {} /\ sessionOverlapped = FALSE

(* create_session *)

CreateSession(t, c) ==
  /\ spc[t] = "idle"
  /\ nextId <= MaxSessions
  /\ session' = [session EXCEPT ![nextId] = c]
  /\ nextId' = nextId + 1
  /\ SGoto(t, "map", [SNoWork EXCEPT !.session = nextId, !.client = c])
  /\ reconnected' = reconnected \cup {d \in {c} : \E s \in SessionIds : session[s] = d}
  /\ UNCHANGED <<expired, mapped, open, locks, nextFile>>

\* Mutant: the client is not mapped.
CreateNoMap(t) ==
  /\ spc[t] = "map"
  /\ SReturn(t)
  /\ UNCHANGED <<session, expired, mapped, open, locks, nextId, nextFile, reconnected>>

CreateMap(t) ==
  /\ spc[t] = "map"
  /\ mapped' = [mapped EXCEPT ![sloc[t].client] = sloc[t].session]
  /\ SReturn(t)
  /\ UNCHANGED <<session, expired, open, locks, nextId, nextFile, reconnected>>

\* idle_timeout or max_lifetime passes.
Expire(s) ==
  /\ Live(s) /\ s \notin expired
  /\ expired' = expired \cup {s}
  /\ UNCHANGED <<session, mapped, open, locks, nextId, nextFile, spc, sloc, reconnected, sessionOverlapped>>

(* destroy_session, expire_idle_sessions and get_session of an expired session *)

StartDestroying(t, ids) ==
  /\ spc[t] = "idle"
  /\ ids # {}
  /\ SGoto(t, "destroy", [SNoWork EXCEPT !.todo = ids])
  /\ UNCHANGED <<session, expired, mapped, open, locks, nextId, nextFile, reconnected>>

DestroySession(t, s)  == Live(s) /\ StartDestroying(t, {s})
GetSession(t, s)      == Live(s) /\ s \in expired /\ StartDestroying(t, {s})
ExpireIdleSessions(t) == StartDestroying(t, {s \in expired : Live(s)})

DestroyRemove(t, s) ==
  /\ spc[t] = "destroy"
  /\ s \in sloc[t].todo
  /\ SUnguarded(s)
  /\ session' = [session EXCEPT ![s] = NoClient]
  /\ expired' = expired \ {s}
  /\ open' = [open EXCEPT ![s] = {}]
  /\ locks' = [locks EXCEPT ![s] = [f \in FileIds |-> 0]]
  /\ SGoto(t, IF Live(s) THEN "unmap" ELSE "destroy",
          [sloc[t] EXCEPT !.client = session[s], !.todo = @ \ {s}])
  /\ UNCHANGED <<mapped, nextId, nextFile, reconnected>>

\* client_to_session.remove, whichever session the client is mapped to.
DestroyUnmap(t) ==
  /\ spc[t] = "unmap"
  /\ mapped' = [mapped EXCEPT ![sloc[t].client] = 0]
  /\ SGoto(t, "destroy", [sloc[t] EXCEPT !.client = NoClient])
  /\ UNCHANGED <<session, expired, open, locks, nextId, nextFile, reconnected>>

DestroyDone(t) ==
  /\ spc[t] = "destroy"
  /\ sloc[t].todo = {}
  /\ SReturn(t)
  /\ UNCHANGED <<session, expired, mapped, open, locks, nextId, nextFile, reconnected>>

(* the files and locks of a session, reached through get_session *)

OpenCheck(t, s) ==
  /\ spc[t] = "idle"
  /\ Live(s) /\ s \notin expired
  /\ Cardinality(open[s]) < MaxOpenFiles
  /\ nextFile[s] <= MaxFiles
  /\ SGoto(t, "open", [SNoWork EXCEPT !.session = s])
  /\ UNCHANGED <<session, expired, mapped, open, locks, nextId, nextFile, reconnected>>

\* The file gets the next id and goes in; touch takes the session back unless its
\* lifetime is over.
OpenFile(t) ==
  LET s == sloc[t].session
  IN  /\ spc[t] = "open"
      /\ nextFile[s] <= MaxFiles
      /\ open' = [open EXCEPT ![s] = @ \cup {nextFile[s]}]
      /\ nextFile' = [nextFile EXCEPT ![s] = @ + 1]
      /\ expired' \in {expired, expired \ {s}}
      /\ SReturn(t)
      /\ UNCHANGED <<session, mapped, locks, nextId, reconnected>>

CloseFile(t, s, f) ==
  /\ spc[t] = "idle"
  /\ Live(s) /\ s \notin expired
  /\ f \in open[s]
  /\ open' = [open EXCEPT ![s] = @ \ {f}]
  /\ locks' = [locks EXCEPT ![s][f] = 0]
  /\ UNCHANGED <<session, expired, mapped, nextId, nextFile, spc, sloc, reconnected, sessionOverlapped>>

AddLock(t, s, f) ==
  /\ spc[t] = "idle"
  /\ Live(s) /\ s \notin expired
  /\ f \in open[s]
  /\ locks[s][f] < MaxLocks
  /\ locks' = [locks EXCEPT ![s][f] = @ + 1]
  /\ UNCHANGED <<session, expired, mapped, open, nextId, nextFile, spc, sloc, reconnected, sessionOverlapped>>

RemoveLock(t, s, f) ==
  /\ spc[t] = "idle"
  /\ Live(s) /\ s \notin expired
  /\ f \in open[s]
  /\ locks[s][f] > 0
  /\ locks' = [locks EXCEPT ![s][f] = @ - 1]
  /\ UNCHANGED <<session, expired, mapped, open, nextId, nextFile, spc, sloc, reconnected, sessionOverlapped>>

-----------------------------------------------------------------------------
SessionCall(t) ==
  \/ \E c \in Clients : CreateSession(t, c)
  \/ \E s \in SessionIds :
       \/ DestroySession(t, s) \/ GetSession(t, s) \/ OpenCheck(t, s)
       \/ \E f \in FileIds : CloseFile(t, s, f) \/ AddLock(t, s, f) \/ RemoveLock(t, s, f)
  \/ ExpireIdleSessions(t)

SessionContinue(t) ==
  \/ CreateMap(t)
  \/ \E s \in SessionIds : DestroyRemove(t, s)
  \/ DestroyUnmap(t) \/ DestroyDone(t)
  \/ OpenFile(t)

SessionNext ==
  \/ \E t \in Threads : SessionCall(t) \/ SessionContinue(t)
  \/ \E s \in SessionIds : Expire(s)

SessionSpec == SessionInit /\ [][SessionNext]_sessionVars

-----------------------------------------------------------------------------
(* Properties *)

\* The types; a file that is not open holds no locks, a session that is gone no
\* files.
SessionTypeOK ==
  /\ session \in [SessionIds -> Clients \cup {NoClient}]
  /\ mapped \in [Clients -> 0 .. MaxSessions]
  /\ expired \subseteq {s \in SessionIds : Live(s)}
  /\ \A s \in SessionIds :
       /\ open[s] \subseteq (IF Live(s) THEN FileIds ELSE {})
       /\ \A f \in FileIds : locks[s][f] \in (IF f \in open[s] THEN 0 .. MaxLocks ELSE {0})

\* As long as calls come one after the other the mapping is exact between them: a
\* client is mapped to a session that is alive and its own, or to none, also when
\* it reconnects (session.rs:255 "Client ID to session ID mapping"), and a client
\* that never had two sessions at once is mapped to the one it has (session.rs:307
\* "Get session by client ID").
ClientFindsSession ==
  (~sessionOverlapped /\ SBusy = {})
    => /\ \A c \in Clients : mapped[c] # 0 => session[mapped[c]] = c
       /\ \A s \in SessionIds : (Live(s) /\ session[s] \notin reconnected)
                                 => mapped[session[s]] = s
=============================================================================
