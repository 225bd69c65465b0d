--------------------------- MODULE ConnectionPool ---------------------------
(***************************************************************************)
(* The pool of connections to edges (warp-orch, pool.rs).  Tasks acquire a *)
(* connection, give it back when they drop it, and close whole edges.  The *)
(* maps are sharded and the semaphores are awaited, so a call is a         *)
(* sequence of steps; a task that waits may be cancelled by its timeout.   *)
(***************************************************************************)
EXTENDS Integers, Sequences, FiniteSets

CONSTANTS
  Tasks, Edges,
  MaxTotal, MaxPerEdge,   \* max_total_connections, max_connections_per_edge
  MaxConnIds,             \* bound: connections that are created
  MaxSemaphores           \* bound: edge semaphores that are created

ASSUME ConnectionAssumption ==
  /\ IsFiniteSet(Tasks) /\ Edges # {}
  /\ MaxPerEdge \in Nat \ {0} /\ MaxTotal \in Nat /\ MaxPerEdge <= MaxTotal
  /\ MaxConnIds \in Nat /\ MaxSemaphores \in Nat

ConnIds == 1 .. MaxConnIds

VARIABLES
  nextConn,         \* next_conn_id
  connections,      \* id |-> "none", "in_use" or "idle"
  connEdge,         \* id |-> the edge it was made for
  edgeConnections,  \* edge |-> ids
  idleIndex,        \* edge |-> stack of idle ids
  totalPermits,     \* of total_semaphore
  edgeSemaphore,    \* edge |-> its semaphore, 0 for none
  edgePermits,      \* semaphore |-> permits
  kpc, kloc,        \* where each task is, and its locals
  straddled         \* history: edges that were closed while an acquire of them was between
                    \* its semaphores and its entry in edge_connections

connVars == <<nextConn, connections, connEdge, edgeConnections, idleIndex, totalPermits,
              edgeSemaphore, edgePermits, kpc, kloc, straddled>>
connMaps == <<nextConn, connections, connEdge, edgeConnections, idleIndex>>
permitVars == <<totalPermits, edgeSemaphore, edgePermits>>

AnEdge == CHOOSE e \in Edges : TRUE
NoCall == [edge |-> AnEdge, id |-> 0, sem |-> 0, ids |-> {}]

ConnectionInit ==
  /\ nextConn = 1
  /\ connections = [i \in ConnIds |-> "none"]
  /\ connEdge = [i \in ConnIds |-> AnEdge]
  /\ edgeConnections = [e \in Edges |-> {}]
  /\ idleIndex = [e \in Edges |-> <<>>]
  /\ totalPermits = MaxTotal
  /\ edgeSemaphore = [e \in Edges |-> 0]
  /\ edgePermits = <<>>
  /\ kpc = [t \in Tasks |-> "idle"]
  /\ kloc = [t \in Tasks |-> NoCall]
  /\ straddled = {}

KGoto(t, label, call) ==
  /\ kpc' = [kpc EXCEPT ![t] = label]
  /\ kloc' = [kloc EXCEPT ![t] = call]

Creating(t, e) == kpc[t] \in {"edge_permit", "insert", "index"} /\ kloc[t].edge = e
Closing(t, e) == kpc[t] \in {"close", "close_idle", "close_semaphore"} /\ kloc[t].edge = e
Live == {i \in ConnIds : connections[i] # "none"}

Straddles(e) == IF \E t \in Tasks : Closing(t, e) THEN straddled \cup {e} ELSE straddled

\* acquire_connection looks for an idle connection first.
Acquire(t, e) ==
  /\ kpc[t] = "idle"
  /\ KGoto(t, "pop", [NoCall EXCEPT !.edge = e])
  /\ UNCHANGED <<connMaps, permitVars, straddled>>

\* Mutant: the id is read and stays in the index.
PopIdlePeek(t) ==
  LET e == kloc[t].edge IN
  /\ kpc[t] = "pop"
  /\ idleIndex[e] # <<>>
  /\ KGoto(t, "take", [kloc[t] EXCEPT !.id = idleIndex[e][Len(idleIndex[e])]])
  /\ UNCHANGED <<connMaps, permitVars, straddled>>

PopIdle(t) ==
  LET e == kloc[t].edge IN
  /\ kpc[t] = "pop"
  /\ idleIndex[e] # <<>>
  /\ KGoto(t, "take", [kloc[t] EXCEPT !.id = idleIndex[e][Len(idleIndex[e])]])
  /\ idleIndex' = [idleIndex EXCEPT ![e] = SubSeq(@, 1, Len(@) - 1)]
  /\ UNCHANGED <<nextConn, connections, connEdge, edgeConnections, permitVars, straddled>>

\* The connection may have been closed since it was popped: the next one is tried.
TakeIdle(t) ==
  LET i == kloc[t].id IN
  /\ kpc[t] = "take"
  /\ \/ /\ connections[i] # "none"
        /\ connections' = [connections EXCEPT ![i] = "in_use"]
        /\ KGoto(t, "held", kloc[t])
     \/ /\ connections[i] = "none"
        /\ KGoto(t, "pop", kloc[t])
        /\ UNCHANGED connections
  /\ UNCHANGED <<nextConn, connEdge, edgeConnections, idleIndex, permitVars, straddled>>

NoIdle(t) ==
  /\ kpc[t] = "pop"
  /\ idleIndex[kloc[t].edge] = <<>>
  /\ KGoto(t, "total_permit", kloc[t])
  /\ UNCHANGED <<connMaps, permitVars, straddled>>

\* The semaphore of the edge is looked up, and made if there is none, once the
\* permit of the pool is there.
TotalPermit(t) ==
  LET e == kloc[t].edge
      new == Len(edgePermits) + 1 IN
  /\ kpc[t] = "total_permit"
  /\ totalPermits > 0
  /\ totalPermits' = totalPermits - 1
  /\ IF edgeSemaphore[e] = 0
       THEN /\ new <= MaxSemaphores
            /\ edgeSemaphore' = [edgeSemaphore EXCEPT ![e] = new]
            /\ edgePermits' = Append(edgePermits, MaxPerEdge)
            /\ KGoto(t, "edge_permit", [kloc[t] EXCEPT !.sem = new])
       ELSE /\ KGoto(t, "edge_permit", [kloc[t] EXCEPT !.sem = edgeSemaphore[e]])
            /\ UNCHANGED <<edgeSemaphore, edgePermits>>
  /\ straddled' = Straddles(e)
  /\ UNCHANGED connMaps

EdgePermit(t) ==
  /\ kpc[t] = "edge_permit"
  /\ edgePermits[kloc[t].sem] > 0
  /\ edgePermits' = [edgePermits EXCEPT ![kloc[t].sem] = @ - 1]
  /\ KGoto(t, "insert", kloc[t])
  /\ UNCHANGED <<connMaps, totalPermits, edgeSemaphore, straddled>>

InsertConnection(t) ==
  /\ kpc[t] = "insert"
  /\ nextConn \in ConnIds
  /\ nextConn' = nextConn + 1
  /\ connections' = [connections EXCEPT ![nextConn] = "in_use"]
  /\ connEdge' = [connEdge EXCEPT ![nextConn] = kloc[t].edge]
  /\ KGoto(t, "index", [kloc[t] EXCEPT !.id = nextConn])
  /\ UNCHANGED <<edgeConnections, idleIndex, permitVars, straddled>>

\* Mutant: the permits go back when the call returns.
IndexReturnsPermits(t) ==
  LET e == kloc[t].edge IN
  /\ kpc[t] = "index"
  /\ edgeConnections' = [edgeConnections EXCEPT ![e] = @ \cup {kloc[t].id}]
  /\ totalPermits' = totalPermits + 1
  /\ edgePermits' = [edgePermits EXCEPT ![kloc[t].sem] = @ + 1]
  /\ KGoto(t, "held", kloc[t])
  /\ UNCHANGED <<nextConn, connections, connEdge, idleIndex, edgeSemaphore, straddled>>

\* The permits are forgotten: the connection keeps them.
IndexConnection(t) ==
  LET e == kloc[t].edge IN
  /\ kpc[t] = "index"
  /\ edgeConnections' = [edgeConnections EXCEPT ![e] = @ \cup {kloc[t].id}]
  /\ KGoto(t, "held", kloc[t])
  /\ UNCHANGED <<nextConn, connections, connEdge, idleIndex, permitVars, straddled>>

\* acquire_timeout drops the waiting call, and with it the permit it has.
TimeOut(t) ==
  /\ kpc[t] \in {"total_permit", "edge_permit"}
  /\ totalPermits' = IF kpc[t] = "edge_permit" THEN totalPermits + 1 ELSE totalPermits
  /\ KGoto(t, "idle", NoCall)
  /\ UNCHANGED <<connMaps, edgeSemaphore, edgePermits, straddled>>

\* Dropping the connection; one that was closed meanwhile is not there any more.
ReleaseConnection(t) ==
  LET i == kloc[t].id IN
  /\ kpc[t] = "held"
  /\ IF connections[i] = "in_use"
       THEN /\ connections' = [connections EXCEPT ![i] = "idle"]
            /\ idleIndex' = [idleIndex EXCEPT ![connEdge[i]] = Append(@, i)]
       ELSE UNCHANGED <<connections, idleIndex>>
  /\ KGoto(t, "idle", NoCall)
  /\ UNCHANGED <<nextConn, connEdge, edgeConnections, permitVars, straddled>>

CloseEdge(t, e) ==
  /\ kpc[t] = "idle"
  /\ edgeConnections' = [edgeConnections EXCEPT ![e] = {}]
  /\ KGoto(t, "close", [NoCall EXCEPT !.edge = e, !.ids = edgeConnections[e]])
  /\ straddled' = IF \E u \in Tasks : Creating(u, e) THEN straddled \cup {e} ELSE straddled
  /\ UNCHANGED <<nextConn, connections, connEdge, idleIndex, permitVars>>

CloseConnection(t) ==
  /\ kpc[t] = "close"
  /\ \/ \E i \in kloc[t].ids :
          /\ connections' = [connections EXCEPT ![i] = "none"]
          /\ KGoto(t, "close", [kloc[t] EXCEPT !.ids = @ \ {i}])
     \/ /\ kloc[t].ids = {}
        /\ KGoto(t, "close_idle", kloc[t])
        /\ UNCHANGED connections
  /\ UNCHANGED <<nextConn, connEdge, edgeConnections, idleIndex, permitVars, straddled>>

CloseIdle(t) ==
  /\ kpc[t] = "close_idle"
  /\ idleIndex' = [idleIndex EXCEPT ![kloc[t].edge] = <<>>]
  /\ KGoto(t, "close_semaphore", kloc[t])
  /\ UNCHANGED <<nextConn, connections, connEdge, edgeConnections, permitVars, straddled>>

\* The next acquire makes a new semaphore; the permits of the pool that the closed
\* connections had are not given back.
CloseSemaphore(t) ==
  /\ kpc[t] = "close_semaphore"
  /\ edgeSemaphore' = [edgeSemaphore EXCEPT ![kloc[t].edge] = 0]
  /\ KGoto(t, "idle", NoCall)
  /\ UNCHANGED <<connMaps, totalPermits, edgePermits, straddled>>

\* The steps of a call that has started; the caller decides about the others.
PoolStep(t) ==
  \/ PopIdle(t) \/ TakeIdle(t) \/ NoIdle(t) \/ TotalPermit(t) \/ EdgePermit(t)
  \/ InsertConnection(t) \/ IndexConnection(t)
  \/ CloseConnection(t) \/ CloseIdle(t) \/ CloseSemaphore(t)

ConnectionNext ==
  \E t \in Tasks :
    \/ PoolStep(t) \/ TimeOut(t) \/ ReleaseConnection(t)
    \/ \E e \in Edges : Acquire(t, e) \/ CloseEdge(t, e)

\* A task that can go on is scheduled by the runtime, and gives its connection
\* back in the end; timeouts and closing are choices of the callers.
FairConnectionSpec ==
  /\ ConnectionInit /\ [][ConnectionNext]_connVars
  /\ \A t \in Tasks : WF_connVars(PoolStep(t)) /\ WF_connVars(ReleaseConnection(t))

-----------------------------------------------------------------------------

\* A connection of the pool is with one task at most, and never in the index of
\* idle ones while a task has it: two tasks would read each other's chunks
\* (acquire_connection against release and close_edge).
OneBorrower ==
  /\ \A t, u \in Tasks : (t # u /\ kpc[t] = "held" /\ kpc[u] = "held") => kloc[t].id # kloc[u].id
  /\ \A e \in Edges : \A k, l \in 1 .. Len(idleIndex[e]) :
       /\ k # l => idleIndex[e][k] # idleIndex[e][l]
       /\ connections[idleIndex[e][k]] # "in_use"

\* The pool never has more connections than max_total_connections, and an edge
\* never more than max_connections_per_edge unless it was closed while an acquire
\* of it was between its semaphores and the entry of its connection: that one is
\* made with a permit of a semaphore that close_edge has thrown away.
ConnectionLimits ==
  /\ Cardinality(Live) <= MaxTotal
  /\ \A e \in Edges \ straddled : Cardinality({i \in Live : connEdge[i] = e}) <= MaxPerEdge

\* An acquire that waits while the edge has an idle connection gets one: "Returns
\* an existing idle connection if available, or creates a new one" (pool.rs:658).
WaitingAcquireIsServed ==
  \A t \in Tasks : \A e \in Edges :
    (kpc[t] = "edge_permit" /\ kloc[t].edge = e /\ idleIndex[e] # <<>>)
      ~> (kpc[t] # "edge_permit" \/ idleIndex[e] = <<>>)
=============================================================================
