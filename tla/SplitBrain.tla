----------------------------- MODULE SplitBrain -----------------------------
(***************************************************************************)
(* The split-brain detector of one node (warp-store, arbiter/detector.rs), *)
(* on top of the membership of its vote tracker.                           *)
(*                                                                         *)
(* Heartbeat results are reported by several threads.  heartbeat_success   *)
(* updates the record of the node, then the tracker, then looks whether a  *)
(* partition heals; heartbeat_failure updates record and tracker under the *)
(* guard of the record and then runs check_partition, which keeps the      *)
(* write lock of partition_info while it reads the records twice.          *)
(***************************************************************************)
EXTENDS ClusterNodes

CONSTANTS
  Domains,            \* failure domains
  FailureThreshold,   \* DetectorConfig::failure_threshold
  NoThread

ASSUME DetectorConstants ==
  /\ Self \in Members
  /\ FailureThreshold \in Nat \ {0}
  /\ NoThread \notin Threads

VARIABLES
  bmembers, breachable,   \* the membership of the detector's vote tracker
  fails,      \* the keys of heartbeats with their consecutive_failures
  silent,     \* the nodes whose last_heartbeat is older than suspect_timeout
  zones,      \* domain_nodes, seen from the node
  info,       \* partition_info
  infoGuard,  \* the thread that holds its write lock inside check_partition
  bpc, bloc,    \* where each thread is, and the set of nodes it has collected
  churned     \* history: nodes were registered or removed since the start

recordVars == <<fails, silent, zones, churned>>
tracked == <<bmembers, breachable>>
detectorVars == <<tracked, recordVars, info, infoGuard, bpc, bloc>>

Tracked == INSTANCE ClusterNodes WITH members <- bmembers, reachable <- breachable

ResponsiveLimit == 3      \* HeartbeatRecord::is_responsive
\* Bound: larger counts behave like this one.
FailCap == IF FailureThreshold > ResponsiveLimit THEN FailureThreshold ELSE ResponsiveLimit

Monitored  == DOMAIN fails
Responsive == {n \in Monitored : n \notin silent /\ fails[n] < ResponsiveLimit}
PartitionStates == {"Healthy", "Suspected", "Confirmed", "Healing"}
Causes == {"None", "ZoneIsolation", "NodeFailure", "LinkOrUnknown"}

HealthyInfo == [state |-> "Healthy", ours |-> {}, others |-> {}, quorum |-> TRUE,
                cause |-> "None"]

BBusy == {t \in Threads : bpc[t] # "idle"}

BGoto(t, label, ns) ==
  /\ bpc' = [bpc EXCEPT ![t] = label]
  /\ bloc' = [bloc EXCEPT ![t] = ns]

-----------------------------------------------------------------------------
DetectorInit ==
  /\ Tracked!ClusterInit
  /\ fails = [n \in Members \ {Self} |-> 0]
  /\ silent = {}
  /\ zones \in [Nodes -> {{d} : d \in Domains}]
  /\ info = HealthyInfo
  /\ infoGuard = NoThread
  /\ bpc = [t \in Threads |-> "idle"]
  /\ bloc = [t \in Threads |-> {}]
  /\ churned = FALSE

(* Monitoring *)

\* register_node of the detector; a fresh record replaces an old one.  The
\* node is added to the domain and stays in the domains it was in.
Monitor(n, d) ==
  /\ churned' = TRUE
  /\ fails' = [m \in Monitored \cup {n} |-> IF m = n THEN 0 ELSE fails[m]]
  /\ silent' = silent \ {n}
  /\ zones' = [zones EXCEPT ![n] = @ \cup {d}]
  /\ UNCHANGED <<tracked, info, infoGuard, bpc, bloc>>

Unmonitor(n) ==
  /\ churned' = TRUE
  /\ n \in Monitored
  /\ fails' = [m \in Monitored \ {n} |-> fails[m]]
  /\ silent' = silent \ {n}
  /\ zones' = [zones EXCEPT ![n] = {}]
  /\ UNCHANGED <<tracked, info, infoGuard, bpc, bloc>>

FallSilent(n) ==
  /\ n \in Monitored \ silent
  /\ silent' = silent \cup {n}
  /\ UNCHANGED <<tracked, fails, zones, churned, info, infoGuard, bpc, bloc>>

(* heartbeat_success *)

\* A node that is not monitored has no record; its heartbeat still reaches the tracker.
SuccessRecord(t, n) ==
  /\ bpc[t] = "idle"
  /\ fails' = [m \in Monitored |-> IF m = n THEN 0 ELSE fails[m]]
  /\ silent' = silent \ {n}
  /\ BGoto(t, "success_tracker", {n})
  /\ UNCHANGED <<tracked, zones, churned, info, infoGuard>>

SuccessTracker(t) ==
  /\ bpc[t] = "success_tracker"
  /\ \E n \in bloc[t] : Tracked!Heartbeat(n)
  /\ BGoto(t, "healing", {})
  /\ UNCHANGED <<info, infoGuard, recordVars>>

\* Mutant: a partition that is only suspected heals as well.
CheckHealingEarly(t) ==
  /\ bpc[t] = "healing"
  /\ infoGuard = NoThread
  /\ info' = IF info.state # "Healthy" /\ info.others \cap Responsive # {}
             THEN [info EXCEPT !.state = "Healing"] ELSE info
  /\ BGoto(t, "idle", {})
  /\ UNCHANGED <<tracked, infoGuard, recordVars>>

CheckHealing(t) ==
  /\ bpc[t] = "healing"
  /\ infoGuard = NoThread
  /\ info' = IF info.state = "Confirmed" /\ info.others \cap Responsive # {}
             THEN [info EXCEPT !.state = "Healing"] ELSE info
  /\ BGoto(t, "idle", {})
  /\ UNCHANGED <<tracked, infoGuard, recordVars>>

(* heartbeat_failure *)

\* For a node that is not monitored only the check is left: CheckCall.
FailureRecord(t, n) ==
  /\ bpc[t] = "idle"
  /\ n \in Monitored
  /\ LET count == IF fails[n] < FailCap THEN fails[n] + 1 ELSE FailCap
     IN /\ fails' = [fails EXCEPT ![n] = count]
        /\ IF count >= FailureThreshold THEN Tracked!MarkUnreachable(n)
                                        ELSE UNCHANGED tracked
  /\ BGoto(t, "check", {})
  /\ UNCHANGED <<silent, zones, churned, info, infoGuard>>

(* check_partition *)

\* Also called on its own, at every check_interval.
CheckCall(t) ==
  /\ bpc[t] = "idle"
  /\ BGoto(t, "check", {})
  /\ UNCHANGED <<tracked, info, infoGuard, recordVars>>

\* Mutant: the records are read before the lock is taken.
CheckCollectUnlocked(t) ==
  /\ bpc[t] = "check"
  /\ infoGuard' = infoGuard
  /\ BGoto(t, "check_decide", Monitored \ Responsive)
  /\ UNCHANGED <<tracked, info, recordVars>>

CheckCollect(t) ==
  /\ bpc[t] = "check"
  /\ infoGuard = NoThread
  /\ infoGuard' = t
  /\ BGoto(t, "check_decide", Monitored \ Responsive)
  /\ UNCHANGED <<tracked, info, recordVars>>

EstimateCause(unreachable) ==
  LET hit == UNION {zones[n] : n \in unreachable}
  IN IF Cardinality(hit) = 1 THEN "ZoneIsolation"
     ELSE IF Cardinality(unreachable) = 1 THEN "NodeFailure"
     ELSE "LinkOrUnknown"

\* we_have_quorum is left alone.
DecideHealthy(ours) ==
  info' = [HealthyInfo EXCEPT !.ours = ours, !.quorum = info.quorum]

\* Mutant: the quorum is only looked at when the partition is first seen.
DecidePartitionedOnce(ours, unreachable) ==
  \E confirm \in BOOLEAN :
    info' = [state  |-> CASE info.state = "Healthy" -> "Suspected"
                          [] info.state = "Suspected" /\ confirm -> "Confirmed"
                          [] OTHER -> info.state,
             ours   |-> ours,
             others |-> unreachable,
             quorum |-> IF info.state = "Healthy" THEN Tracked!HasQuorum ELSE info.quorum,
             cause  |-> IF info.state = "Healthy" THEN EstimateCause(unreachable)
                        ELSE info.cause]

\* A suspected partition is confirmed once confirm_timeout has passed.
DecidePartitioned(ours, unreachable) ==
  \E confirm \in BOOLEAN :
    info' = [state  |-> CASE info.state = "Healthy" -> "Suspected"
                          [] info.state = "Suspected" /\ confirm -> "Confirmed"
                          [] OTHER -> info.state,
             ours   |-> ours,
             others |-> unreachable,
             quorum |-> Tracked!HasQuorum,
             cause  |-> IF info.state = "Healthy" THEN EstimateCause(unreachable)
                        ELSE info.cause]

\* The second pass over the records, and the decision.
CheckDecide(t) ==
  /\ bpc[t] = "check_decide"
  /\ LET ours == Responsive \cup {Self}
     IN IF bloc[t] = {} THEN DecideHealthy(ours) ELSE DecidePartitioned(ours, bloc[t])
  /\ infoGuard' = NoThread
  /\ BGoto(t, "idle", {})
  /\ UNCHANGED <<tracked, recordVars>>

-----------------------------------------------------------------------------
DetectorStep(t) ==
  \/ \E n \in Nodes \ {Self} : SuccessRecord(t, n) \/ FailureRecord(t, n)
  \/ SuccessTracker(t)
  \/ CheckHealing(t)
  \/ CheckCall(t) \/ CheckCollect(t) \/ CheckDecide(t)

DetectorNext ==
  \/ \E t \in Threads : DetectorStep(t)
  \/ \E n \in Nodes \ {Self} : \/ FallSilent(n) \/ Unmonitor(n)
                               \/ \E d \in Domains : Monitor(n, d)

DetectorSpec == DetectorInit /\ [][DetectorNext]_detectorVars

-----------------------------------------------------------------------------
(* Properties *)

\* Types; the records never cover this node, whatever is registered, and only
\* members of the tracker count as reachable, whoever sends heartbeats.
DetectorTypeOK ==
  /\ Tracked!ClusterTypeOK
  /\ Monitored \subseteq Nodes \ {Self}
  /\ fails \in [Monitored -> 0 .. FailCap]
  /\ silent \subseteq Monitored
  /\ zones \in [Nodes -> SUBSET Domains]
  /\ info \in [state : PartitionStates, ours : SUBSET Nodes, others : SUBSET Nodes,
               quorum : BOOLEAN, cause : Causes]
  /\ infoGuard \in Threads \cup {NoThread}
  /\ bloc \in [Threads -> SUBSET Nodes]

\* A partition is never missed: when every report has been handled, a node
\* with three failures in a row leaves the detector out of Healthy, in whatever
\* order the reports of the threads went.
NoMissedPartition ==
  (BBusy = {} /\ \E n \in Monitored : fails[n] >= ResponsiveLimit)
    => info.state # "Healthy"

\* The detector never claims a quorum that the tracker knows to be lost, when
\* every report has been handled and the monitored nodes were fixed (mod.rs: only
\* one partition may serve writes).
NoFalseQuorumClaim ==
  (BBusy = {} /\ ~churned /\ info.quorum) => Tracked!HasQuorum

\* The states follow each other as PartitionState documents them: a partition
\* is suspected, then confirmed, then healing, and from each state the next
\* check may find every node back.
StateOrder ==
  [][ \/ info'.state \in {info.state, "Healthy"}
      \/ info.state = "Healthy"   /\ info'.state = "Suspected"
      \/ info.state = "Suspected" /\ info'.state = "Confirmed"
      \/ info.state = "Confirmed" /\ info'.state = "Healing" ]_detectorVars
=============================================================================
