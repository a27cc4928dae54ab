-------------------------- MODULE MCHaCoordination --------------------------
(***************************************************************************)
(* Small instances of HaCoordination, in one state space.  An initial      *)
(* state picks the deployment (focus): two servers on PostgreSQL, one      *)
(* server whose old process lingers after a restart, or SQLite; or         *)
(* TargetHealth, whose rows are written behind the fence: two targets, or  *)
(* one that is probed often enough to become healthy and fail again.       *)
(***************************************************************************)
EXTENDS HaCoordination, TargetHealth, TLC

CONSTANTS p1, p2, i1, i2

VARIABLE focus

MCvars == <<vars, thVars, focus>>

TwoInstances == p1 :> i1 @@ p2 :> i2
OneInstance == p1 :> i1 @@ p2 :> i1

Restart == INSTANCE HaCoordination WITH InstanceOf <- OneInstance, MaxClock <- 2
Sqlite == INSTANCE HaCoordination WITH Backend <- "sqlite", MaxClock <- 3

\* the clock of the second server is behind the revisions of the first
MCPool == <<[addr |-> "x", weight |-> 2], [addr |-> "y", weight |-> 1]>>
MCWall == [s \in {"a", "b"} |-> IF s = "a" THEN 3 ELSE 0]

OneTarget == INSTANCE TargetHealth WITH
    ThPool <- SubSeq(MCPool, 1, 1), ThSuccess <- 1, ThMaxProbes <- 3

MCInit ==
    /\ focus \in {"two", "restart", "sqlite", "targets", "one_target"}
    /\ Init
    /\ IF focus = "one_target" THEN OneTarget!ThInit ELSE ThInit

MCTwo(A) == focus = "two" /\ A /\ UNCHANGED <<thVars, focus>>

MCNext ==
    \/ MCTwo(Next)
    \/ focus = "restart" /\ Restart!Next /\ UNCHANGED <<thVars, focus>>
    \/ focus = "sqlite" /\ Sqlite!Next /\ UNCHANGED <<thVars, focus>>
    \/ focus = "targets" /\ ThNext /\ UNCHANGED <<vars, focus>>
    \/ focus = "one_target" /\ OneTarget!ThNext /\ UNCHANGED <<vars, focus>>

\* Fairness of HaCoordination, where there are two servers
MCSpec ==
    /\ MCInit /\ [][MCNext]_MCvars
    /\ WF_MCvars(MCTwo(Tick))
    /\ \A p \in Process :
         /\ WF_MCvars(MCTwo(Heartbeat(p)))
         /\ WF_MCvars(MCTwo(HeartbeatFails(p)))
         /\ WF_MCvars(MCTwo(CommitFencedWrite(p) \/ RollbackFencedWrite(p)))

-----------------------------------------------------------------------------
MCOpen ==
    CASE focus = "two" -> FenceOpen
      [] focus = "restart" -> Restart!FenceOpen
      [] focus = "sqlite" -> Sqlite!FenceOpen
      [] focus \in {"targets", "one_target"} -> FenceOpen
MCPromise == INSTANCE FencedLeadership WITH open <- MCOpen

\* ImplementsFencing in every deployment: a step of leases, locks and clocks
\* (ha_coordination.rs) is a step of FencedLeadership.
MCImplementsFencing == MCPromise!Spec

\* Failover with two servers: while one of them keeps running and its
\* heartbeats stop failing, leadership is not left vacant for good.
MCFailover ==
    \A p \in Process :
      /\ <>[](focus = "two" /\ phase[p] \notin {"off", "stopping", "dead"})
      /\ <>[][~AnswerLost(p)]_vars
      => []<>LeaderHolds

\* A restart is safe: on PostgreSQL the new process cannot take the member row
\* of the old one while that one's fenced transaction is open, and on SQLite,
\* after recovery, no leader row of an earlier process is in the way.
MCRestartIsSafe ==
    /\ focus = "restart" => Restart!FencedTxKeepsMembership
    /\ focus = "sqlite" => Sqlite!SqliteRestartLeads

\* The health of a pool (target_health.rs, the client's target_probe.rs), with
\* two targets and with one: the thresholds damp changes in both directions,
\* a new leader's probes count, the client routes by its newest probe and
\* weighted selection gives each healthy target its share.
MCHealthSound == IF focus = "one_target" THEN OneTarget!ThHealthSound ELSE ThHealthSound
=============================================================================
