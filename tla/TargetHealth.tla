--------------------------- MODULE TargetHealth ---------------------------
(***************************************************************************)
(* The health of the targets behind one policy.  The leader's scheduler    *)
(* (server target_probe.rs) sends probes over the control connection of    *)
(* the policy's agent, the client (client target_probe.rs) runs them in    *)
(* place and keeps a health table of its own, and the results are recorded *)
(* in rows shared by all servers (target_health.rs) behind the fence of    *)
(* the leadership term.  Revisions order the probes: each server draws     *)
(* them from a counter of its process, its wall clock and the stored row.  *)
(***************************************************************************)
EXTENDS Naturals, Sequences, FiniteSets, FiniteSetsExt

CONSTANTS
    ThServers,
    ThPool,       \* targets of the pool: [addr, weight], in its order and, as
                  \* a server walks them, in that of the addresses
    ThWall,       \* wall clock of each server as a revision
    ThSuccess,    \* success_threshold
    ThFailure,    \* failure_threshold
    ThPermits,    \* MAX_CONCURRENT_PROBES
    ThMaxTerm,    \* bound on leadership terms
    ThMaxProbes,  \* bound on the probes sent
    ThMaxFaults   \* bound on lost connections, timeouts and lapses of time

ASSUME ThAssumption ==
    /\ ThSuccess \in Nat \ {0} /\ ThFailure \in Nat \ {0}
    /\ \A i \in DOMAIN ThPool : ThPool[i].weight \in Nat \ {0}
    /\ \A i, j \in DOMAIN ThPool : ThPool[i].addr = ThPool[j].addr => i = j
    /\ \A s \in ThServers : ThWall[s] \in Nat

VARIABLES
    thTerm,    \* term of the leader row
    thLeads,   \* term each server believes to lead, 0 for none
    thNext,    \* NEXT_PROBE_REVISION of each server's process
    thSess,    \* registered control session and its scheduler, <<>> for none
    thWire,    \* probes on their way to the client
    thReplies, \* results on their way to the server
    thClient,  \* ProbeState of the client's session
    thLate,    \* writes cut off by the record timeout that may still commit
    thRow,     \* target_health rows, rev = 0 for none
    thSeen,    \* outcomes recorded per target, newest last
    thSent, thFaults

thVars == <<thTerm, thLeads, thNext, thSess, thWire, thReplies,
            thClient, thLate, thRow, thSeen, thSent, thFaults>>

ThTargets == {ThPool[i].addr : i \in DOMAIN ThPool}
ThWeight(t) == ThPool[CHOOSE i \in DOMAIN ThPool : ThPool[i].addr = t].weight
ThProbe(t, rev) == [t |-> t, rev |-> rev]
ThNoProbe == ThProbe("", 0)

ThNewClient ==
    [latest |-> [t \in ThTargets |-> 0], health |-> [t \in ThTargets |-> "unknown"],
     by |-> [t \in ThTargets |-> 0], running |-> {}]

ThInit ==
    /\ thTerm = 0 /\ thLeads = [s \in ThServers |-> 0]
    /\ thNext = [s \in ThServers |-> 0]
    /\ thSess = <<>> /\ thWire = <<>> /\ thReplies = <<>>
    /\ thClient = ThNewClient
    /\ thLate = {}
    /\ thRow = [t \in ThTargets |-> [rev |-> 0, succ |-> 0, fail |-> 0,
                                     eff |-> FALSE, fresh |-> FALSE]]
    /\ thSeen = [t \in ThTargets |-> <<>>]
    /\ thSent = 0 /\ thFaults = 0

ThHasSession == thSess # <<>>
ThS == thSess[1]
ThFault == thFaults < ThMaxFaults /\ thFaults' = thFaults + 1

\* the control connection ends on both sides; probes still running keep the
\* dropped session's table and their results go nowhere
ThEndSession ==
    /\ thSess' = <<>> /\ thWire' = <<>> /\ thReplies' = <<>>
    /\ thClient' = ThNewClient
ThSameSession == UNCHANGED <<thSess, thWire, thReplies, thClient>>

-----------------------------------------------------------------------------
(* leadership *)

ThTakeOver(s) ==
    /\ thTerm < ThMaxTerm /\ thLeads[s] = 0
    /\ thTerm' = thTerm + 1
    /\ thLeads' = [thLeads EXCEPT ![s] = thTerm + 1]
    /\ ThSameSession
    /\ UNCHANGED <<thNext, thLate, thRow, thSeen, thSent, thFaults>>

\* the server notices that its term is over and stops its registrations
ThDemoted(s) ==
    /\ thLeads[s] \notin {0, thTerm}
    /\ thLeads' = [thLeads EXCEPT ![s] = 0]
    /\ IF ThHasSession /\ ThS.server = s /\ ThS.rec = ThNoProbe
       THEN ThEndSession ELSE ThSameSession
    /\ UNCHANGED <<thTerm, thNext, thLate, thRow, thSeen, thSent, thFaults>>

-----------------------------------------------------------------------------
(* registration of the agent *)

\* a registered agent session: the server spawns the scheduler of the term
\* it leads, the client starts with an empty table
ThRegister(s) ==
    /\ ~ThHasSession
    /\ thLeads[s] # 0
    /\ thSess' = <<[server |-> s, term |-> thLeads[s], live |-> TRUE,
                    read |-> {}, floor |-> [t \in ThTargets |-> 0],
                    todo |-> {}, out |-> {}, late |-> {}, rec |-> ThNoProbe, ok |-> FALSE]>>
    /\ UNCHANGED <<thTerm, thLeads, thNext, thWire, thReplies,
                   thClient, thLate, thRow, thSeen, thSent, thFaults>>

\* the kinds of policy differ in their frames and in the probe they run
ThRegisterTcp(s) == ThRegister(s)
ThRegisterHttp(s) == ThRegister(s)
ThRegisterSni(s) == ThRegister(s)
ThRegisterSecret(s) == ThRegister(s)
ThRegisterUdp(s) == ThRegister(s)
ThRegisterAny(s) ==
    \/ ThRegisterTcp(s) \/ ThRegisterHttp(s) \/ ThRegisterSni(s)
    \/ ThRegisterSecret(s) \/ ThRegisterUdp(s)

\* the agent reconnects after any end of its session
ThLost ==
    /\ ThHasSession /\ ThS.rec = ThNoProbe
    /\ ThFault
    /\ ThEndSession
    /\ UNCHANGED <<thTerm, thLeads, thNext, thLate, thRow, thSeen, thSent>>

-----------------------------------------------------------------------------
(* run_scheduler *)

ThSchedule(new) ==
    /\ thSess' = <<new>>
    /\ UNCHANGED <<thTerm, thLeads, thReplies, thClient, thLate, thRow,
                   thSeen, thFaults>>

\* the map of targets is walked in one order all the time, here the pool's
ThFirstOf(targets) ==
    ThPool[Min({i \in DOMAIN ThPool : ThPool[i].addr \in targets})].addr

\* revision_floors, one row per await
ThReadFloor(t) ==
    /\ ThHasSession /\ ThS.live
    /\ ThS.read # ThTargets /\ t = ThFirstOf(ThTargets \ ThS.read)
    /\ ThSchedule([ThS EXCEPT !.read = @ \cup {t}, !.floor[t] = thRow[t].rev])
    /\ UNCHANGED <<thNext, thWire, thSent>>

\* a tick: leadership is checked once, expired probes are dropped
ThTick ==
    /\ ThHasSession /\ ThS.live /\ ThS.read = ThTargets /\ ThS.todo = {}
    /\ thSent < ThMaxProbes
    /\ ThSchedule(IF thLeads[ThS.server] = ThS.term
                  THEN [ThS EXCEPT !.out = @ \ ThS.late, !.late = {}, !.todo = ThTargets]
                  ELSE [ThS EXCEPT !.live = FALSE])
    /\ UNCHANGED <<thNext, thWire, thSent>>

\* mutant: the stored revision is not a floor
ThAllocateClock(s, floor) == Max({thNext[s] + 1, ThWall[s], 1})
ThAllocateRevision(s, floor) == Max({thNext[s] + 1, floor + 1, ThWall[s], 1})

\* track_probe and the send of one target's probe
ThSendProbe(t) ==
    /\ ThHasSession /\ ThS.live /\ ThS.todo # {} /\ t = ThFirstOf(ThS.todo)
    /\ LET rev == ThAllocateRevision(ThS.server, ThS.floor[t]) IN
       /\ thNext' = [thNext EXCEPT ![ThS.server] = rev]
       /\ thWire' = Append(thWire, ThProbe(t, rev))
       /\ thSent' = thSent + 1
       /\ ThSchedule([ThS EXCEPT !.floor[t] = rev, !.todo = @ \ {t},
                                 !.out = @ \cup {ThProbe(t, rev)}])

\* the queue stays full or is closed: the probe is cancelled, the scheduler
\* ends and the session goes on without new probes
ThQueueUnavailable ==
    /\ ThHasSession /\ ThS.live /\ ThS.todo # {}
    /\ ThFault
    /\ LET rev == ThAllocateRevision(ThS.server, ThS.floor[ThFirstOf(ThS.todo)])
       IN thNext' = [thNext EXCEPT ![ThS.server] = rev]
    /\ thSess' = <<[ThS EXCEPT !.live = FALSE, !.todo = {}]>>
    /\ UNCHANGED <<thTerm, thLeads, thWire, thReplies, thClient, thLate, thRow,
                   thSeen, thSent>>

\* the leadership watch reports another term
ThSchedulerEnds ==
    /\ ThHasSession /\ ThS.live /\ ThS.todo = {}
    /\ thLeads[ThS.server] # ThS.term
    /\ ThSchedule([ThS EXCEPT !.live = FALSE])
    /\ UNCHANGED <<thNext, thWire, thSent>>

\* timeout_millis and TARGET_PROBE_RESULT_GRACE pass
ThDeadline(p) ==
    /\ ThHasSession /\ p \in ThS.out \ ThS.late
    /\ ThFault
    /\ thSess' = <<[ThS EXCEPT !.late = @ \cup {p}]>>
    /\ UNCHANGED <<thTerm, thLeads, thNext, thWire, thReplies, thClient,
                   thLate, thRow, thSeen, thSent>>

-----------------------------------------------------------------------------
(* the client's session *)

\* handle_probe: an old revision, or no permit, ends the session
ThHandleProbe ==
    /\ ThHasSession /\ thWire # <<>>
    /\ LET p == Head(thWire) IN
       IF p.rev > thClient.latest[p.t] /\ Cardinality(thClient.running) < ThPermits
       THEN /\ thWire' = Tail(thWire)
            /\ thClient' = [thClient EXCEPT !.latest[p.t] = p.rev,
                                            !.running = @ \cup {p}]
            /\ UNCHANGED <<thSess, thReplies>>
       ELSE ThS.rec = ThNoProbe /\ ThEndSession
    /\ UNCHANGED <<thTerm, thLeads, thNext, thLate, thRow, thSeen,
                   thSent, thFaults>>

ThRecordHealthIfCurrent(p, ok) ==
    IF thClient.latest[p.t] = p.rev
    THEN [thClient EXCEPT !.health[p.t] = IF ok THEN "up" ELSE "down",
                          !.by[p.t] = p.rev]
    ELSE thClient

\* execute_probe ends or times out; the result goes through the writer task
ThProbeDone(p, ok) ==
    /\ ThHasSession /\ p \in thClient.running
    /\ thClient' = [ThRecordHealthIfCurrent(p, ok) EXCEPT !.running = @ \ {p}]
    /\ thReplies' = Append(thReplies, [p |-> p, ok |-> ok])
    /\ UNCHANGED <<thTerm, thLeads, thNext, thSess, thWire, thLate,
                   thRow, thSeen, thSent, thFaults>>

\* LOCAL_HEALTH_TTL passes
ThLocalHealthLapses(t) ==
    /\ thClient.health[t] = "up" /\ ThFault
    /\ thClient' = [thClient EXCEPT !.health[t] = "lapsed"]
    /\ UNCHANGED <<thTerm, thLeads, thNext, thSess, thWire, thReplies,
                   thLate, thRow, thSeen, thSent>>

-----------------------------------------------------------------------------
(* record_result *)

\* take_result and the check of the local term; every failure ends the
\* control session
ThTakeResult ==
    /\ ThHasSession /\ thReplies # <<>> /\ ThS.rec = ThNoProbe
    /\ LET r == Head(thReplies) IN
       IF /\ r.p \in ThS.out \ ThS.late
          /\ thLeads[ThS.server] = ThS.term
       THEN /\ thReplies' = Tail(thReplies)
            /\ thSess' = <<[ThS EXCEPT !.out = @ \ {r.p}, !.rec = r.p, !.ok = r.ok]>>
            /\ UNCHANGED <<thWire, thClient>>
       ELSE ThEndSession
    /\ UNCHANGED <<thTerm, thLeads, thNext, thLate, thRow, thSeen,
                   thSent, thFaults>>

\* apply_staleness
ThEffective(row) == row.eff /\ row.fresh

\* mutant: one failure more than failure_threshold is forgiven
ThForgives(row, fail) == ThEffective(row) /\ fail <= ThFailure
ThStaysHealthy(row, fail) == ThEffective(row) /\ fail < ThFailure

\* calculate_update
ThCalculateUpdate(row, rev, ok) ==
    LET succ == IF row.rev = 0 THEN 1 ELSE Min({row.succ + 1, ThSuccess})
        fail == IF row.rev = 0 THEN 1 ELSE Min({row.fail + 1, ThFailure})
    IN [rev |-> rev, fresh |-> TRUE,
        succ |-> IF ok THEN succ ELSE 0,
        fail |-> IF ok THEN 0 ELSE fail,
        eff |-> IF ok THEN ThEffective(row) \/ succ >= ThSuccess
                      ELSE ThStaysHealthy(row, fail)]

ThWrite(p, ok) ==
    IF p.rev > thRow[p.t].rev
    THEN /\ thRow' = [thRow EXCEPT ![p.t] = ThCalculateUpdate(@, p.rev, ok)]
         /\ thSeen' = [thSeen EXCEPT ![p.t] = SubSeq(Append(@, ok),
                          1 + Max({0, Len(@) + 1 - Max({ThSuccess, ThFailure})}), Len(@) + 1)]
    ELSE UNCHANGED <<thRow, thSeen>>

\* observe in one fenced transaction; a fence failure ends the session
ThObserve ==
    /\ ThHasSession /\ ThS.rec # ThNoProbe
    /\ IF ThS.term = thTerm
       THEN /\ ThWrite(ThS.rec, ThS.ok)
            /\ thSess' = <<[ThS EXCEPT !.rec = ThNoProbe, !.ok = FALSE]>>
            /\ UNCHANGED <<thWire, thReplies, thClient>>
       ELSE ThEndSession /\ UNCHANGED <<thRow, thSeen>>
    /\ UNCHANGED <<thTerm, thLeads, thNext, thLate, thSent, thFaults>>

\* TARGET_PROBE_RECORD_TIMEOUT: the session ends, the commit may be under way
ThObserveTimeout ==
    /\ ThHasSession /\ ThS.rec # ThNoProbe /\ ThFault
    /\ thLate' = thLate \cup {[p |-> ThS.rec, ok |-> ThS.ok, term |-> ThS.term]}
    /\ ThEndSession
    /\ UNCHANGED <<thTerm, thLeads, thNext, thRow, thSeen, thSent>>

ThLateCommit(l) ==
    /\ l \in thLate /\ thLate' = thLate \ {l}
    /\ IF l.term = thTerm THEN ThWrite(l.p, l.ok) ELSE UNCHANGED <<thRow, thSeen>>
    /\ ThSameSession
    /\ UNCHANGED <<thTerm, thLeads, thNext, thSent, thFaults>>

\* stale_after passes since the last probe of a target
ThStale(t) ==
    /\ thRow[t].fresh /\ ThFault
    /\ thRow' = [thRow EXCEPT ![t].fresh = FALSE]
    /\ ThSameSession
    /\ UNCHANGED <<thTerm, thLeads, thNext, thLate, thSeen, thSent>>

ThNext ==
    \/ \E s \in ThServers : ThTakeOver(s) \/ ThDemoted(s) \/ ThRegisterAny(s)
    \/ \E t \in ThTargets : \/ ThReadFloor(t) \/ ThSendProbe(t)
                            \/ ThLocalHealthLapses(t) \/ ThStale(t)
    \/ \E p \in thClient.running, ok \in BOOLEAN : ThProbeDone(p, ok)
    \/ ThHasSession /\ \E p \in ThS.out : ThDeadline(p)
    \/ ThTick \/ ThQueueUnavailable \/ ThSchedulerEnds \/ ThHandleProbe \/ ThTakeResult
    \/ ThObserve \/ ThObserveTimeout \/ ThLost
    \/ \E l \in thLate : ThLateCommit(l)

ThSpec == ThInit /\ [][ThNext]_thVars

-----------------------------------------------------------------------------
(* weighted selection among the healthy targets *)

\* target_is_healthy of the client, and the rows a server selects from
ThClientHealthy == {t \in ThTargets : thClient.health[t] = "up"}
ThServerHealthy == {t \in ThTargets : ThEffective(thRow[t])}

\* weight of the healthy targets before position i of the pool
ThWeightBefore(healthy, i) ==
    MapThenSumSet(LAMBDA j : ThPool[j].weight,
                  {j \in 1..(i - 1) : ThPool[j].addr \in healthy})
\* slots of the target at position i
ThSlots(healthy, i) ==
    LET before == ThWeightBefore(healthy, i)
    IN before..(before + ThPool[i].weight - 1)

\* the first healthy target whose slots hold sequence % total; "" for none
ThSelect(healthy, sequence) ==
    LET total == ThWeightBefore(healthy, Len(ThPool) + 1)
        hits == {i \in DOMAIN ThPool : /\ ThPool[i].addr \in healthy
                                       /\ sequence % total \in ThSlots(healthy, i)}
    IN IF total = 0 \/ hits = {} THEN "" ELSE ThPool[Min(hits)].addr

-----------------------------------------------------------------------------
\* The thresholds damp changes: a row that says healthy has not failed
\* failure_threshold times in a row, and one that says unhealthy has not
\* succeeded success_threshold times in a row, through staleness, restarts
\* of the agent and changes of leader.
ThLast(t, n, ok) ==
    /\ Len(thSeen[t]) >= n
    /\ \A i \in (Len(thSeen[t]) - n + 1)..Len(thSeen[t]) : thSeen[t][i] = ok
ThHysteresis ==
    \A t \in ThTargets :
       /\ thRow[t].eff => ~ThLast(t, ThFailure, FALSE)
       /\ ~thRow[t].eff => ~ThLast(t, ThSuccess, TRUE)

\* A new leader's probes count: the next revision it draws is above the
\* stored one, however far its clock is behind, also when a write that an
\* earlier session gave up commits after the floors were read.
ThNewProbesCount ==
    ThHasSession /\ ThS.live /\ ThS.term = thTerm =>
       \A t \in ThS.read : ThAllocateRevision(ThS.server, ThS.floor[t]) > thRow[t].rev

\* The client routes by its newest probe: when no probe of a target runs,
\* the table holds the outcome of the newest one, however they overtook
\* each other.
ThNewestShown ==
    \A t \in ThTargets :
       (\A p \in thClient.running : p.t # t) => thClient.by[t] = thClient.latest[t]

\* Weighted round robin is exact: over one period every healthy target is
\* picked as often as its weight says and no other target at all, at the
\* client and at a server.
ThRoundRobinExact ==
    \A healthy \in {ThClientHealthy, ThServerHealthy} :
       LET total == ThWeightBefore(healthy, Len(ThPool) + 1) IN
       \A t \in ThTargets :
          Cardinality({n \in 0..(total - 1) : ThSelect(healthy, n) = t})
             = IF t \in healthy THEN ThWeight(t) ELSE 0

\* What the health of a target promises, at the servers and at the client.
ThHealthSound == ThHysteresis /\ ThNewProbesCount /\ ThNewestShown /\ ThRoundRobinExact
=============================================================================
