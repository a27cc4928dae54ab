----------------------------- MODULE FleetHealth -----------------------------
(***************************************************************************)
(* The persisted health of one Fleet peer (fleet_health.rs, and the same   *)
(* statements in fleet_health_postgres.rs) while several monitors observe  *)
(* it: the round of a leader that just lost its term and the round of its  *)
(* successor overlap, so observations reach record_probe in any order.     *)
(* Peers do not share rows, so one peer stands for all.                    *)
(*                                                                         *)
(* Times are ages: how long ago the observation, the last accepted probe   *)
(* or the last change of state was.  Ages stop counting at MaxAge.         *)
(***************************************************************************)
EXTENDS HealthStates, Sequences

CONSTANTS
  Monitor,       \* probe rounds that can be in flight together
  Config,        \* health configurations an administrator sets
  DefaultConfig, \* DEFAULT_SUCCESS_THRESHOLD, ..FAILURE.., ..HEALTH_COOLDOWN..
  MaxAge         \* bound on ages

ASSUME HealthAssumption ==
  /\ CountMax \in Nat \ {0}
  /\ MaxAge \in Nat \ {0}
  /\ DefaultConfig \in Config
  /\ \A c \in Config : /\ c.success \in 1 .. CountMax
                       /\ c.failure \in 1 .. CountMax
                       /\ c.cooldown \in 0 .. MaxAge

VARIABLES
  config,    \* the row of fleet_peer_health_config
  health,    \* the row of fleet_peer_health_state
  lastProbe, \* age of last_probe_unix_seconds, or Never
  changed,   \* age of state_changed_unix_seconds
  flight,    \* flight[m]: the observation monitor m has made, or NoProbe
  recent,    \* history: accepted outcomes, newest accepted first
  newest     \* history: outcomes of the accepted probe observed last

vars == <<config, health, lastProbe, changed, flight, recent, newest>>

Never == MaxAge + 1

Health == [state : HealthState, successes : 0 .. CountMax, failures : 0 .. CountMax,
           cooldown : 0 .. MaxAge]

Observation == [success : BOOLEAN, age : 0 .. Never, recorded : BOOLEAN]

Newest == [age : 0 .. Never, outcomes : SUBSET BOOLEAN]

NoProbe == [success |-> FALSE, age |-> Never, recorded |-> FALSE]

Older(age) == IF age < MaxAge THEN age + 1 ELSE age

Lowered(n) == IF n > 0 THEN n - 1 ELSE 0

\* ensure_peer_rows
Init ==
  /\ config = DefaultConfig
  /\ health = [state |-> "unknown", successes |-> 0, failures |-> 0, cooldown |-> 0]
  /\ lastProbe = Never
  /\ changed = 0
  /\ flight = [m \in Monitor |-> NoProbe]
  /\ recent = << >>
  /\ newest = [age |-> Never, outcomes |-> {}]

Tick ==
  /\ \A m \in Monitor : flight[m] = NoProbe \/ flight[m].age < MaxAge
  /\ lastProbe' = IF lastProbe = Never THEN Never ELSE Older(lastProbe)
  /\ changed' = Older(changed)
  /\ health' = [health EXCEPT !.cooldown = Lowered(@)]
  /\ flight' = [m \in Monitor |->
                  IF flight[m] = NoProbe THEN NoProbe ELSE [flight[m] EXCEPT !.age = @ + 1]]
  /\ newest' = [newest EXCEPT !.age = IF @ = Never THEN Never ELSE Older(@)]
  /\ UNCHANGED <<config, recent>>

\* probe_fleet_peer: the peer answers as a healthy server, or it does not
Probe(m, success) ==
  /\ flight[m] = NoProbe
  /\ flight' = [flight EXCEPT ![m] = [success |-> success, age |-> 0, recorded |-> FALSE]]
  /\ UNCHANGED <<config, health, lastProbe, changed, recent, newest>>

\* the stop signal, a failed transaction, or simply the end of the round
Forget(m) ==
  /\ flight[m] # NoProbe
  /\ flight' = [flight EXCEPT ![m] = NoProbe]
  /\ UNCHANGED <<config, health, lastProbe, changed, recent, newest>>

Outcome(success) == IF success THEN "success" ELSE "failure"

Remember(success) ==
  <<Outcome(success)>> \o (IF Len(recent) < CountMax THEN recent ELSE SubSeq(recent, 1, CountMax - 1))

Latest(probe) ==
  IF probe.age < newest.age THEN [age |-> probe.age, outcomes |-> {probe.success}]
  ELSE IF probe.age = newest.age THEN [newest EXCEPT !.outcomes = @ \cup {probe.success}]
  ELSE newest

Accept(m) ==
  LET probe == flight[m]
      next == AfterProbe(health, probe.success, config, probe.age)
  IN  /\ health' = next
      /\ lastProbe' = probe.age
      /\ changed' = IF next.state = health.state THEN changed ELSE probe.age
      /\ recent' = Remember(probe.success)
      /\ newest' = Latest(probe)

\* Seeded fault: an observation older than the last one is applied too.
RecordAnyOrder(m) ==
  /\ flight[m] # NoProbe
  /\ flight' = [flight EXCEPT ![m].recorded = TRUE]
  /\ IF flight[m].recorded
       THEN UNCHANGED <<health, lastProbe, changed, recent, newest>>
       ELSE Accept(m)
  /\ UNCHANGED config

\* record_probe: an event id seen before and an observation older than the
\* last accepted one leave the health as it is.  (The monitor records each
\* event once; the repeated call is the one the handler and its tests provide
\* for.)
RecordProbe(m) ==
  /\ flight[m] # NoProbe
  /\ flight' = [flight EXCEPT ![m].recorded = TRUE]
  /\ IF flight[m].recorded \/ lastProbe < flight[m].age
       THEN UNCHANGED <<health, lastProbe, changed, recent, newest>>
       ELSE Accept(m)
  /\ UNCHANGED config

\* update_health_config: the cooldown is counted again from the last change
UpdateHealthConfig(c) ==
  /\ config' = c
  /\ health' = [health EXCEPT !.cooldown = Remaining(c.cooldown, changed)]
  /\ UNCHANGED <<lastProbe, changed, flight, recent, newest>>

Next ==
  \/ Tick
  \/ \E m \in Monitor : \/ \E success \in BOOLEAN : Probe(m, success)
                        \/ RecordProbe(m)
                        \/ Forget(m)
  \/ \E c \in Config : UpdateHealthConfig(c)

Spec == Init /\ [][Next]_vars

-----------------------------------------------------------------------------
\* Every row keeps the type its column has in the schema.
TypeOK ==
  /\ config \in Config
  /\ health \in Health
  /\ lastProbe \in 0 .. Never
  /\ changed \in 0 .. MaxAge
  /\ flight \in [Monitor -> Observation]
  /\ recent \in Seq({"success", "failure"}) /\ Len(recent) <= CountMax
  /\ newest \in Newest

\* The state agrees with the probe that was observed last, whatever the order
\* in which overlapping rounds recorded theirs: a peer is healthy or recovering
\* only if that probe succeeded, and unhealthy only if it failed
\* (stale_event_ignored in record_probe).
NewestProbeDecides ==
  /\ health.state \in {"healthy", "recovering"} => TRUE \in newest.outcomes
  /\ health.state = "unhealthy" => FALSE \in newest.outcomes

Streak(outcome, n) == Len(recent') >= n /\ \A i \in 1 .. n : recent'[i] = outcome

\* Hysteresis in both directions: a peer turns healthy only after
\* success_threshold distinct accepted successes in a row, and a peer that is
\* not in recovery turns unhealthy only after failure_threshold distinct
\* accepted failures in a row, so neither a repeated event nor a flapping peer
\* moves it (next_health_state).
NeedsStreak ==
  [][/\ health.state # "healthy" /\ health'.state = "healthy" => Streak("success", config.success)
     /\ health.state \notin {"unhealthy", "recovering"} /\ health'.state = "unhealthy"
          => Streak("failure", config.failure)]_vars

\* A peer is offered to DNS only when it has been healthy for the whole
\* cooldown now configured, counted from the observation that made it healthy,
\* also when the observation was recorded late or the cooldown was changed on
\* the way (dns_eligible, update_health_config).
EligibleAfterCooldown ==
  Stable(health) => changed >= config.cooldown
=============================================================================
