---------------------------- MODULE ServingProofs ----------------------------
(***************************************************************************)
(* Proofs about FleetHealth, for any number of monitors, any set of        *)
(* configurations and any bound on counters and ages, about AdminSessions, *)
(* for any users, processes, requests in progress and changes of           *)
(* leadership, about the race of a secret visitor's direct connections     *)
(* (P2pSessions), and about the registry that identifies clients           *)
(* (ClientRegistry).                                                       *)
(***************************************************************************)
EXTENDS FleetHealth, AdminSessions, P2pSessions, ClientRegistry, TLAPS

-----------------------------------------------------------------------------
(* The health of a peer *)

\* The counters never claim more than the accepted outcomes show.
CountersAreEarned ==
  /\ health.successes <= Len(recent) /\ \A i \in 1 .. health.successes : recent[i] = "success"
  /\ health.failures <= Len(recent) /\ \A i \in 1 .. health.failures : recent[i] = "failure"

\* Once probed, the cooldown is what is left of the configured one.
CooldownFollowsChange ==
  health.state # "unknown" =>
    health.cooldown = Remaining(config.cooldown, changed)

\* An observation in flight is no older than MaxAge.
FlightAges == \A m \in Monitor : flight[m] # NoProbe => flight[m].age <= MaxAge

IInv ==
  /\ TypeOK
  /\ CountersAreEarned
  /\ CooldownFollowsChange
  /\ FlightAges
  /\ newest.age = lastProbe
  /\ NewestProbeDecides

-----------------------------------------------------------------------------
\* What one observation does to the row, field by field (next_health_state and
\* the cooldown of record_probe).
LEMMA AfterProbeFacts ==
  ASSUME NEW h \in Health, NEW success \in BOOLEAN, NEW c \in Config, NEW age \in 0 .. MaxAge
  PROVE  LET next == AfterProbe(h, success, c, age) IN
         /\ next \in Health
         /\ next.successes = IF success THEN Inc(h.successes) ELSE 0
         /\ next.failures = IF success THEN 0 ELSE Inc(h.failures)
         /\ next.state # "unknown" \/ next.state = h.state
         /\ next.state = h.state => next.cooldown = h.cooldown
         /\ next.state # h.state =>
              next.cooldown = Remaining(c.cooldown, age)
         /\ next.state \in {"healthy", "recovering"} => success
         /\ next.state = "unhealthy" => ~success
         /\ next.state = "healthy" /\ h.state # "healthy" => Inc(h.successes) >= c.success
         /\ next.state = "unhealthy" /\ h.state \notin {"unhealthy", "recovering"}
              => Inc(h.failures) >= c.failure
<1>1. /\ c.success \in 1 .. CountMax /\ c.failure \in 1 .. CountMax
      /\ c.cooldown \in 0 .. MaxAge /\ CountMax \in Nat /\ MaxAge \in Nat
  BY HealthAssumption, Zenon
<1>2. \A n \in 0 .. CountMax : Inc(n) \in 0 .. CountMax
  BY <1>1 DEF Inc
<1>3. /\ h.state \in HealthState /\ h.successes \in 0 .. CountMax /\ h.failures \in 0 .. CountMax
      /\ h.cooldown \in 0 .. MaxAge
  BY Zenon DEF Health
<1>4. Remaining(c.cooldown, age) \in 0 .. MaxAge
  BY <1>1 DEF Remaining
<1> DEFINE raw == IF success THEN AfterSuccess(h, c) ELSE AfterFailure(h, c)
<1>5. /\ raw \in Health
      /\ raw.successes = IF success THEN Inc(h.successes) ELSE 0
      /\ raw.failures = IF success THEN 0 ELSE Inc(h.failures)
      /\ raw.state # "unknown" \/ raw.state = h.state
      /\ raw.cooldown = h.cooldown
      /\ raw.state \in {"healthy", "recovering"} => success
      /\ raw.state = "unhealthy" => ~success
      /\ raw.state = "healthy" /\ h.state # "healthy" => Inc(h.successes) >= c.success
      /\ raw.state = "unhealthy" /\ h.state \notin {"unhealthy", "recovering"}
           => Inc(h.failures) >= c.failure
  <2>1. CASE success = TRUE
    BY <1>1, <1>2, <1>3, <2>1 DEF AfterSuccess, Health, HealthState
  <2>2. CASE success = FALSE
    BY <1>1, <1>2, <1>3, <2>2 DEF AfterFailure, Health, HealthState
  <2> QED BY <2>1, <2>2, Zenon
<1>6. AfterProbe(h, success, c, age)
        = IF raw.state = h.state THEN raw
          ELSE [raw EXCEPT !.cooldown = Remaining(c.cooldown, age)]
  BY Zenon DEF AfterProbe
<1> HIDE DEF raw
<1>7. CASE raw.state = h.state
  BY <1>5, <1>6, <1>7, Zenon
<1>8. CASE raw.state # h.state
  BY <1>4, <1>5, <1>6, <1>8, Zenon DEF Health
<1> QED BY <1>7, <1>8, Zenon

\* The history gains the outcome in front and keeps its length bound.
LEMMA RememberFacts ==
  ASSUME recent \in Seq({"success", "failure"}), Len(recent) <= CountMax, NEW success \in BOOLEAN
  PROVE  /\ Remember(success) \in Seq({"success", "failure"})
         /\ Len(Remember(success)) = Inc(Len(recent))
         /\ Remember(success)[1] = Outcome(success)
         /\ \A i \in 2 .. Len(Remember(success)) : Remember(success)[i] = recent[i - 1]
<1>1. CountMax \in Nat \ {0}
  BY HealthAssumption, Zenon
<1> DEFINE first == Outcome(success)
           kept == IF Len(recent) < CountMax THEN recent ELSE SubSeq(recent, 1, CountMax - 1)
<1>2. first \in {"success", "failure"}
  BY Zenon DEF Outcome
<1>3. /\ kept \in Seq({"success", "failure"}) /\ Len(kept) + 1 = Inc(Len(recent))
      /\ \A i \in 1 .. Len(kept) : kept[i] = recent[i]
  BY <1>1 DEF Inc
<1>4. Remember(success) = <<first>> \o kept
  BY Zenon DEF Remember
<1> HIDE DEF first, kept
<1>5. /\ <<first>> \o kept \in Seq({"success", "failure"})
      /\ Len(<<first>> \o kept) = Len(kept) + 1
      /\ (<<first>> \o kept)[1] = first
      /\ \A i \in 2 .. Len(kept) + 1 : (<<first>> \o kept)[i] = kept[i - 1]
  BY <1>2, <1>3
<1>6. first = Outcome(success)
  BY Zenon DEF first
<1>7. Len(Remember(success)) = Len(kept) + 1
  BY <1>4, <1>5, Zenon
<1>8. \A i \in 2 .. Len(kept) + 1 : kept[i - 1] = recent[i - 1]
  BY <1>3
<1> QED BY <1>3, <1>4, <1>5, <1>6, <1>7, <1>8, Zenon

\* Fields of an observation and what the actions do to them.
LEMMA ObservationFacts ==
  /\ NoProbe \in Observation
  /\ \A o \in Observation : /\ o.success \in BOOLEAN
                            /\ o.age \in 0 .. Never
                            /\ [o EXCEPT !.recorded = TRUE] \in Observation
                            /\ [o EXCEPT !.recorded = TRUE].age = o.age
                            /\ o.age < MaxAge => /\ [o EXCEPT !.age = @ + 1] \in Observation
                                                 /\ [o EXCEPT !.age = @ + 1].age <= MaxAge
  /\ \A s \in BOOLEAN : /\ [success |-> s, age |-> 0, recorded |-> FALSE] \in Observation
                        /\ [success |-> s, age |-> 0, recorded |-> FALSE].age <= MaxAge
<1>1. MaxAge \in Nat /\ Never = MaxAge + 1 /\ TRUE \in BOOLEAN /\ FALSE \in BOOLEAN
  BY HealthAssumption, Zenon DEF Never
<1>2. \A s \in BOOLEAN, a \in 0 .. Never, r \in BOOLEAN :
        [success |-> s, age |-> a, recorded |-> r] \in Observation
  BY Zenon DEF Observation
<1>3. ASSUME NEW o \in Observation
      PROVE  /\ o.success \in BOOLEAN /\ o.age \in 0 .. Never /\ o.recorded \in BOOLEAN
             /\ o = [success |-> o.success, age |-> o.age, recorded |-> o.recorded]
  BY <1>3, Zenon DEF Observation
<1>4. ASSUME NEW o \in Observation, NEW n \in 0 .. Never
      PROVE  /\ [o EXCEPT !.recorded = TRUE] \in Observation
             /\ [o EXCEPT !.recorded = TRUE].age = o.age
             /\ [o EXCEPT !.age = n] \in Observation
             /\ [o EXCEPT !.age = n].age = n
  BY <1>1, <1>4, Zenon DEF Observation
<1>5. \A n \in 0 .. Never : n < MaxAge => n + 1 \in 0 .. Never /\ n + 1 <= MaxAge
  BY <1>1
<1>6. 0 \in 0 .. Never /\ 0 <= MaxAge /\ Never \in 0 .. Never
  BY <1>1
<1>7. NoProbe \in Observation
  BY <1>1, <1>2, <1>6, Zenon DEF NoProbe
<1>8. ASSUME NEW o \in Observation, o.age < MaxAge
      PROVE  /\ [o EXCEPT !.age = @ + 1] \in Observation
             /\ [o EXCEPT !.age = @ + 1].age <= MaxAge
  <2>1. o.age \in 0 .. Never
    BY <1>3, Zenon
  <2>2. o.age + 1 \in 0 .. Never /\ o.age + 1 <= MaxAge
    BY <1>5, <1>8, <2>1, Zenon
  <2> QED BY <1>4, <2>2, Zenon
<1> QED BY <1>1, <1>2, <1>3, <1>4, <1>6, <1>7, <1>8, Zenon

\* Fields of the health row and what time and a new cooldown do to them.
LEMMA HealthFacts ==
  ASSUME NEW h \in Health
  PROVE  /\ h.state \in HealthState
         /\ h.successes \in 0 .. CountMax
         /\ h.failures \in 0 .. CountMax
         /\ h.cooldown \in 0 .. MaxAge
         /\ \A n \in 0 .. MaxAge : /\ [h EXCEPT !.cooldown = n] \in Health
                                   /\ [h EXCEPT !.cooldown = n].cooldown = n
                                   /\ [h EXCEPT !.cooldown = n].state = h.state
                                   /\ [h EXCEPT !.cooldown = n].successes = h.successes
                                   /\ [h EXCEPT !.cooldown = n].failures = h.failures
BY Zenon DEF Health

\* The probe observed last, after time passes and after another probe.
LEMMA NewestFacts ==
  ASSUME NEW n \in Newest
  PROVE  /\ n.age \in 0 .. Never /\ n.outcomes \subseteq BOOLEAN
         /\ \A a \in 0 .. Never : /\ [n EXCEPT !.age = a] \in Newest
                                  /\ [n EXCEPT !.age = a].age = a
                                  /\ [n EXCEPT !.age = a].outcomes = n.outcomes
         /\ \A s \in BOOLEAN : /\ [n EXCEPT !.outcomes = @ \cup {s}] \in Newest
                               /\ [n EXCEPT !.outcomes = @ \cup {s}].age = n.age
                               /\ s \in [n EXCEPT !.outcomes = @ \cup {s}].outcomes
         /\ \A s \in BOOLEAN, a \in 0 .. Never : [age |-> a, outcomes |-> {s}] \in Newest
<1>1. n.age \in 0 .. Never /\ n.outcomes \in SUBSET BOOLEAN /\ n = [age |-> n.age, outcomes |-> n.outcomes]
  BY Zenon DEF Newest
<1>2. \A a \in 0 .. Never, x \in SUBSET BOOLEAN : [age |-> a, outcomes |-> x] \in Newest
  BY Zenon DEF Newest
<1>3. \A s \in BOOLEAN : {s} \in SUBSET BOOLEAN /\ n.outcomes \cup {s} \in SUBSET BOOLEAN
  BY <1>1, Zenon
<1>4. \A a : [n EXCEPT !.age = a] = [age |-> a, outcomes |-> n.outcomes]
  BY <1>1
<1>5. \A s : [n EXCEPT !.outcomes = @ \cup {s}] = [age |-> n.age, outcomes |-> n.outcomes \cup {s}]
  BY <1>1
<1> QED BY <1>1, <1>2, <1>3, <1>4, <1>5

\* Arithmetic of ages and cooldowns.
LEMMA AgeFacts ==
  /\ MaxAge \in Nat /\ Never \in Nat /\ MaxAge < Never
  /\ \A a \in 0 .. MaxAge : /\ Older(a) \in 0 .. MaxAge
                            /\ Lowered(a) \in 0 .. MaxAge
                            /\ \A c \in 0 .. MaxAge : /\ Remaining(c, a) \in 0 .. MaxAge
                                                      /\ Lowered(Remaining(c, a)) = Remaining(c, Older(a))
BY HealthAssumption DEF Never, Older, Lowered, Remaining

-----------------------------------------------------------------------------
\* The rows ensure_peer_rows inserts satisfy the invariant.
LEMMA InitIInv == Init => IInv
<1> SUFFICES ASSUME Init PROVE IInv
  OBVIOUS
<1>1. health \in Health /\ newest \in Newest
  BY AgeFacts, HealthAssumption DEF Init, Health, HealthState, Newest
<1>2. TypeOK
  BY <1>1, AgeFacts, ObservationFacts, HealthAssumption DEF Init, TypeOK
<1> QED BY <1>2 DEF Init, IInv, CountersAreEarned, CooldownFollowsChange, FlightAges,
           NewestProbeDecides

\* An accepted observation keeps the invariant.
LEMMA AcceptIInv ==
  ASSUME IInv, NEW m \in Monitor, flight[m] # NoProbe, ~(lastProbe < flight[m].age), Accept(m),
         flight' = [flight EXCEPT ![m].recorded = TRUE], UNCHANGED config
  PROVE  IInv'
<1> DEFINE probe == flight[m]
           next == AfterProbe(health, probe.success, config, probe.age)
<1>1. probe \in Observation /\ config \in Config /\ health \in Health /\ newest \in Newest
      /\ changed \in 0 .. MaxAge /\ lastProbe \in 0 .. Never /\ newest.age = lastProbe
  BY Zenon DEF IInv, TypeOK
<1>2. probe.success \in BOOLEAN /\ probe.age \in 0 .. MaxAge /\ probe.age <= newest.age
  <2>1. probe.success \in BOOLEAN /\ probe.age \in 0 .. Never /\ probe.age <= MaxAge
    BY <1>1, ObservationFacts, Zenon DEF IInv, FlightAges
  <2> QED BY <1>1, <2>1, AgeFacts
<1>3. /\ health' = next /\ lastProbe' = probe.age
      /\ changed' = (IF next.state = health.state THEN changed ELSE probe.age)
      /\ recent' = Remember(probe.success) /\ newest' = Latest(probe)
  BY Zenon DEF Accept
<1>4. newest' \in Newest /\ newest'.age = probe.age /\ probe.success \in newest'.outcomes
  <2>1. CASE probe.age < newest.age
    BY <1>1, <1>2, <1>3, <2>1, NewestFacts, AgeFacts DEF Latest
  <2>2. CASE probe.age = newest.age
    BY <1>1, <1>2, <1>3, <2>2, NewestFacts, AgeFacts, Zenon DEF Latest
  <2> QED BY <1>1, <1>2, <2>1, <2>2, AgeFacts
<1>5. /\ recent' \in Seq({"success", "failure"}) /\ Len(recent') = Inc(Len(recent)) /\ recent'[1] = Outcome(probe.success)
      /\ \A i \in 2 .. Len(recent') : recent'[i] = recent[i - 1]
  BY <1>2, <1>3, RememberFacts, Zenon DEF IInv, TypeOK
<1>6. Len(recent) \in 0 .. CountMax /\ Len(recent') \in 1 .. CountMax
  BY <1>5, HealthAssumption DEF IInv, TypeOK, Inc
<1>7. /\ next \in Health
      /\ next.successes = IF probe.success THEN Inc(health.successes) ELSE 0
      /\ next.failures = IF probe.success THEN 0 ELSE Inc(health.failures)
      /\ next.state # "unknown" \/ next.state = health.state
      /\ next.state = health.state => next.cooldown = health.cooldown
      /\ next.state # health.state =>
           next.cooldown = Remaining(config.cooldown, probe.age)
      /\ next.state \in {"healthy", "recovering"} => probe.success
      /\ next.state = "unhealthy" => ~probe.success
  BY <1>1, <1>2, AfterProbeFacts
<1>8. flight' \in [Monitor -> Observation] /\ FlightAges'
  BY <1>1, <1>2, ObservationFacts, AgeFacts, Zenon DEF IInv, TypeOK, FlightAges
<1> HIDE DEF next, probe
<1>9. TypeOK'
  BY <1>1, <1>2, <1>3, <1>4, <1>5, <1>6, <1>7, <1>8, AgeFacts, HealthAssumption DEF TypeOK
<1>10. CountersAreEarned'
  <2>1. health.successes \in 0 .. CountMax /\ health.failures \in 0 .. CountMax
    BY <1>1, HealthFacts, Zenon
  <2>2. CASE probe.success = TRUE
    <3>1. health'.failures = 0 /\ health'.successes = Inc(health.successes)
      BY <1>3, <1>7, <2>2, Zenon
    <3>2. health.successes <= Len(recent) /\ \A i \in 1 .. health.successes : recent[i] = "success"
      BY Zenon DEF IInv, CountersAreEarned
    <3>3. health'.successes <= Len(recent')
      BY <1>5, <1>6, <2>1, <3>1, <3>2, HealthAssumption DEF Inc
    <3>4. ASSUME NEW i \in 1 .. health'.successes PROVE recent'[i] = "success"
      <4>1. CASE i = 1
        BY <1>5, <2>2, <4>1, Zenon DEF Outcome
      <4>2. CASE i # 1
        <5>1. i \in 2 .. Len(recent') /\ i - 1 \in 1 .. health.successes
          BY <1>6, <2>1, <3>1, <3>3, <4>2 DEF Inc
        <5> QED BY <1>5, <3>2, <5>1, Zenon
      <4> QED BY <4>1, <4>2, Zenon
    <3> QED BY <1>6, <3>1, <3>3, <3>4 DEF CountersAreEarned
  <2>3. CASE probe.success = FALSE
    <3>1. health'.successes = 0 /\ health'.failures = Inc(health.failures)
      BY <1>3, <1>7, <2>3, Zenon
    <3>2. health.failures <= Len(recent) /\ \A i \in 1 .. health.failures : recent[i] = "failure"
      BY Zenon DEF IInv, CountersAreEarned
    <3>3. health'.failures <= Len(recent')
      BY <1>5, <1>6, <2>1, <3>1, <3>2, HealthAssumption DEF Inc
    <3>4. ASSUME NEW i \in 1 .. health'.failures PROVE recent'[i] = "failure"
      <4>1. CASE i = 1
        BY <1>5, <2>3, <4>1, Zenon DEF Outcome
      <4>2. CASE i # 1
        <5>1. i \in 2 .. Len(recent') /\ i - 1 \in 1 .. health.failures
          BY <1>6, <2>1, <3>1, <3>3, <4>2 DEF Inc
        <5> QED BY <1>5, <3>2, <5>1, Zenon
      <4> QED BY <4>1, <4>2, Zenon
    <3> QED BY <1>6, <3>1, <3>3, <3>4 DEF CountersAreEarned
  <2> QED BY <1>2, <2>2, <2>3, Zenon
<1>11. CooldownFollowsChange'
  BY <1>3, <1>7, Zenon DEF IInv, CooldownFollowsChange
<1>12. NewestProbeDecides'
  BY <1>2, <1>3, <1>4, <1>7, Zenon DEF NewestProbeDecides
<1> QED BY <1>3, <1>4, <1>8, <1>9, <1>10, <1>11, <1>12, Zenon DEF IInv

\* The passage of time keeps the invariant.
LEMMA TickIInv ==
  ASSUME IInv, Tick
  PROVE  IInv'
<1>1. health \in Health /\ newest \in Newest /\ changed \in 0 .. MaxAge /\ config \in Config
      /\ lastProbe \in 0 .. Never /\ newest.age = lastProbe /\ config.cooldown \in 0 .. MaxAge
  BY HealthAssumption, Zenon DEF IInv, TypeOK
<1>2. Lowered(health.cooldown) \in 0 .. MaxAge
  BY <1>1, HealthFacts, AgeFacts, Zenon
<1>3. /\ health' \in Health /\ health'.state = health.state
      /\ health'.successes = health.successes /\ health'.failures = health.failures
      /\ health'.cooldown = Lowered(health.cooldown)
  BY <1>1, <1>2, HealthFacts, Zenon DEF Tick
<1>4. lastProbe' \in 0 .. Never
  BY <1>1, AgeFacts DEF Tick, Never
<1>5. newest' \in Newest /\ newest'.age = lastProbe' /\ newest'.outcomes = newest.outcomes
  BY <1>1, <1>4, NewestFacts DEF Tick
<1>6. flight' \in [Monitor -> Observation] /\ FlightAges'
  BY ObservationFacts, AgeFacts, Zenon DEF IInv, TypeOK, FlightAges, Tick
<1>7. changed' \in 0 .. MaxAge /\ changed' = Older(changed) /\ UNCHANGED <<config, recent>>
  BY <1>1, AgeFacts, Zenon DEF Tick
<1>8. TypeOK' /\ CountersAreEarned'
  BY <1>3, <1>4, <1>5, <1>6, <1>7, Zenon DEF IInv, TypeOK, CountersAreEarned
<1>9. CooldownFollowsChange'
  BY <1>1, <1>3, <1>7, AgeFacts, Zenon DEF IInv, CooldownFollowsChange
<1>10. NewestProbeDecides'
  BY <1>3, <1>5, Zenon DEF IInv, NewestProbeDecides
<1> QED BY <1>5, <1>6, <1>8, <1>9, <1>10, Zenon DEF IInv

\* A step of a monitor that leaves the rows alone keeps the invariant.
LEMMA FlightIInv ==
  ASSUME IInv, NEW m \in Monitor, NEW o \in Observation, o # NoProbe => o.age <= MaxAge,
         flight' = [flight EXCEPT ![m] = o],
         UNCHANGED <<config, health, lastProbe, changed, recent, newest>>
  PROVE  IInv'
<1>1. flight' \in [Monitor -> Observation] /\ FlightAges'
  BY Zenon DEF IInv, TypeOK, FlightAges
<1>2. TypeOK'
  BY <1>1, Zenon DEF IInv, TypeOK
<1> QED BY <1>1, <1>2, Zenon DEF IInv, CountersAreEarned, CooldownFollowsChange, NewestProbeDecides

\* Every step keeps the invariant.
LEMMA NextIInv == IInv /\ [Next]_vars => IInv'
<1> SUFFICES ASSUME IInv, [Next]_vars PROVE IInv'
  OBVIOUS
<1>1. CASE Tick
  BY <1>1, TickIInv, Zenon
<1>2. ASSUME NEW m \in Monitor, NEW success \in BOOLEAN, Probe(m, success) PROVE IInv'
  BY <1>2, FlightIInv, ObservationFacts, Zenon DEF Probe
<1>3. ASSUME NEW m \in Monitor, RecordProbe(m) PROVE IInv'
  <2>1. CASE flight[m].recorded \/ lastProbe < flight[m].age
    <3> DEFINE o == [flight[m] EXCEPT !.recorded = TRUE]
    <3>1. UNCHANGED <<config, health, lastProbe, changed, recent, newest>>
          /\ flight[m] # NoProbe /\ flight' = [flight EXCEPT ![m] = o]
      BY <1>3, <2>1, Zenon DEF RecordProbe
    <3>2. o \in Observation /\ o.age <= MaxAge
      BY <3>1, ObservationFacts, Zenon DEF IInv, TypeOK, FlightAges
    <3> QED BY <3>1, <3>2, FlightIInv, Zenon
  <2>2. CASE ~(flight[m].recorded \/ lastProbe < flight[m].age)
    BY <1>3, <2>2, AcceptIInv, Zenon DEF RecordProbe
  <2> QED BY <2>1, <2>2, Zenon
<1>4. ASSUME NEW m \in Monitor, Forget(m) PROVE IInv'
  BY <1>4, FlightIInv, ObservationFacts, Zenon DEF Forget
<1>5. ASSUME NEW c \in Config, UpdateHealthConfig(c) PROVE IInv'
  <2>1. health \in Health /\ changed \in 0 .. MaxAge /\ c.cooldown \in 0 .. MaxAge
    BY HealthAssumption, Zenon DEF IInv, TypeOK
  <2>2. Remaining(c.cooldown, changed) \in 0 .. MaxAge
    BY <2>1, AgeFacts, Zenon
  <2>3. /\ health' \in Health /\ health'.state = health.state
        /\ health'.successes = health.successes /\ health'.failures = health.failures
        /\ health'.cooldown = Remaining(c.cooldown, changed)
        /\ config' = c /\ UNCHANGED <<lastProbe, changed, flight, recent, newest>>
    BY <1>5, <2>1, <2>2, HealthFacts, Zenon DEF UpdateHealthConfig
  <2>4. TypeOK'
    BY <2>3, Zenon DEF IInv, TypeOK
  <2> QED BY <2>3, <2>4, Zenon DEF IInv, CountersAreEarned, CooldownFollowsChange, FlightAges,
             NewestProbeDecides
<1>6. CASE UNCHANGED vars
  BY <1>6, Zenon DEF IInv, TypeOK, CountersAreEarned, CooldownFollowsChange, FlightAges,
     NewestProbeDecides, vars
<1> QED BY <1>1, <1>2, <1>3, <1>4, <1>5, <1>6, Zenon DEF Next

\* The inductive invariant of the health rows holds in every reachable state.
THEOREM Inductive == Spec => []IInv
BY InitIInv, NextIInv, PTL DEF Spec

\* record_probe never lets an older observation override a newer one.
THEOREM NewestWins == Spec => []NewestProbeDecides
<1>1. IInv => NewestProbeDecides
  BY Zenon DEF IInv
<1> QED BY <1>1, Inductive, PTL

\* A peer is offered to DNS only after the configured cooldown.
THEOREM CooldownRespected == Spec => []EligibleAfterCooldown
<1>1. IInv => EligibleAfterCooldown
  <2> SUFFICES ASSUME IInv, Stable(health) PROVE changed >= config.cooldown
    BY Zenon DEF EligibleAfterCooldown
  <2>1. changed \in 0 .. MaxAge /\ config.cooldown \in 0 .. MaxAge
    BY HealthAssumption, Zenon DEF IInv, TypeOK
  <2>2. Remaining(config.cooldown, changed) = 0
    BY Zenon DEF IInv, CooldownFollowsChange, Stable
  <2> QED BY <2>1, <2>2, AgeFacts DEF Remaining
<1> QED BY <1>1, Inductive, PTL

\* The state turns healthy or unhealthy only on a full streak of outcomes.
THEOREM Hysteresis == Spec => NeedsStreak
<1> DEFINE Turn == /\ health.state # "healthy" /\ health'.state = "healthy"
                        => Streak("success", config.success)
                   /\ health.state \notin {"unhealthy", "recovering"} /\ health'.state = "unhealthy"
                        => Streak("failure", config.failure)
<1>1. IInv /\ IInv' /\ [Next]_vars => [Turn]_vars
  <2> SUFFICES ASSUME IInv, IInv', Next PROVE Turn
    OBVIOUS
  <2>1. CASE health'.state = health.state
    BY <2>1, Zenon
  <2>2. CASE health'.state # health.state
    <3>1. PICK m \in Monitor : RecordProbe(m)
      <4>1. \A n : [health EXCEPT !.cooldown = n].state = health.state
        BY Zenon DEF IInv, TypeOK, Health
      <4>2. Tick \/ (\E c \in Config : UpdateHealthConfig(c)) => health'.state = health.state
        <5>1. Tick => health'.state = health.state
          BY <4>1, Zenon DEF Tick
        <5>2. ASSUME NEW c \in Config, UpdateHealthConfig(c) PROVE health'.state = health.state
          BY <4>1, <5>2, Zenon DEF UpdateHealthConfig
        <5> QED BY <5>1, <5>2, Zenon
      <4>3. (\E m \in Monitor : Forget(m) \/ \E s \in BOOLEAN : Probe(m, s)) => health' = health
        BY Zenon DEF Forget, Probe
      <4> QED BY <2>2, <4>2, <4>3, Zenon DEF Next
    <3> DEFINE probe == flight[m]
    <3>2. /\ flight[m] # NoProbe
          /\ health' = AfterProbe(health, probe.success, config, probe.age)
      BY <2>2, <3>1, Zenon DEF RecordProbe, Accept
    <3>3. /\ probe.success \in BOOLEAN /\ probe.age \in 0 .. MaxAge
          /\ config \in Config /\ health \in Health
      <4>1. probe \in Observation /\ probe.age <= MaxAge /\ config \in Config /\ health \in Health
        BY <3>2, Zenon DEF IInv, TypeOK, FlightAges
      <4>2. probe.success \in BOOLEAN /\ probe.age \in 0 .. Never
        BY <4>1, ObservationFacts, Zenon
      <4>3. probe.age \in 0 .. MaxAge
        BY <4>1, <4>2, AgeFacts
      <4> QED BY <4>1, <4>2, <4>3, Zenon
    <3>4. /\ health'.successes = IF probe.success THEN Inc(health.successes) ELSE 0
          /\ health'.failures = IF probe.success THEN 0 ELSE Inc(health.failures)
          /\ health'.state \in {"healthy", "recovering"} => probe.success
          /\ health'.state = "unhealthy" => ~probe.success
          /\ health'.state = "healthy" /\ health.state # "healthy"
               => Inc(health.successes) >= config.success
          /\ health'.state = "unhealthy" /\ health.state \notin {"unhealthy", "recovering"}
               => Inc(health.failures) >= config.failure
      BY <3>2, <3>3, AfterProbeFacts
    <3>5. /\ config.success \in 1 .. CountMax /\ config.failure \in 1 .. CountMax
          /\ health'.successes \in 0 .. CountMax /\ health'.failures \in 0 .. CountMax
      <4>1. health' \in Health
        BY Zenon DEF IInv, TypeOK
      <4> QED BY <3>3, <4>1, HealthFacts, HealthAssumption, Zenon
    <3> HIDE DEF probe
    <3> QED BY <3>4, <3>5, HealthAssumption DEF IInv, TypeOK, CountersAreEarned, Streak
  <2> QED BY <2>1, <2>2, Zenon
<1>2. (Spec => [][Turn]_vars) => (Spec => NeedsStreak)
  BY Zenon DEF NeedsStreak
<1> QED BY <1>1, <1>2, Inductive, PTL DEF Spec

-----------------------------------------------------------------------------
(* Administrators and sessions *)

AuRowRecs == [there : BOOLEAN, role : AuRoles, on : BOOLEAN, pw : Nat,
              must : BOOLEAN, secret : Nat, totp : BOOLEAN]
AuSessRecs == [id : Nat, user : AuUsers, pw : Nat, role : AuRoles]
AuOps == AuUserOps \cup AuTokenOps \cup AuTotpOps \cup AuPublicOps
AuSeen == AuUsers \cup AuRoles
          \cup {"", "delete", "user", "enable", "disable", "nothing"}
AuReqRecs ==
    [pc : {"idle", "admitted", "ready", "write"}, p : AuProcs,
     op : AuOps \cup {"none"}, user : AuUsers \cup AuTokens \cup {""},
     role : AuRoles \cup {""}, on : BOOLEAN, num : Nat, code : Nat, sid : Nat,
     tok : AuTokens \cup {""}, actor : AuUsers \cup {"", "api-token"},
     seen : AuSeen, since : Nat]

AuTables ==
    /\ auRows \in [AuUsers -> AuRowRecs]
    /\ auSess \subseteq AuSessRecs
    /\ auNext \in Nat

AuTypeOK ==
    /\ AuTables
    /\ auPg \in BOOLEAN /\ auOverlap \in BOOLEAN /\ auMoves \in Nat
    /\ auBoot \in [AuProcs -> {"new", "empty", "open", "failed"}]
    /\ auLeader \in AuProcs
    /\ auReq \in [AuHandlers -> AuReqRecs]
    /\ auLock \in [AuProcs -> AuHandlers \cup {AuFree}]

\* what a request in progress carries
AuCarries(r) ==
    /\ r.op # "none"
    /\ r.op \in {"login", "create", "update", "delete"} => r.user \in AuUsers
    /\ r.op \in {"create", "update"} => r.role \in AuRoles
AuAsked ==
    \A h \in AuHandlers : auReq[h].pc # "idle" =>
        AuCarries(auReq[h]) /\ auBoot[auReq[h].p] = "open"

\* a handler between its read and its write holds its process's mutex
AuHolds ==
    \A h \in AuHandlers : auReq[h].pc = "write" =>
        /\ auPg /\ auLock[auReq[h].p] = h
        /\ auReq[h].since <= auMoves /\ auReq[h].op \notin AuTokenOps
        /\ auReq[h].op = "login" => auReq[h].seen \in AuRoles

AuLowers(r) == ~r.on \/ r.role # "administrator"
AuOther(u) == u \in AuAdministrators => \E v \in AuAdministrators : v # u

\* what the read of an operation found
AuFound(r) ==
    /\ r.op = "login" =>
          /\ auRows[r.user].there /\ auRows[r.user].on
          /\ auRows[r.user].pw = r.num /\ auRows[r.user].role = r.seen
    /\ r.op = "update" =>
          /\ auRows[r.user].there /\ auRows[r.user].role = r.seen
          /\ AuLowers(r) => AuOther(r.user)
    /\ r.op = "delete" => auRows[r.user].there /\ AuOther(r.user)

\* a handler whose process has led ever since it read still knows the truth
AuStillTrue ==
    \A h \in AuHandlers :
        /\ auReq[h].pc = "write" /\ auReq[h].p = auLeader
        /\ auReq[h].since = auMoves
        => AuFound(auReq[h])

AuCurrent ==
    \A s \in auSess :
        /\ auRows[s.user].there /\ auRows[s.user].on
        /\ s.pw = auRows[s.user].pw /\ s.role = auRows[s.user].role

\* nobody works before the first administrator is stored
AuStarted ==
    \/ AuAdministrators # {}
    \/ AuEmpty /\ \A p \in AuProcs : auBoot[p] # "open"

AuIInv ==
    /\ AuTypeOK /\ AuAsked /\ AuHolds
    /\ ~auOverlap => AuStillTrue /\ AuCurrent /\ AuStarted

\* Another administrator remains when a user is not the last.
LEMMA AuMoreThanOne ==
    ASSUME NEW u, ~AuLast(u)
    PROVE  AuOther(u)
BY Zenon DEF AuOther, AuLast

\* The tables after one row is replaced, for any row that is stored.
LEMMA AuRowSet ==
    ASSUME AuTables, NEW u, NEW row, u \in AuUsers => row \in AuRowRecs,
           AuSetRow(u, row)
    PROVE  /\ auRows' \in [AuUsers -> AuRowRecs]
           /\ \A v \in AuUsers : v # u => auRows'[v] = auRows[v]
           /\ u \in AuUsers => auRows'[u] = row
BY Zenon DEF AuTables, AuSetRow

\* Sessions stay current when some of them go and each of the others finds the
\* row of its user as it was.
LEMMA AuFewer ==
    ASSUME AuTables, AuCurrent, auSess' \subseteq auSess,
           \A s \in auSess' : LET a == auRows[s.user]  b == auRows'[s.user]
                              IN  /\ b.there = a.there /\ b.on = a.on
                                  /\ b.pw = a.pw /\ b.role = a.role
    PROVE  AuCurrent'
BY Zenon DEF AuCurrent

\* Who is an administrator depends on three fields of a row.
LEMMA AuSameAdministrators ==
    ASSUME \A u \in AuUsers : /\ auRows'[u].there = auRows[u].there
                              /\ auRows'[u].on = auRows[u].on
                              /\ auRows'[u].role = auRows[u].role
    PROVE  AuAdministrators' = AuAdministrators
BY Zenon DEF AuAdministrators

-----------------------------------------------------------------------------
\* The effects of the operations on the tables

\* what an effect keeps when what its operation read is still true
AuKept == AuCurrent /\ AuAdministrators # {}

\* the end of sessions harms nothing
LEMMA AuDrops ==
    ASSUME AuTables, auSess' \subseteq auSess, UNCHANGED <<auRows, auNext>>
    PROVE  AuTables' /\ (AuKept => AuKept')
<1>1. AuTables'
  BY Zenon DEF AuTables
<1>2. AuCurrent => AuCurrent'
  BY Zenon DEF AuCurrent
<1>3. AuAdministrators' = AuAdministrators
  BY Zenon DEF AuAdministrators
<1> QED BY <1>1, <1>2, <1>3, Zenon DEF AuKept

\* a new session is current if what its login read is still true
LEMMA AuInserts ==
    ASSUME AuTables, NEW r, NEW role \in AuRoles, r.user \in AuUsers, r.num \in Nat,
           AuInsertSession(r, role)
    PROVE  /\ AuTables'
           /\ (/\ AuKept /\ auRows[r.user].there /\ auRows[r.user].on
               /\ auRows[r.user].pw = r.num /\ auRows[r.user].role = role) => AuKept'
<1> DEFINE n == [id |-> auNext + 1, user |-> r.user, pw |-> r.num, role |-> role]
<1>1. /\ n \in AuSessRecs /\ n.user = r.user /\ n.pw = r.num /\ n.role = role
  BY DEF AuSessRecs, AuTables
<1>2. auSess' = auSess \cup {n} /\ auRows' = auRows /\ auNext' = auNext + 1
  BY Zenon DEF AuInsertSession
<1> HIDE DEF n
<1>3. AuTables'
  BY <1>1, <1>2 DEF AuTables
<1>4. AuAdministrators' = AuAdministrators
  BY <1>2, Zenon DEF AuAdministrators
<1>5. ASSUME AuKept, auRows[r.user].there, auRows[r.user].on,
             auRows[r.user].pw = r.num, auRows[r.user].role = role
      PROVE  AuCurrent'
  BY <1>1, <1>2, <1>5, Zenon DEF AuCurrent, AuKept
<1> QED BY <1>3, <1>4, <1>5, Zenon DEF AuKept

\* a change of role or state is sound if another administrator remains
LEMMA AuUpdates ==
    ASSUME AuTables, NEW r, NEW old, r.user \in AuUsers, r.role \in AuRoles,
           r.on \in BOOLEAN, AuWriteUpdate(r, old)
    PROVE  /\ AuTables'
           /\ (/\ AuKept /\ auRows[r.user].role = old
               /\ AuLowers(r) => AuOther(r.user)) => AuKept'
<1> DEFINE row == [auRows[r.user] EXCEPT !.role = r.role, !.on = r.on]
<1>0. auRows[r.user] \in AuRowRecs
  BY Zenon DEF AuTables
<1>1. /\ row \in AuRowRecs /\ row.there = auRows[r.user].there
      /\ row.on = r.on /\ row.role = r.role /\ row.pw = auRows[r.user].pw
  BY <1>0, Zenon DEF AuRowRecs
<1>2. CASE ~auRows[r.user].there
  <2>1. auRows' = auRows /\ auNext' = auNext /\ auSess' \subseteq auSess
    BY <1>2, Zenon DEF AuWriteUpdate, AuDropSessions
  <2> QED BY <2>1, AuDrops, Zenon
<1>3. CASE auRows[r.user].there
  <2>1. AuSetRow(r.user, row) /\ auNext' = auNext
    BY <1>3, Zenon DEF AuWriteUpdate
  <2>2. auSess' \subseteq auSess
    BY Zenon DEF AuWriteUpdate, AuDropSessions
  <2>3. (~r.on \/ r.role # old) => \A s \in auSess' : s.user # r.user
    BY Zenon DEF AuWriteUpdate, AuDropSessions
  <2> HIDE DEF row
  <2>4. /\ auRows' \in [AuUsers -> AuRowRecs]
        /\ \A v \in AuUsers : v # r.user => auRows'[v] = auRows[v]
        /\ auRows'[r.user] = row
    BY <1>1, <2>1, AuRowSet, Zenon
  <2>5. AuTables'
    BY <2>1, <2>2, <2>4, Zenon DEF AuTables
  <2>6. ASSUME AuKept, auRows[r.user].role = old, AuLowers(r) => AuOther(r.user)
        PROVE  AuKept'
    <3>1. ASSUME NEW s \in auSess'
          PROVE  /\ auRows'[s.user].there /\ auRows'[s.user].on
                 /\ s.pw = auRows'[s.user].pw /\ s.role = auRows'[s.user].role
      <4>1. /\ s \in auSess /\ s.user \in AuUsers
            /\ auRows[s.user].there /\ auRows[s.user].on
            /\ s.pw = auRows[s.user].pw /\ s.role = auRows[s.user].role
        BY <2>2, <2>6, <3>1, Zenon DEF AuKept, AuCurrent, AuTables, AuSessRecs
      <4>2. CASE s.user # r.user
        BY <2>4, <4>1, <4>2, Zenon
      <4>3. CASE s.user = r.user
        <5>1. r.on /\ r.role = old
          BY <2>3, <3>1, <4>3, Zenon
        <5> QED BY <1>1, <1>3, <2>4, <2>6, <4>1, <4>3, <5>1, Zenon
      <4> QED BY <4>2, <4>3, Zenon
    <3>2. AuAdministrators' # {}
      <4>1. CASE AuLowers(r)
        <5>1. PICK v \in AuAdministrators : v # r.user
          BY <2>6, <4>1, Zenon DEF AuOther, AuKept
        <5>2. v \in AuUsers /\ auRows'[v] = auRows[v]
          BY <2>4, <5>1, Zenon DEF AuAdministrators
        <5> QED BY <5>1, <5>2, Zenon DEF AuAdministrators
      <4>2. CASE ~AuLowers(r)
        <5>1. /\ auRows'[r.user].there /\ auRows'[r.user].on
              /\ auRows'[r.user].role = "administrator"
          BY <1>1, <1>3, <2>4, <4>2, Zenon DEF AuLowers
        <5> QED BY <5>1, Zenon DEF AuAdministrators
      <4> QED BY <4>1, <4>2, Zenon
    <3> QED BY <3>1, <3>2, Zenon DEF AuKept, AuCurrent
  <2> QED BY <2>5, <2>6, Zenon
<1> QED BY <1>2, <1>3, Zenon

\* so is a deletion
LEMMA AuDeletes ==
    ASSUME AuTables, NEW r, r.user \in AuUsers, AuWriteDelete(r)
    PROVE  /\ AuTables'
           /\ AuKept /\ AuOther(r.user) => AuKept'
<1>1. AuNoRow \in AuRowRecs
  BY Zenon DEF AuNoRow, AuRowRecs, AuRoles
<1>2. /\ AuSetRow(r.user, AuNoRow) /\ auNext' = auNext
      /\ auSess' \subseteq auSess /\ \A s \in auSess' : s.user # r.user
  BY Zenon DEF AuWriteDelete, AuDropSessions
<1>3. /\ auRows' \in [AuUsers -> AuRowRecs]
      /\ \A v \in AuUsers : v # r.user => auRows'[v] = auRows[v]
  BY <1>1, <1>2, AuRowSet, Zenon
<1>4. AuTables'
  BY <1>2, <1>3, Zenon DEF AuTables
<1>5. ASSUME AuKept, AuOther(r.user) PROVE AuKept'
  <2>1. ASSUME NEW s \in auSess'
        PROVE  auRows'[s.user] = auRows[s.user] /\ s \in auSess
    BY <1>2, <1>3, <2>1, Zenon DEF AuTables, AuSessRecs
  <2>2. AuCurrent'
    BY <1>5, <2>1, Zenon DEF AuKept, AuCurrent
  <2>3. PICK v \in AuAdministrators : v # r.user
    BY <1>5, Zenon DEF AuKept, AuOther
  <2>4. v \in AuUsers /\ auRows'[v] = auRows[v]
    BY <1>3, <2>3, Zenon DEF AuAdministrators
  <2> QED BY <2>2, <2>3, <2>4, Zenon DEF AuKept, AuAdministrators
<1> QED BY <1>4, <1>5, Zenon

\* a row replaced by one that differs in the password or the second factor
LEMMA AuSameUser ==
    ASSUME AuTables, NEW u, NEW row,
           u \in AuUsers => /\ row \in AuRowRecs /\ row.there = auRows[u].there
                            /\ row.on = auRows[u].on /\ row.role = auRows[u].role,
           AuSetRow(u, row)
    PROVE  /\ auRows' \in [AuUsers -> AuRowRecs]
           /\ AuAdministrators' = AuAdministrators
           /\ \A v \in AuUsers : v # u => auRows'[v] = auRows[v]
           /\ u \in AuUsers => auRows'[u] = row
<1>1. /\ auRows' \in [AuUsers -> AuRowRecs]
      /\ \A v \in AuUsers : v # u => auRows'[v] = auRows[v]
      /\ u \in AuUsers => auRows'[u] = row
  BY AuRowSet, Zenon
<1>2. \A v \in AuUsers : /\ auRows'[v].there = auRows[v].there
                         /\ auRows'[v].on = auRows[v].on
                         /\ auRows'[v].role = auRows[v].role
  BY <1>1, Zenon
<1> QED BY <1>1, <1>2, AuSameAdministrators, Zenon

\* a new password ends the sessions of the old one
LEMMA AuPasswords ==
    ASSUME AuTables, NEW u, NEW keep, AuNewPassword(u, keep)
    PROVE  AuTables' /\ (AuKept => AuKept')
<1>1. CASE ~auRows[u].there
  BY <1>1, AuDrops, Zenon DEF AuNewPassword, AuKeepTables
<1>2. CASE auRows[u].there
  <2> DEFINE row == [auRows[u] EXCEPT !.pw = auNext + 1, !.must = keep = 0]
  <2>1. u \in AuUsers => /\ row \in AuRowRecs /\ row.there = auRows[u].there
                         /\ row.on = auRows[u].on /\ row.role = auRows[u].role
                         /\ row.pw = auNext + 1
    <3>1. SUFFICES ASSUME u \in AuUsers
                   PROVE  /\ row \in AuRowRecs /\ row.there = auRows[u].there
                          /\ row.on = auRows[u].on /\ row.role = auRows[u].role
                          /\ row.pw = auNext + 1
      OBVIOUS
    <3>2. auRows[u] \in AuRowRecs /\ auNext + 1 \in Nat /\ (keep = 0) \in BOOLEAN
      BY <3>1 DEF AuTables
    <3> QED BY <3>2, Zenon DEF AuRowRecs
  <2> DEFINE Kept == {[s EXCEPT !.pw = auNext + 1] :
                      s \in {k \in auSess : k.user = u /\ k.id = keep}}
  <2>2. /\ AuSetRow(u, row) /\ auNext' = auNext + 1
        /\ auSess' = {s \in auSess : s.user # u} \cup Kept
    BY <1>2, Zenon DEF AuNewPassword
  <2>3. \A s \in Kept : /\ s \in AuSessRecs /\ s.user = u /\ s.pw = auNext + 1
                        /\ \E k \in auSess : k.user = u /\ s.role = k.role
    <3>1. ASSUME NEW s \in Kept
          PROVE  /\ s \in AuSessRecs /\ s.user = u /\ s.pw = auNext + 1
                 /\ \E k \in auSess : k.user = u /\ s.role = k.role
      <4>1. PICK k \in auSess : k.user = u /\ s = [k EXCEPT !.pw = auNext + 1]
        BY <3>1, Zenon
      <4>2. k \in AuSessRecs /\ auNext + 1 \in Nat
        BY DEF AuTables
      <4>3. s \in AuSessRecs /\ s.user = k.user /\ s.pw = auNext + 1 /\ s.role = k.role
        BY <4>1, <4>2, Zenon DEF AuSessRecs
      <4> QED BY <4>1, <4>3, Zenon
    <3> QED BY <3>1, Zenon
  <2> HIDE DEF row, Kept
  <2>4. /\ auRows' \in [AuUsers -> AuRowRecs]
        /\ AuAdministrators' = AuAdministrators
        /\ \A v \in AuUsers : v # u => auRows'[v] = auRows[v]
        /\ u \in AuUsers => auRows'[u] = row
    BY <2>1, <2>2, AuSameUser, Zenon
  <2>5. AuTables'
    BY <2>2, <2>3, <2>4 DEF AuTables
  <2>6. ASSUME AuKept, NEW s \in auSess'
        PROVE  /\ auRows'[s.user].there /\ auRows'[s.user].on
               /\ s.pw = auRows'[s.user].pw /\ s.role = auRows'[s.user].role
    <3>1. CASE s \in Kept
      <4>1. PICK k \in auSess : k.user = u /\ s.role = k.role
        BY <2>3, <3>1, Zenon
      <4>2. /\ k.user \in AuUsers /\ auRows[u].on
            /\ k.role = auRows[u].role
        BY <2>6, <4>1, Zenon DEF AuKept, AuCurrent, AuTables, AuSessRecs
      <4>3. u \in AuUsers /\ auRows'[u] = row /\ s.user = u /\ s.pw = auNext + 1
        BY <2>3, <2>4, <3>1, <4>1, <4>2, Zenon
      <4> QED BY <1>2, <2>1, <4>1, <4>2, <4>3, Zenon
    <3>2. CASE s \in auSess /\ s.user # u
      <4>1. s.user \in AuUsers
        BY <3>2, Zenon DEF AuTables, AuSessRecs
      <4>2. auRows'[s.user] = auRows[s.user]
        BY <2>4, <3>2, <4>1, Zenon
      <4> QED BY <2>6, <3>2, <4>2, Zenon DEF AuKept, AuCurrent
    <3> QED BY <2>2, <2>6, <3>1, <3>2, Zenon
  <2> QED BY <2>4, <2>5, <2>6, Zenon DEF AuKept, AuCurrent
<1> QED BY <1>1, <1>2, Zenon

\* a change of the second factor ends the sessions it must end
LEMMA AuTotps ==
    ASSUME AuTables, NEW u, NEW secret, NEW on \in BOOLEAN, NEW keep, auNext' \in Nat,
           u \in AuUsers => secret \in Nat, AuWriteTotp(u, secret, on, keep)
    PROVE  AuTables' /\ (AuKept => AuKept')
<1>0. auSess' \subseteq auSess
  BY Zenon DEF AuWriteTotp, AuDropSessions
<1>1. CASE ~auRows[u].there
  <2>1. auRows' = auRows
    BY <1>1, Zenon DEF AuWriteTotp
  <2>2. AuTables'
    BY <1>0, <2>1, Zenon DEF AuTables
  <2> QED BY <1>0, <2>1, <2>2, Zenon DEF AuKept, AuCurrent, AuAdministrators
<1>2. CASE auRows[u].there
  <2> DEFINE row == [auRows[u] EXCEPT !.secret = secret, !.totp = on]
  <2>1. u \in AuUsers => /\ row \in AuRowRecs /\ row.there = auRows[u].there
                         /\ row.on = auRows[u].on /\ row.role = auRows[u].role
                         /\ row.pw = auRows[u].pw
    <3>1. SUFFICES ASSUME u \in AuUsers
                   PROVE  /\ row \in AuRowRecs /\ row.there = auRows[u].there
                          /\ row.on = auRows[u].on /\ row.role = auRows[u].role
                          /\ row.pw = auRows[u].pw
      OBVIOUS
    <3>2. auRows[u] \in AuRowRecs /\ secret \in Nat
      BY <3>1, Zenon DEF AuTables
    <3> QED BY <3>2, Zenon DEF AuRowRecs
  <2>2. AuSetRow(u, row)
    BY <1>2, Zenon DEF AuWriteTotp
  <2> HIDE DEF row
  <2>3. /\ auRows' \in [AuUsers -> AuRowRecs]
        /\ AuAdministrators' = AuAdministrators
        /\ \A v \in AuUsers : v # u => auRows'[v] = auRows[v]
        /\ u \in AuUsers => auRows'[u] = row
    BY <2>1, <2>2, AuSameUser, Zenon
  <2>4. AuTables'
    BY <1>0, <2>3, Zenon DEF AuTables
  <2>5. \A s \in auSess' : LET a == auRows[s.user]  b == auRows'[s.user]
                           IN  /\ b.there = a.there /\ b.on = a.on
                               /\ b.pw = a.pw /\ b.role = a.role
    <3>1. \A s \in auSess' : s.user \in AuUsers
      BY <1>0, Zenon DEF AuTables, AuSessRecs
    <3> QED BY <2>1, <2>3, <3>1, Zenon
  <2> QED BY <1>0, <2>3, <2>4, <2>5, AuFewer, Zenon DEF AuKept
<1> QED BY <1>1, <1>2, Zenon

\* a user stored where there was none
LEMMA AuAdds ==
    ASSUME AuTables, NEW u \in AuUsers, NEW row \in AuRowRecs, ~auRows[u].there,
           AuSetRow(u, row), auSess' = auSess, auNext' \in Nat
    PROVE  /\ AuTables'
           /\ AuCurrent => AuCurrent'
           /\ AuAdministrators \subseteq AuAdministrators'
           /\ \A v \in AuUsers : auRows[v].there => auRows'[v] = auRows[v]
           /\ auRows'[u] = row
<1>1. /\ auRows' \in [AuUsers -> AuRowRecs]
      /\ \A v \in AuUsers : v # u => auRows'[v] = auRows[v]
      /\ auRows'[u] = row
  BY AuRowSet, Zenon
<1>2. AuTables'
  BY <1>1, Zenon DEF AuTables
<1>3. \A v \in AuUsers : auRows[v].there => auRows'[v] = auRows[v]
  BY <1>1, Zenon
<1>4. AuCurrent => AuCurrent'
  <2>1. \A s \in auSess : s.user \in AuUsers
    BY Zenon DEF AuTables, AuSessRecs
  <2> QED BY <1>3, <2>1, Zenon DEF AuCurrent
<1>5. AuAdministrators \subseteq AuAdministrators'
  BY <1>3, Zenon DEF AuAdministrators
<1> QED BY <1>1, <1>2, <1>3, <1>4, <1>5, Zenon

\* the bootstrap account is an enabled administrator
LEMMA AuFirstRows ==
    ASSUME NEW n \in Nat
    PROVE  /\ AuFirstRow(n) \in AuRowRecs /\ AuFirstRow(n).there /\ AuFirstRow(n).on
           /\ AuFirstRow(n).role = "administrator"
BY Zenon DEF AuFirstRow, AuRowRecs, AuRoles

\* a new account harms nothing
LEMMA AuCreates ==
    ASSUME AuTables, NEW r, r.user \in AuUsers, r.role \in AuRoles, AuWriteCreate(r)
    PROVE  AuTables' /\ (AuKept => AuKept')
<1>1. CASE auRows[r.user].there
  BY <1>1, AuDrops, Zenon DEF AuWriteCreate, AuKeepTables
<1>2. CASE ~auRows[r.user].there
  <2> DEFINE row == [AuFirstRow(auNext + 1) EXCEPT !.role = r.role]
  <2>1. auNext + 1 \in Nat /\ AuFirstRow(auNext + 1) \in AuRowRecs
    BY AuFirstRows DEF AuTables
  <2>2. row \in AuRowRecs
    BY <2>1, Zenon DEF AuRowRecs
  <2>3. AuSetRow(r.user, row) /\ auNext' = auNext + 1 /\ auSess' = auSess
    BY <1>2, Zenon DEF AuWriteCreate
  <2> HIDE DEF row
  <2>4. AuTables' /\ (AuCurrent => AuCurrent') /\ AuAdministrators \subseteq AuAdministrators'
    BY <1>2, <2>1, <2>2, <2>3, AuAdds, Zenon
  <2> QED BY <2>4, Zenon DEF AuKept
<1> QED BY <1>1, <1>2, Zenon

-----------------------------------------------------------------------------
\* the operations of SQLite, one by one
LEMMA AuSqliteKeeps ==
    ASSUME AuTables, NEW r \in AuReqRecs, AuCarries(r), r.op \notin AuTokenOps,
           AuSqliteStep(r)
    PROVE  AuTables' /\ (AuKept => AuKept')
<1>0. /\ r.num \in Nat /\ r.on \in BOOLEAN
      /\ r.op \in {"login", "logout", "change", "create", "update", "delete", "reset",
                   "revoke", "begin", "enable", "disable", "revoke_one"}
  BY Zenon DEF AuReqRecs, AuCarries, AuOps, AuUserOps, AuTokenOps, AuTotpOps, AuPublicOps
<1>a. ASSUME AuKeepTables PROVE AuTables' /\ (AuKept => AuKept')
  BY <1>a, AuDrops, Zenon DEF AuKeepTables
<1>1. CASE r.op = "login"
  <2>1. AuLogin(r) /\ r.user \in AuUsers
    BY <1>1, Zenon DEF AuSqliteStep, AuCarries
  <2>2. auRows[r.user].role \in AuRoles
    BY <2>1, Zenon DEF AuTables, AuRowRecs
  <2> QED BY <1>0, <1>a, <2>1, <2>2, AuInserts, Zenon DEF AuLogin, AuLoginAllowed
<1>2. CASE r.op = "logout"
  <2>1. AuLogout(r)
    BY <1>2, Zenon DEF AuSqliteStep
  <2> QED BY <2>1, AuDrops, Zenon DEF AuLogout, AuDropSessions
<1>3. CASE r.op = "change"
  <2>1. AuChangePassword(r)
    BY <1>3, Zenon DEF AuSqliteStep
  <2> QED BY <1>a, <2>1, AuPasswords, Zenon DEF AuChangePassword
<1>4. CASE r.op = "create"
  <2>1. AuWriteCreate(r) /\ r.user \in AuUsers /\ r.role \in AuRoles
    BY <1>4, Zenon DEF AuSqliteStep, AuCreateUser, AuCarries
  <2> QED BY <2>1, AuCreates, Zenon
<1>5. CASE r.op = "update"
  <2>1. AuUpdateUser(r) /\ r.user \in AuUsers /\ r.role \in AuRoles
    BY <1>5, Zenon DEF AuSqliteStep, AuCarries
  <2>2. CASE AuUpdateAllowed(r)
    <3>1. AuWriteUpdate(r, auRows[r.user].role)
      BY <2>1, <2>2, Zenon DEF AuUpdateUser
    <3>2. AuLowers(r) => AuOther(r.user)
      BY <2>2, AuMoreThanOne, Zenon DEF AuUpdateAllowed, AuLowers
    <3> QED BY <1>0, <2>1, <3>1, <3>2, AuUpdates, Zenon
  <2>3. CASE ~AuUpdateAllowed(r)
    BY <1>a, <2>1, <2>3, Zenon DEF AuUpdateUser
  <2> QED BY <2>2, <2>3, Zenon
<1>6. CASE r.op = "delete"
  <2>1. AuDeleteUser(r) /\ r.user \in AuUsers
    BY <1>6, Zenon DEF AuSqliteStep, AuCarries
  <2>2. AuDeleteAllowed(r) => AuOther(r.user)
    BY AuMoreThanOne, Zenon DEF AuDeleteAllowed
  <2> QED BY <1>a, <2>1, <2>2, AuDeletes, Zenon DEF AuDeleteUser
<1>7. CASE r.op = "reset"
  BY <1>7, AuPasswords, Zenon DEF AuSqliteStep, AuResetUserPassword
<1>8. CASE r.op = "revoke"
  <2>1. AuRevokeUserSessions(r)
    BY <1>8, Zenon DEF AuSqliteStep
  <2> QED BY <2>1, AuDrops, Zenon DEF AuRevokeUserSessions, AuDropSessions
<1>9. CASE r.op = "begin"
  <2>1. auNext' = auNext + 1 /\ AuWriteTotp(r.actor, auNext + 1, FALSE, 0)
    BY <1>9, Zenon DEF AuSqliteStep, AuBeginTotp
  <2>2. auNext + 1 \in Nat /\ FALSE \in BOOLEAN
    BY DEF AuTables
  <2> QED BY <2>1, <2>2, AuTotps, Zenon
<1>10. CASE r.op = "enable"
  <2>1. AuEnableTotp(r)
    BY <1>10, Zenon DEF AuSqliteStep
  <2>2. r.actor \in AuUsers => auRows[r.actor].secret \in Nat
    BY Zenon DEF AuTables, AuRowRecs
  <2> QED BY <1>a, <2>1, <2>2, AuTotps, Zenon DEF AuEnableTotp, AuTables
<1>11. CASE r.op = "disable"
  <2>1. AuDisableTotp(r)
    BY <1>11, Zenon DEF AuSqliteStep
  <2> QED BY <1>a, <2>1, AuTotps, Zenon DEF AuDisableTotp, AuTables
<1>12. CASE r.op = "revoke_one"
  <2>1. AuRevokeSession(r)
    BY <1>12, Zenon DEF AuSqliteStep
  <2> QED BY <2>1, AuDrops, Zenon DEF AuRevokeSession, AuDropSessions
<1> QED BY <1>0, <1>1, <1>2, <1>3, <1>4, <1>5, <1>6, <1>7, <1>8, <1>9, <1>10, <1>11, <1>12, Zenon

\* the writes of PostgreSQL, one by one
LEMMA AuPgKeeps ==
    ASSUME AuTables, NEW r \in AuReqRecs, AuCarries(r), r.op \notin AuTokenOps,
           r.op = "login" => r.seen \in AuRoles,
           AuPgWrites(r)
    PROVE  AuTables' /\ (AuKept /\ AuFound(r) => AuKept')
<1>0. /\ r.num \in Nat /\ r.on \in BOOLEAN
      /\ r.op \in {"login", "logout", "change", "create", "update", "delete", "reset",
                   "revoke", "begin", "enable", "disable", "revoke_one"}
  BY Zenon DEF AuReqRecs, AuCarries, AuOps, AuUserOps, AuTokenOps, AuTotpOps, AuPublicOps
<1>a. ASSUME AuKeepTables PROVE AuTables' /\ (AuKept => AuKept')
  BY <1>a, AuDrops, Zenon DEF AuKeepTables
<1>1. CASE r.op = "login"
  <2>1. AuPgLogin(r) /\ r.user \in AuUsers /\ r.seen \in AuRoles
    BY <1>1, Zenon DEF AuPgWrites, AuCarries
  <2>2. AuFound(r) => /\ auRows[r.user].there /\ auRows[r.user].on
                      /\ auRows[r.user].pw = r.num /\ auRows[r.user].role = r.seen
    BY <1>1, Zenon DEF AuFound
  <2> QED BY <1>0, <1>a, <2>1, <2>2, AuInserts, Zenon DEF AuPgLogin
<1>2. CASE r.op = "logout"
  <2>1. AuPgLogout(r)
    BY <1>2, Zenon DEF AuPgWrites
  <2> QED BY <2>1, AuDrops, Zenon DEF AuPgLogout, AuDropSessions
<1>3. CASE r.op = "change"
  BY <1>3, AuPasswords, Zenon DEF AuPgWrites, AuPgChangePassword
<1>4. CASE r.op = "create"
  <2>1. AuWriteCreate(r) /\ r.user \in AuUsers /\ r.role \in AuRoles
    BY <1>4, Zenon DEF AuPgWrites, AuPgCreateUser, AuCarries
  <2> QED BY <2>1, AuCreates, Zenon
<1>5. CASE r.op = "update"
  <2>1. AuWriteUpdate(r, r.seen) /\ r.user \in AuUsers /\ r.role \in AuRoles
    BY <1>5, Zenon DEF AuPgWrites, AuPgUpdateUser, AuCarries
  <2>2. AuFound(r) => /\ auRows[r.user].role = r.seen
                      /\ AuLowers(r) => AuOther(r.user)
    BY <1>5, Zenon DEF AuFound
  <2> QED BY <1>0, <2>1, <2>2, AuUpdates, Zenon
<1>6. CASE r.op = "delete"
  <2>1. AuWriteDelete(r) /\ r.user \in AuUsers
    BY <1>6, Zenon DEF AuPgWrites, AuPgDeleteUser, AuCarries
  <2>2. AuFound(r) => AuOther(r.user)
    BY <1>6, Zenon DEF AuFound
  <2> QED BY <2>1, <2>2, AuDeletes, Zenon
<1>7. CASE r.op = "reset"
  BY <1>7, AuPasswords, Zenon DEF AuPgWrites, AuPgResetUserPassword
<1>8. CASE r.op = "revoke"
  <2>1. AuPgRevokeUserSessions(r)
    BY <1>8, Zenon DEF AuPgWrites
  <2> QED BY <2>1, AuDrops, Zenon DEF AuPgRevokeUserSessions, AuDropSessions
<1>9. CASE r.op = "begin"
  <2>1. auNext' = auNext + 1 /\ AuWriteTotp(r.actor, auNext + 1, FALSE, 0)
    BY <1>9, Zenon DEF AuPgWrites, AuPgBeginTotp
  <2>2. auNext + 1 \in Nat /\ FALSE \in BOOLEAN
    BY DEF AuTables
  <2> QED BY <2>1, <2>2, AuTotps, Zenon
<1>10. CASE r.op = "enable"
  <2>1. AuPgEnableTotp(r)
    BY <1>10, Zenon DEF AuPgWrites
  <2>2. r.actor \in AuUsers => auRows[r.actor].secret \in Nat
    BY Zenon DEF AuTables, AuRowRecs
  <2> QED BY <2>1, <2>2, AuTotps, Zenon DEF AuPgEnableTotp, AuTables
<1>11. CASE r.op = "disable"
  <2>1. AuPgDisableTotp(r)
    BY <1>11, Zenon DEF AuPgWrites
  <2> QED BY <2>1, AuTotps, Zenon DEF AuPgDisableTotp, AuTables
<1>12. CASE r.op = "revoke_one"
  <2>1. AuPgRevokeSession(r)
    BY <1>12, Zenon DEF AuPgWrites
  <2> QED BY <2>1, AuDrops, Zenon DEF AuPgRevokeSession, AuDropSessions
<1> QED BY <1>0, <1>1, <1>2, <1>3, <1>4, <1>5, <1>6, <1>7, <1>8, <1>9, <1>10, <1>11, <1>12, Zenon

\* what a read hands to the write that follows it
LEMMA AuReadFinds ==
    ASSUME AuTables, NEW r \in AuReqRecs, AuCarries(r), AuPgReads(r) # ""
    PROVE  /\ AuPgReads(r) \in AuSeen
           /\ r.op = "login" =>
                 /\ AuPgReads(r) \in AuRoles
                 /\ auRows[r.user].there /\ auRows[r.user].on
                 /\ auRows[r.user].pw = r.num /\ auRows[r.user].role = AuPgReads(r)
           /\ r.op = "update" =>
                 /\ auRows[r.user].there /\ auRows[r.user].role = AuPgReads(r)
                 /\ AuLowers(r) => AuOther(r.user)
           /\ r.op = "delete" => auRows[r.user].there /\ AuOther(r.user)
<1>0. /\ r.op \in {"login", "update"} => auRows[r.user].role \in AuRoles
      /\ auSess \subseteq AuSessRecs
  BY Zenon DEF AuCarries, AuTables, AuRowRecs
<1>1. CASE r.op = "login"
  <2>1. AuPgReads(r) = AuPgLoginReads(r)
    BY <1>1, Zenon DEF AuPgReads
  <2>2. AuLoginAllowed(r) /\ AuPgReads(r) = auRows[r.user].role
    BY <2>1, Zenon DEF AuPgLoginReads
  <2> QED BY <1>0, <1>1, <2>2, Zenon DEF AuLoginAllowed, AuSeen
<1>2. CASE r.op = "update"
  <2>1. AuPgReads(r) = AuPgUpdateReads(r)
    BY <1>2, Zenon DEF AuPgReads
  <2>2. AuUpdateAllowed(r) /\ AuPgReads(r) = auRows[r.user].role
    BY <2>1, Zenon DEF AuPgUpdateReads
  <2>3. AuLowers(r) => AuOther(r.user)
    BY <2>2, AuMoreThanOne, Zenon DEF AuUpdateAllowed, AuLowers
  <2> QED BY <1>0, <1>2, <2>2, <2>3, Zenon DEF AuUpdateAllowed, AuSeen
<1>3. CASE r.op = "delete"
  <2>1. AuPgReads(r) = AuPgDeleteReads(r)
    BY <1>3, Zenon DEF AuPgReads
  <2>2. AuDeleteAllowed(r) /\ AuPgReads(r) = "delete"
    BY <2>1, Zenon DEF AuPgDeleteReads
  <2>3. AuOther(r.user)
    BY <2>2, AuMoreThanOne, Zenon DEF AuDeleteAllowed
  <2> QED BY <1>3, <2>2, <2>3, Zenon DEF AuSeen, AuDeleteAllowed
<1>4. CASE r.op \in {"change", "logout"}
  <2>1. AuPgReads(r) = AuPgSessionReads(r)
    BY <1>4, Zenon DEF AuPgReads
  <2>2. /\ AuSession(r.sid) # {} /\ AuSession(r.sid) \subseteq AuSessRecs
        /\ AuPgReads(r) = (CHOOSE s \in AuSession(r.sid) : TRUE).user
    BY <1>0, <2>1, Zenon DEF AuPgSessionReads, AuSession
  <2>3. AuPgReads(r) \in AuUsers
    BY <2>2, Zenon DEF AuSessRecs
  <2> QED BY <1>4, <2>3, Zenon DEF AuSeen
<1>5. CASE r.op \notin {"login", "update", "delete", "change", "logout"}
  <2>1. AuPgReads(r) \in {"user", "enable", "disable", "nothing"}
    <3>1. CASE r.op = "revoke"
      BY <3>1, Zenon DEF AuPgReads, AuPgUserReads
    <3>2. CASE r.op = "begin"
      BY <3>2, Zenon DEF AuPgReads, AuPgUserReads
    <3>3. CASE r.op = "enable"
      BY <3>3, Zenon DEF AuPgReads, AuPgEnableReads
    <3>4. CASE r.op = "disable"
      BY <3>4, Zenon DEF AuPgReads, AuPgDisableReads
    <3>5. CASE r.op \notin {"revoke", "begin", "enable", "disable"}
      BY <1>5, <3>5, Zenon DEF AuPgReads
    <3> QED BY <3>1, <3>2, <3>3, <3>4, <3>5, Zenon
  <2> QED BY <1>5, <2>1, Zenon DEF AuSeen
<1> QED BY <1>1, <1>2, <1>3, <1>4, <1>5, Zenon

\* a request carries what its operation needs
LEMMA AuIdleTyped == AuIdle \in AuReqRecs /\ AuIdle.pc = "idle"
BY AuAssumption, Zenon DEF AuIdle, AuReqRecs, AuSeen

\* what a request can find in the tables
LEMMA AuValuesTyped ==
    ASSUME AuTables
    PROVE  /\ \A s \in auSess : /\ s.id \in Nat /\ s.user \in AuUsers
                                /\ auRows[s.user].secret \in Nat
           /\ \A u \in AuUsers : auRows[u].pw \in Nat /\ auRows[u].secret \in Nat
           /\ AuPresent \subseteq AuUsers
BY Zenon DEF AuTables, AuSessRecs, AuRowRecs, AuPresent

\* a request made with a session carries what its operation needs
LEMMA AuSessionRequestsTyped ==
    ASSUME AuTables, NEW s \in auSess, NEW r \in AuSessionRequests(s)
    PROVE  r \in AuReqRecs /\ AuCarries(r)
<1> USE AuIdleTyped
<1> DEFINE
      Creates == {[AuIdle EXCEPT !.op = "create", !.user = u, !.role = "administrator",
                         !.on = TRUE, !.sid = s.id] : u \in AuUsers \ AuPresent}
      Revokes == {[AuIdle EXCEPT !.op = "revoke_one", !.num = k.id, !.sid = s.id] :
                     k \in auSess}
      Totps == {[AuIdle EXCEPT !.op = o, !.code = auRows[s.user].secret, !.sid = s.id] :
                     o \in AuTotpOps}
      Tokens == {[AuIdle EXCEPT !.op = "token", !.user = t, !.role = "administrator",
                         !.sid = s.id] : t \in AuTokens}
      Owns == {[AuIdle EXCEPT !.op = o, !.sid = s.id] : o \in {"logout", "change"}}
<1>a. \/ \E o \in {"delete", "reset", "revoke"} : r \in AuAboutUser(o, s)
      \/ \E c \in {"operator", "administrator"} : r \in AuUpdateTo(c, s)
      \/ r \in Creates \/ r \in Revokes \/ r \in Totps \/ r \in Tokens \/ r \in Owns
  BY Zenon DEF AuSessionRequests
<1>0. /\ s.id \in Nat /\ s.user \in AuUsers /\ auRows[s.user].secret \in Nat
      /\ \A u \in AuUsers : auRows[u].pw \in Nat /\ auRows[u].secret \in Nat
      /\ AuPresent \subseteq AuUsers
  BY AuValuesTyped, Zenon
<1>1. ASSUME NEW o \in {"delete", "reset", "revoke"}, r \in AuAboutUser(o, s)
      PROVE  r \in AuReqRecs /\ AuCarries(r)
  <2>0. PICK u \in AuPresent : r = [AuIdle EXCEPT !.op = o, !.user = u, !.sid = s.id]
    BY <1>1, Zenon DEF AuAboutUser
  <2>1. o \in AuOps /\ u \in AuUsers
    BY <1>0, Zenon DEF AuOps, AuUserOps
  <2>2. r \in AuReqRecs /\ r.op = o /\ r.user = u
    BY <1>0, <2>0, <2>1, Zenon DEF AuReqRecs
  <2> QED BY <2>1, <2>2, Zenon DEF AuCarries
<1>2. ASSUME NEW c \in {"operator", "administrator"}, r \in AuUpdateTo(c, s)
      PROVE  r \in AuReqRecs /\ AuCarries(r)
  <2>0. PICK u \in AuPresent :
            r = [AuIdle EXCEPT !.op = "update", !.user = u, !.role = c, !.sid = s.id,
                               !.on = (c = "operator" \/ ~auRows[u].on)]
    BY <1>2, Zenon DEF AuUpdateTo
  <2> DEFINE b == c = "operator" \/ ~auRows[u].on
  <2>1. "update" \in AuOps /\ c \in AuRoles /\ b \in BOOLEAN /\ u \in AuUsers
    BY <1>0, Zenon DEF AuOps, AuUserOps, AuRoles
  <2>2. r = [AuIdle EXCEPT !.op = "update", !.user = u, !.role = c, !.sid = s.id, !.on = b]
    BY <2>0, Zenon
  <2> HIDE DEF b
  <2>3. r \in AuReqRecs /\ r.op = "update" /\ r.user = u /\ r.role = c
    BY <1>0, <2>1, <2>2, Zenon DEF AuReqRecs
  <2> QED BY <2>1, <2>3, Zenon DEF AuCarries
<1>3. CASE r \in Creates
  <2>0. PICK u \in AuUsers \ AuPresent :
            r = [AuIdle EXCEPT !.op = "create", !.user = u, !.role = "administrator",
                               !.on = TRUE, !.sid = s.id]
    BY <1>3, Zenon
  <2>1. /\ "create" \in AuOps /\ "administrator" \in AuRoles /\ TRUE \in BOOLEAN
        /\ u \in AuUsers
    BY Zenon DEF AuOps, AuUserOps, AuRoles
  <2>2. r \in AuReqRecs /\ r.op = "create" /\ r.user = u /\ r.role = "administrator"
    BY <1>0, <2>0, <2>1, Zenon DEF AuReqRecs
  <2> QED BY <2>1, <2>2, Zenon DEF AuCarries
<1>4. CASE r \in Revokes
  <2>0. PICK k \in auSess :
            r = [AuIdle EXCEPT !.op = "revoke_one", !.num = k.id, !.sid = s.id]
    BY <1>4, Zenon
  <2>1. "revoke_one" \in AuOps /\ k.id \in Nat
    BY AuValuesTyped, Zenon DEF AuOps, AuUserOps
  <2>2. r \in AuReqRecs /\ r.op = "revoke_one"
    BY <1>0, <2>0, <2>1, Zenon DEF AuReqRecs
  <2> QED BY <2>2, Zenon DEF AuCarries
<1>5. CASE r \in Totps
  <2>0. PICK o \in AuTotpOps :
            r = [AuIdle EXCEPT !.op = o, !.code = auRows[s.user].secret, !.sid = s.id]
    BY <1>5, Zenon
  <2>1. o \in AuOps
    BY Zenon DEF AuOps
  <2>2. r \in AuReqRecs /\ r.op = o
    BY <1>0, <2>0, <2>1, Zenon DEF AuReqRecs
  <2> QED BY <2>2, Zenon DEF AuCarries, AuTotpOps
<1>6. CASE r \in Tokens
  <2>0. PICK t \in AuTokens :
            r = [AuIdle EXCEPT !.op = "token", !.user = t, !.role = "administrator",
                               !.sid = s.id]
    BY <1>6, Zenon
  <2>1. "token" \in AuOps /\ "administrator" \in AuRoles
    BY Zenon DEF AuOps, AuTokenOps, AuRoles
  <2>2. r \in AuReqRecs /\ r.op = "token"
    BY <1>0, <2>0, <2>1, Zenon DEF AuReqRecs
  <2> QED BY <2>2, Zenon DEF AuCarries
<1>7. CASE r \in Owns
  <2>0. PICK o \in {"logout", "change"} : r = [AuIdle EXCEPT !.op = o, !.sid = s.id]
    BY <1>7, Zenon
  <2>1. o \in AuOps
    BY Zenon DEF AuOps, AuPublicOps
  <2>2. r \in AuReqRecs /\ r.op = o
    BY <1>0, <2>0, <2>1, Zenon DEF AuReqRecs
  <2> QED BY <2>2, Zenon DEF AuCarries
<1> HIDE DEF Creates, Revokes, Totps, Tokens, Owns
<1> QED BY <1>a, <1>1, <1>2, <1>3, <1>4, <1>5, <1>6, <1>7, Zenon

\* so does every request
LEMMA AuRequestsTyped ==
    ASSUME AuTables, NEW r \in AuRequests
    PROVE  r \in AuReqRecs /\ AuCarries(r)
<1> USE AuIdleTyped
<1>0. \/ \E s \in auSess : r \in AuSessionRequests(s)
      \/ \E t \in AuTokens : r \in AuTokenRequests(t)
      \/ r \in AuLogins
  BY Zenon DEF AuRequests
<1>1. ASSUME NEW s \in auSess, r \in AuSessionRequests(s)
      PROVE  r \in AuReqRecs /\ AuCarries(r)
  BY <1>1, AuSessionRequestsTyped, Zenon
<1>2. ASSUME NEW t \in AuTokens, r \in AuTokenRequests(t)
      PROVE  r \in AuReqRecs /\ AuCarries(r)
  <2>1. CASE r = [AuIdle EXCEPT !.op = "untoken", !.user = t, !.tok = t]
    <3>1. "untoken" \in AuOps
      BY Zenon DEF AuOps, AuTokenOps
    <3>2. r \in AuReqRecs /\ r.op = "untoken"
      BY <2>1, <3>1, Zenon DEF AuReqRecs
    <3> QED BY <3>2, Zenon DEF AuCarries
  <2>2. ASSUME NEW u \in AuPresent,
               r = [AuIdle EXCEPT !.op = "delete", !.user = u, !.tok = t]
        PROVE  r \in AuReqRecs /\ AuCarries(r)
    <3>1. "delete" \in AuOps /\ u \in AuUsers
      BY AuValuesTyped, Zenon DEF AuOps, AuUserOps
    <3>2. r \in AuReqRecs /\ r.op = "delete" /\ r.user = u
      BY <2>2, <3>1, Zenon DEF AuReqRecs
    <3> QED BY <3>1, <3>2, Zenon DEF AuCarries
  <2> QED BY <1>2, <2>1, <2>2, Zenon DEF AuTokenRequests
<1>3. CASE r \in AuLogins
  <2>0. PICK u \in AuPresent :
            r = [AuIdle EXCEPT !.op = "login", !.user = u, !.num = auRows[u].pw,
                               !.code = auRows[u].secret]
    BY <1>3, Zenon DEF AuLogins
  <2>1. /\ "login" \in AuOps /\ u \in AuUsers
        /\ auRows[u].pw \in Nat /\ auRows[u].secret \in Nat
    BY AuValuesTyped, Zenon DEF AuOps, AuPublicOps
  <2>2. r \in AuReqRecs /\ r.op = "login" /\ r.user = u
    BY <2>0, <2>1, Zenon DEF AuReqRecs
  <2> QED BY <2>1, <2>2, Zenon DEF AuCarries
<1> QED BY <1>0, <1>1, <1>2, <1>3, Zenon

-----------------------------------------------------------------------------
\* The steps

\* a changed request leaves the others alone
LEMMA AuMoves ==
    ASSUME AuTypeOK, NEW h \in AuHandlers, NEW n \in AuReqRecs,
           auReq' = [auReq EXCEPT ![h] = n]
    PROVE  /\ auReq' \in [AuHandlers -> AuReqRecs]
           /\ auReq'[h] = n
           /\ \A k \in AuHandlers : k # h => auReq'[k] = auReq[k]
BY Zenon DEF AuTypeOK

\* what a read found does not change with the rest of the state
LEMMA AuFoundStays ==
    ASSUME NEW k, auReq'[k] = auReq[k], auRows' = auRows, AuFound(auReq[k])
    PROVE  AuFound(auReq[k])'
<1>1. PICK r : r = auReq[k] /\ r = auReq'[k]
  OBVIOUS
<1>2. AuAdministrators' = AuAdministrators
  BY Zenon DEF AuAdministrators
<1>3. r.op = "login" =>
          /\ auRows'[r.user].there /\ auRows'[r.user].on
          /\ auRows'[r.user].pw = r.num /\ auRows'[r.user].role = r.seen
  BY <1>1, Zenon DEF AuFound
<1>4. r.op = "update" => auRows'[r.user].there /\ auRows'[r.user].role = r.seen
  BY <1>1, Zenon DEF AuFound
<1>5. r.op = "update" /\ (~r.on \/ r.role # "administrator") /\ r.user \in AuAdministrators' =>
          \E v \in AuAdministrators' : v # r.user
  BY <1>1, <1>2, Zenon DEF AuFound, AuOther, AuLowers
<1>6. r.op = "delete" =>
          /\ auRows'[r.user].there
          /\ r.user \in AuAdministrators' => \E v \in AuAdministrators' : v # r.user
  BY <1>1, <1>2, Zenon DEF AuFound, AuOther
<1> QED BY ONLY <1>1, <1>3, <1>4, <1>5, <1>6, Zenon DEF AuFound, AuOther, AuLowers

\* a request moves to a state in which it holds nothing it has read
LEMMA AuQuiet ==
    ASSUME AuIInv, NEW h \in AuHandlers, NEW n \in AuReqRecs,
           auReq' = [auReq EXCEPT ![h] = n], n.pc # "write",
           n.pc # "idle" => AuCarries(n) /\ auBoot[n.p] = "open",
           UNCHANGED <<auPg, auBoot, auRows, auSess, auLeader, auLock, auNext, auOverlap,
                       auMoves>>
    PROVE  AuIInv'
<1>1. /\ auReq' \in [AuHandlers -> AuReqRecs]
      /\ auReq'[h] = n
      /\ \A k \in AuHandlers : k # h => auReq'[k] = auReq[k]
  BY AuMoves, Zenon DEF AuIInv
<1>2. AuTypeOK'
  BY <1>1, Zenon DEF AuIInv, AuTypeOK, AuTables
<1>3. AuAsked'
  <2> SUFFICES ASSUME NEW k \in AuHandlers, auReq'[k].pc # "idle"
               PROVE  AuCarries(auReq'[k]) /\ auBoot'[auReq'[k].p] = "open"
    BY Zenon DEF AuAsked, AuCarries
  <2>1. CASE k = h
    BY <1>1, <2>1, Zenon
  <2>2. CASE k # h
    BY <1>1, <2>2, Zenon DEF AuIInv, AuAsked
  <2> QED BY <2>1, <2>2, Zenon
<1>4. AuHolds'
  BY <1>1, Zenon DEF AuIInv, AuHolds
<1>5. AuCurrent => AuCurrent'
  BY Zenon DEF AuCurrent
<1>6. AuStarted => AuStarted'
  BY Zenon DEF AuStarted, AuAdministrators, AuEmpty
<1>7. AuAdministrators' = AuAdministrators
  BY Zenon DEF AuAdministrators
<1>8. AuStillTrue => AuStillTrue'
  <2> SUFFICES ASSUME AuStillTrue, NEW k \in AuHandlers, auReq'[k].pc = "write",
                      auReq'[k].p = auLeader, auReq'[k].since = auMoves
               PROVE  AuFound(auReq[k])'
    BY Zenon DEF AuStillTrue
  <2>1. auReq'[k] = auReq[k]
    BY <1>1, Zenon
  <2>2. AuFound(auReq[k])
    BY <2>1, Zenon DEF AuStillTrue
  <2> QED BY <1>7, <2>1, <2>2, AuFoundStays, Zenon
<1> QED BY <1>2, <1>3, <1>4, <1>5, <1>6, <1>8, Zenon DEF AuIInv

\* a request enters with what its operation needs
LEMMA AuAdmits ==
    ASSUME AuIInv, NEW h \in AuHandlers, NEW p \in AuProcs, AuAdmit(h, p)
    PROVE  AuIInv'
<1>1. PICK r \in AuRequests :
          auReq' = [auReq EXCEPT ![h] =
              [r EXCEPT !.p = p,
                        !.pc = IF r.op \in AuPublicOps THEN "ready" ELSE "admitted"]]
  BY Zenon DEF AuAdmit
<1> DEFINE c == IF r.op \in AuPublicOps THEN "ready" ELSE "admitted"
           n == [r EXCEPT !.p = p, !.pc = c]
<1>2. r \in AuReqRecs /\ AuCarries(r) /\ c \in {"ready", "admitted"}
  BY AuRequestsTyped, Zenon DEF AuIInv, AuTypeOK
<1>3. auReq' = [auReq EXCEPT ![h] = n]
  BY <1>1, Zenon
<1> HIDE DEF c
<1>4. /\ n \in AuReqRecs /\ n.pc = c /\ n.p = p /\ n.op = r.op /\ n.user = r.user
      /\ n.role = r.role
  BY <1>2, Zenon DEF AuReqRecs
<1> HIDE DEF n
<1>5. AuCarries(n)
  BY <1>2, <1>4, Zenon DEF AuCarries
<1>6. /\ auBoot[p] = "open"
      /\ UNCHANGED <<auPg, auBoot, auRows, auSess, auLeader, auLock, auNext, auOverlap,
                     auMoves>>
  BY Zenon DEF AuAdmit
<1> QED BY <1>2, <1>3, <1>4, <1>5, <1>6, AuQuiet, Zenon

\* the check of a session keeps the invariant
LEMMA AuRequires ==
    ASSUME AuIInv, NEW h \in AuHandlers, AuRequire(h)
    PROVE  AuIInv'
<1>1. PICK r \in AuReqRecs : r = auReq[h]
  BY Zenon DEF AuIInv, AuTypeOK
<1>2. r.pc = "admitted" /\ AuCarries(r) /\ auBoot[r.p] = "open"
  BY <1>1, Zenon DEF AuRequire, AuIInv, AuAsked
<1>3. UNCHANGED <<auPg, auBoot, auRows, auSess, auLeader, auLock, auNext, auOverlap,
                  auMoves>>
  BY Zenon DEF AuRequire
<1>4. CASE AuHandlerAllows(r)
  <2> DEFINE a == AuActor(r)
             n == [r EXCEPT !.pc = "ready", !.actor = a]
  <2>1. auReq' = [auReq EXCEPT ![h] = n]
    BY <1>1, <1>4, Zenon DEF AuRequire
  <2>2. a \in AuUsers \cup {"", "api-token"}
    <3>1. CASE r.tok # ""
      BY <3>1, Zenon DEF AuActor
    <3>2. CASE r.tok = ""
      <4>1. AuSessionRole(r.sid) # "none"
        BY <1>4, <3>2, Zenon DEF AuHandlerAllows, AuRole
      <4>2. PICK s \in AuSession(r.sid) : TRUE
        BY <4>1, Zenon DEF AuSessionRole
      <4>3. AuSession(r.sid) \subseteq AuSessRecs
        BY Zenon DEF AuSession, AuIInv, AuTypeOK, AuTables
      <4>4. (CHOOSE x \in AuSession(r.sid) : TRUE).user \in AuUsers
        BY <4>2, <4>3, Zenon DEF AuSessRecs
      <4> QED BY <3>2, <4>4, Zenon DEF AuActor
    <3> QED BY <3>1, <3>2, Zenon
  <2> HIDE DEF a
  <2>3. /\ n \in AuReqRecs /\ n.pc = "ready" /\ n.p = r.p /\ n.op = r.op
        /\ n.user = r.user /\ n.role = r.role
    BY <2>2, ZenonT(40) DEF AuReqRecs
  <2> HIDE DEF n
  <2>4. AuCarries(n)
    BY <1>2, <2>3 DEF AuCarries
  <2> QED BY <1>2, <1>3, <2>1, <2>3, <2>4, AuQuiet
<1>5. CASE ~AuHandlerAllows(r)
  <2>1. auReq' = [auReq EXCEPT ![h] = AuIdle]
    BY <1>1, <1>5, Zenon DEF AuRequire
  <2> QED BY <1>3, <2>1, AuIdleTyped, AuQuiet, Zenon
<1> QED BY <1>4, <1>5, Zenon

\* so do the steps of the API tokens
LEMMA AuTokensMove ==
    ASSUME AuIInv, NEW h \in AuHandlers, AuTokenStep(h)
    PROVE  AuIInv'
<1>1. /\ auReq' = [auReq EXCEPT ![h] = AuIdle]
      /\ UNCHANGED <<auPg, auBoot, auRows, auSess, auLeader, auLock, auNext, auOverlap,
                     auMoves>>
  BY Zenon DEF AuTokenStep, AuDone
<1> QED BY <1>1, AuIdleTyped, AuQuiet, Zenon

\* a handler that is at work finds an administrator
LEMMA AuWorks ==
    ASSUME AuIInv, NEW h \in AuHandlers, auReq[h].pc # "idle", ~auOverlap
    PROVE  AuKept
<1>1. auReq[h].p \in AuProcs /\ auBoot[auReq[h].p] = "open"
  BY Zenon DEF AuIInv, AuTypeOK, AuReqRecs, AuAsked
<1> QED BY <1>1, Zenon DEF AuIInv, AuStarted, AuKept

\* a request ends after it has changed the tables
LEMMA AuFinishes ==
    ASSUME AuIInv, NEW h \in AuHandlers, AuDone(h), AuTables',
           auLock' \in [AuProcs -> AuHandlers \cup {AuFree}],
           \A k \in AuHandlers : k # h /\ auReq[k].pc = "write" =>
               auLock'[auReq[k].p] = auLock[auReq[k].p],
           auOverlap' \in BOOLEAN,
           UNCHANGED <<auPg, auBoot, auLeader, auMoves>>
    PROVE  /\ AuTypeOK' /\ AuAsked' /\ AuHolds'
           /\ auReq'[h].pc = "idle"
           /\ \A k \in AuHandlers : k # h => auReq'[k] = auReq[k]
<1>1. /\ auReq' \in [AuHandlers -> AuReqRecs]
      /\ auReq'[h] = AuIdle
      /\ \A k \in AuHandlers : k # h => auReq'[k] = auReq[k]
  BY AuMoves, AuIdleTyped, Zenon DEF AuIInv, AuDone
<1>2. AuTypeOK'
  BY <1>1, Zenon DEF AuIInv, AuTypeOK
<1>3. AuAsked'
  <2> SUFFICES ASSUME NEW k \in AuHandlers, auReq'[k].pc # "idle"
               PROVE  AuCarries(auReq'[k]) /\ auBoot'[auReq'[k].p] = "open"
    BY Zenon DEF AuAsked, AuCarries
  <2>1. k # h /\ auReq'[k] = auReq[k]
    BY <1>1, AuIdleTyped, Zenon
  <2> QED BY <2>1, Zenon DEF AuIInv, AuAsked
<1>4. AuHolds'
  <2> SUFFICES ASSUME NEW k \in AuHandlers, auReq'[k].pc = "write"
               PROVE  /\ auPg' /\ auLock'[auReq'[k].p] = k
                      /\ auReq'[k].since <= auMoves' /\ auReq'[k].op \notin AuTokenOps
                      /\ auReq'[k].op = "login" => auReq'[k].seen \in AuRoles
    BY Zenon DEF AuHolds
  <2>1. k # h /\ auReq'[k] = auReq[k]
    BY <1>1, AuIdleTyped, Zenon
  <2> QED BY <2>1, Zenon DEF AuIInv, AuHolds
<1> QED BY <1>1, <1>2, <1>3, <1>4, AuIdleTyped, Zenon

\* an operation in SQLite reads and writes in one step
LEMMA AuSqlites ==
    ASSUME AuIInv, NEW h \in AuHandlers, AuSqlite(h)
    PROVE  AuIInv'
<1>1. PICK r \in AuReqRecs : r = auReq[h]
  BY Zenon DEF AuIInv, AuTypeOK
<1>2. /\ AuCarries(r) /\ r.op \notin AuTokenOps /\ r.pc = "ready" /\ AuSqliteStep(r)
      /\ ~auPg /\ AuDone(h)
      /\ UNCHANGED <<auPg, auBoot, auLeader, auLock, auOverlap, auMoves>>
  BY <1>1, Zenon DEF AuSqlite, AuIInv, AuAsked
<1>3. AuTables' /\ (AuKept => AuKept')
  BY <1>2, AuSqliteKeeps, Zenon DEF AuIInv, AuTypeOK
<1>4. \A k \in AuHandlers : auReq[k].pc # "write"
  BY <1>2, Zenon DEF AuIInv, AuHolds
<1>5. /\ AuTypeOK' /\ AuAsked' /\ AuHolds'
      /\ auReq'[h].pc = "idle"
      /\ \A k \in AuHandlers : k # h => auReq'[k] = auReq[k]
  BY <1>2, <1>3, <1>4, AuFinishes, Zenon DEF AuIInv, AuTypeOK
<1>6. AuStillTrue'
  BY <1>4, <1>5, Zenon DEF AuStillTrue
<1>7. ~auOverlap' => AuKept'
  BY <1>1, <1>2, <1>3, AuWorks, Zenon
<1> QED BY <1>5, <1>6, <1>7, Zenon DEF AuIInv, AuKept, AuStarted

\* a write in PostgreSQL finds what its request read, or is marked
LEMMA AuPgWritesStep ==
    ASSUME AuIInv, NEW h \in AuHandlers, AuPgWrite(h)
    PROVE  AuIInv'
<1>1. PICK r \in AuReqRecs : r = auReq[h]
  BY Zenon DEF AuIInv, AuTypeOK
<1>2. /\ AuCarries(r) /\ r.pc = "write" /\ AuPgWrites(r) /\ AuDone(h)
      /\ auLock' = AuReleased(h)
      /\ auOverlap' = (auOverlap \/ auLeader # r.p \/ auMoves # r.since)
      /\ UNCHANGED <<auPg, auBoot, auLeader, auMoves>>
  BY <1>1, Zenon DEF AuPgWrite, AuIInv, AuAsked
<1>3. /\ auLock[r.p] = h
      /\ r.op = "login" => r.seen \in AuRoles
      /\ r.op \notin AuTokenOps
  BY <1>1, <1>2, Zenon DEF AuIInv, AuHolds
<1>4. AuTables' /\ (AuKept /\ AuFound(r) => AuKept')
  BY <1>2, <1>3, AuPgKeeps, Zenon DEF AuIInv, AuTypeOK
<1>5. /\ auLock' \in [AuProcs -> AuHandlers \cup {AuFree}]
      /\ \A k \in AuHandlers : k # h /\ auReq[k].pc = "write" =>
               auLock'[auReq[k].p] = auLock[auReq[k].p]
  BY <1>2, Zenon DEF AuReleased, AuIInv, AuTypeOK, AuReqRecs, AuHolds
<1>6. /\ AuTypeOK' /\ AuAsked' /\ AuHolds'
      /\ auReq'[h].pc = "idle"
      /\ \A k \in AuHandlers : k # h => auReq'[k] = auReq[k]
  BY <1>2, <1>4, <1>5, AuFinishes, Zenon DEF AuIInv, AuTypeOK
<1>7. ASSUME ~auOverlap' PROVE AuStillTrue' /\ AuKept'
  <2>1. ~auOverlap /\ auLeader = r.p /\ auMoves = r.since
    BY <1>2, <1>7, Zenon
  <2>2. AuFound(auReq[h])
    BY <1>1, <1>2, <2>1, Zenon DEF AuIInv, AuStillTrue
  <2>3. AuKept'
    BY <1>1, <1>2, <1>4, <2>1, <2>2, AuWorks, Zenon
  <2>4. AuStillTrue'
    <3> SUFFICES ASSUME NEW k \in AuHandlers, auReq'[k].pc = "write",
                        auReq'[k].p = auLeader'
                 PROVE  FALSE
      BY Zenon DEF AuStillTrue
    <3>1. k # h /\ auReq'[k] = auReq[k]
      BY <1>6, Zenon
    <3>2. auLock[auReq[k].p] = k
      BY <3>1, Zenon DEF AuIInv, AuHolds
    <3> QED BY <1>2, <1>3, <2>1, <3>1, <3>2, Zenon
  <2> QED BY <2>3, <2>4, Zenon
<1> QED BY <1>6, <1>7, Zenon DEF AuIInv, AuKept, AuStarted

\* a read in PostgreSQL takes the mutex of its process
LEMMA AuPgReadsStep ==
    ASSUME AuIInv, NEW h \in AuHandlers, AuPgRead(h)
    PROVE  AuIInv'
<1>1. PICK r \in AuReqRecs : r = auReq[h]
  BY Zenon DEF AuIInv, AuTypeOK
<1>2. /\ AuCarries(r) /\ auBoot[r.p] = "open" /\ r.pc = "ready" /\ auPg
      /\ r.op \notin AuTokenOps /\ auLock[r.p] = AuFree
      /\ UNCHANGED <<auPg, auBoot, auRows, auSess, auLeader, auNext, auOverlap, auMoves>>
  BY <1>1, Zenon DEF AuPgRead, AuIInv, AuAsked, AuTakeLock
<1>3. CASE AuPgReads(r) = ""
  <2>1. auReq' = [auReq EXCEPT ![h] = AuIdle] /\ auLock' = auLock
    BY <1>1, <1>3, Zenon DEF AuPgRead, AuDone
  <2> QED BY <1>2, <2>1, AuIdleTyped, AuQuiet, Zenon
<1>4. CASE AuPgReads(r) # ""
  <2> DEFINE v == AuPgReads(r)
             n == [r EXCEPT !.pc = "write", !.seen = v, !.since = auMoves]
  <2>1. auReq' = [auReq EXCEPT ![h] = n] /\ auLock' = [auLock EXCEPT ![r.p] = h]
    BY <1>1, <1>4, Zenon DEF AuPgRead, AuTakeLock
  <2>2. /\ v \in AuSeen /\ auMoves \in Nat
        /\ r.op = "login" =>
              /\ v \in AuRoles
              /\ auRows[r.user].there /\ auRows[r.user].on
              /\ auRows[r.user].pw = r.num /\ auRows[r.user].role = v
        /\ r.op = "update" =>
              /\ auRows[r.user].there /\ auRows[r.user].role = v
              /\ AuLowers(r) => AuOther(r.user)
        /\ r.op = "delete" => auRows[r.user].there /\ AuOther(r.user)
    BY <1>2, <1>4, AuReadFinds, Zenon DEF AuIInv, AuTypeOK
  <2> HIDE DEF v
  <2>3. /\ n \in AuReqRecs /\ n.pc = "write" /\ n.p = r.p /\ n.op = r.op
        /\ n.user = r.user /\ n.role = r.role /\ n.on = r.on /\ n.num = r.num
        /\ n.seen = v /\ n.since = auMoves
    BY <2>2, ZenonT(40) DEF AuReqRecs
  <2> HIDE DEF n
  <2>4. /\ auReq' \in [AuHandlers -> AuReqRecs]
        /\ auReq'[h] = n
        /\ \A k \in AuHandlers : k # h => auReq'[k] = auReq[k]
    BY <2>1, <2>3, AuMoves, Zenon DEF AuIInv
  <2>5. r.p \in AuProcs /\ \A k \in AuHandlers : k # AuFree
    BY AuAssumption, Zenon DEF AuReqRecs, AuFree
  <2>6. /\ auLock' \in [AuProcs -> AuHandlers \cup {AuFree}]
        /\ auLock'[r.p] = h
        /\ \A q \in AuProcs : q # r.p => auLock'[q] = auLock[q]
    BY <2>1, <2>5, Zenon DEF AuIInv, AuTypeOK
  <2>7. AuTypeOK'
    BY <1>2, <2>4, <2>6, Zenon DEF AuIInv, AuTypeOK, AuTables
  <2>8. AuAsked'
    <3> SUFFICES ASSUME NEW k \in AuHandlers, auReq'[k].pc # "idle"
                 PROVE  AuCarries(auReq'[k]) /\ auBoot'[auReq'[k].p] = "open"
      BY Zenon DEF AuAsked, AuCarries
    <3>1. CASE k = h
      BY <1>2, <2>3, <2>4, <3>1, Zenon DEF AuCarries
    <3>2. CASE k # h
      BY <1>2, <2>4, <3>2, Zenon DEF AuIInv, AuAsked
    <3> QED BY <3>1, <3>2, Zenon
  <2>9. AuHolds'
    <3> SUFFICES ASSUME NEW k \in AuHandlers, auReq'[k].pc = "write"
                 PROVE  /\ auPg' /\ auLock'[auReq'[k].p] = k
                        /\ auReq'[k].since <= auMoves' /\ auReq'[k].op \notin AuTokenOps
                        /\ auReq'[k].op = "login" => auReq'[k].seen \in AuRoles
      BY Zenon DEF AuHolds
    <3>1. CASE k = h
      <4>1. auMoves <= auMoves
        BY <2>2
      <4>2. auReq'[k] = n /\ auMoves' = auMoves /\ auPg'
        BY <1>2, <2>4, <3>1, Zenon
      <4> QED BY <1>2, <2>2, <2>3, <2>6, <3>1, <4>1, <4>2, Zenon
    <3>2. CASE k # h
      <4>1. /\ auReq'[k] = auReq[k] /\ auReq[k].p \in AuProcs
            /\ auLock[auReq[k].p] = k /\ auReq[k].since <= auMoves
            /\ auReq[k].op \notin AuTokenOps
            /\ auReq[k].op = "login" => auReq[k].seen \in AuRoles
        BY <2>4, <3>2, Zenon DEF AuIInv, AuHolds, AuTypeOK, AuReqRecs
      <4>2. auReq[k].p # r.p
        BY <1>2, <2>5, <4>1, Zenon
      <4> QED BY <1>2, <2>6, <4>1, <4>2, Zenon
    <3> QED BY <3>1, <3>2, Zenon
  <2>10. AuAdministrators' = AuAdministrators
    BY <1>2, Zenon DEF AuAdministrators
  <2>11. AuStillTrue => AuStillTrue'
    <3> SUFFICES ASSUME AuStillTrue, NEW k \in AuHandlers, auReq'[k].pc = "write",
                        auReq'[k].p = auLeader, auReq'[k].since = auMoves
                 PROVE  AuFound(auReq[k])'
      BY <1>2, Zenon DEF AuStillTrue
    <3>1. CASE k = h
      BY <1>2, <2>2, <2>3, <2>4, <2>10, <3>1, Zenon DEF AuFound, AuOther, AuLowers
    <3>2. CASE k # h
      <4>1. auReq'[k] = auReq[k]
        BY <2>4, <3>2, Zenon
      <4>2. AuFound(auReq[k])
        BY <4>1, Zenon DEF AuStillTrue
      <4> QED BY <1>2, <2>10, <4>1, <4>2, Zenon DEF AuFound, AuOther, AuLowers
    <3> QED BY <3>1, <3>2, Zenon
  <2>12. (AuCurrent => AuCurrent') /\ (AuStarted => AuStarted')
    BY <1>2, <2>10, Zenon DEF AuCurrent, AuStarted, AuEmpty
  <2> QED BY <1>2, <2>7, <2>8, <2>9, <2>11, <2>12, Zenon DEF AuIInv
<1> QED BY <1>3, <1>4, Zenon

\* the startup of a process moves on; requests and leadership stay as they are
LEMMA AuBoots ==
    ASSUME AuIInv, NEW p \in AuProcs, NEW b \in {"empty", "open", "failed"},
           auBoot' = [auBoot EXCEPT ![p] = b], auBoot[p] # "open", AuTables',
           UNCHANGED <<auPg, auSess, auLeader, auReq, auLock, auOverlap, auMoves>>
    PROVE  /\ AuTypeOK' /\ AuAsked' /\ AuHolds'
           /\ \A q \in AuProcs : auBoot'[q] = "open" => q = p \/ auBoot[q] = "open"
           /\ auBoot'[p] = b
<1>1. /\ auBoot' \in [AuProcs -> {"new", "empty", "open", "failed"}]
      /\ auBoot'[p] = b
      /\ \A q \in AuProcs : q # p => auBoot'[q] = auBoot[q]
  BY Zenon DEF AuIInv, AuTypeOK
<1>2. AuTypeOK'
  BY <1>1, Zenon DEF AuIInv, AuTypeOK
<1>3. AuAsked'
  <2> SUFFICES ASSUME NEW k \in AuHandlers, auReq[k].pc # "idle"
               PROVE  AuCarries(auReq[k]) /\ auBoot'[auReq[k].p] = "open"
    BY Zenon DEF AuAsked, AuCarries
  <2>1. AuCarries(auReq[k]) /\ auBoot[auReq[k].p] = "open" /\ auReq[k].p \in AuProcs
    BY Zenon DEF AuIInv, AuAsked, AuTypeOK, AuReqRecs
  <2> QED BY <1>1, <2>1, Zenon
<1>4. AuHolds'
  BY Zenon DEF AuIInv, AuHolds
<1> QED BY <1>1, <1>2, <1>3, <1>4, Zenon

\* the first administrator is stored where there was no such user
LEMMA AuFirstStored ==
    ASSUME AuIInv, NEW p \in AuProcs, AuBootstrap(p), ~auRows[AuBootUser(p)].there,
           auBoot[p] # "open",
           UNCHANGED <<auPg, auSess, auLeader, auReq, auLock, auOverlap, auMoves>>
    PROVE  AuIInv'
<1> DEFINE u == AuBootUser(p)
           row == AuFirstRow(auNext + 1)
<1>1. u \in AuUsers
  BY AuAssumption, Zenon DEF AuBootUser
<1>2. auNext + 1 \in Nat
  BY DEF AuIInv, AuTypeOK, AuTables
<1>3. row \in AuRowRecs /\ row.there /\ row.on /\ row.role = "administrator"
  BY <1>2, AuFirstRows, Zenon
<1>4. AuSetRow(u, row) /\ auNext' \in Nat /\ auBoot' = [auBoot EXCEPT ![p] = "open"]
  BY <1>2, Zenon DEF AuBootstrap, AuSetRow
<1>5. ~auRows[u].there
  OBVIOUS
<1> HIDE DEF u, row
<1>6. /\ AuTables'
      /\ AuCurrent => AuCurrent'
      /\ AuAdministrators \subseteq AuAdministrators'
      /\ \A v \in AuUsers : auRows[v].there => auRows'[v] = auRows[v]
      /\ auRows'[u] = row
  BY <1>1, <1>3, <1>4, <1>5, AuAdds, Zenon DEF AuIInv, AuTypeOK
<1>7. AuTypeOK' /\ AuAsked' /\ AuHolds'
  BY <1>4, <1>6, AuBoots, Zenon
<1>8. u \in AuAdministrators'
  BY <1>1, <1>3, <1>6, Zenon DEF AuAdministrators
<1>9. AuStillTrue => AuStillTrue'
  <2> SUFFICES ASSUME AuStillTrue, NEW k \in AuHandlers, auReq[k].pc = "write",
                      auReq[k].p = auLeader, auReq[k].since = auMoves
               PROVE  AuFound(auReq[k])'
    BY Zenon DEF AuStillTrue
  <2>1. PICK r \in AuReqRecs : r = auReq[k]
    BY Zenon DEF AuIInv, AuTypeOK
  <2>2. AuFound(r) /\ AuCarries(r)
    BY <2>1, Zenon DEF AuStillTrue, AuIInv, AuAsked
  <2>3. ASSUME r.op \in {"login", "update", "delete"}
        PROVE  /\ r.user \in AuUsers
               /\ auRows'[r.user] = auRows[r.user]
               /\ AuOther(r.user) =>
                     (r.user \in AuAdministrators' =>
                         \E v \in AuAdministrators' : v # r.user)
    <3>1. r.user \in AuUsers /\ auRows[r.user].there
      BY <2>2, <2>3, Zenon DEF AuFound, AuCarries
    <3>2. auRows'[r.user] = auRows[r.user]
      BY <1>6, <3>1, Zenon
    <3>3. r.user \in AuAdministrators' => r.user \in AuAdministrators
      BY <3>1, <3>2, Zenon DEF AuAdministrators
    <3> QED BY <1>6, <3>1, <3>2, <3>3, Zenon DEF AuOther
  <2>4. r = auReq'[k]
    BY <2>1, Zenon
  <2> QED BY <2>2, <2>3, <2>4, Zenon DEF AuFound, AuOther, AuLowers
<1> QED BY <1>6, <1>7, <1>8, <1>9, Zenon DEF AuIInv, AuStarted

\* a startup that finds the table filled, finds it empty or gives up
LEMMA AuBootKeeps ==
    ASSUME AuIInv, NEW p \in AuProcs, NEW b \in {"empty", "open", "failed"},
           auBoot' = [auBoot EXCEPT ![p] = b], auBoot[p] # "open", b = "open" => ~AuEmpty,
           UNCHANGED <<auPg, auRows, auNext, auSess, auLeader, auReq, auLock, auOverlap,
                       auMoves>>
    PROVE  AuIInv'
<1>1. AuTables'
  BY Zenon DEF AuIInv, AuTypeOK, AuTables
<1>2. /\ AuTypeOK' /\ AuAsked' /\ AuHolds'
      /\ \A q \in AuProcs : auBoot'[q] = "open" => q = p \/ auBoot[q] = "open"
      /\ auBoot'[p] = b
  BY <1>1, AuBoots, Zenon
<1>3. AuAdministrators' = AuAdministrators /\ AuEmpty' = AuEmpty
  BY Zenon DEF AuAdministrators, AuEmpty
<1>4. AuStarted => AuStarted'
  BY <1>2, <1>3, Zenon DEF AuStarted
<1>5. AuCurrent => AuCurrent'
  BY Zenon DEF AuCurrent
<1>6. AuStillTrue => AuStillTrue'
  BY <1>3, Zenon DEF AuStillTrue, AuFound, AuOther, AuLowers
<1> QED BY <1>2, <1>4, <1>5, <1>6, Zenon DEF AuIInv

\* a starting process creates the administrator if there is none
LEMMA AuOpens ==
    ASSUME AuIInv, NEW p \in AuProcs, AuOpen(p) \/ AuPgOpenCount(p) \/ AuPgOpenInsert(p)
    PROVE  AuIInv'
<1>0. AuBootUser(p) \in AuUsers
  BY AuAssumption, Zenon DEF AuBootUser
<1>1. CASE AuOpen(p)
  <2>1. /\ auBoot[p] # "open"
        /\ UNCHANGED <<auPg, auSess, auLeader, auReq, auLock, auOverlap, auMoves>>
    BY <1>1, Zenon DEF AuOpen
  <2>2. CASE AuEmpty
    <3>1. AuBootstrap(p) /\ ~auRows[AuBootUser(p)].there
      BY <1>0, <1>1, <2>2, Zenon DEF AuOpen, AuEmpty
    <3> QED BY <2>1, <3>1, AuFirstStored, Zenon
  <2>3. CASE ~AuEmpty
    <3>1. auBoot' = [auBoot EXCEPT ![p] = "open"] /\ UNCHANGED <<auRows, auNext>>
      BY <1>1, <2>3, Zenon DEF AuOpen
    <3> QED BY <2>1, <2>3, <3>1, AuBootKeeps, Zenon
  <2> QED BY <2>2, <2>3, Zenon
<1>2. CASE AuPgOpenCount(p)
  <2> DEFINE b == IF AuEmpty THEN "empty" ELSE "open"
  <2>1. /\ auBoot[p] # "open" /\ auBoot' = [auBoot EXCEPT ![p] = b]
        /\ UNCHANGED <<auPg, auRows, auNext, auSess, auLeader, auReq, auLock, auOverlap,
                       auMoves>>
    BY <1>2, Zenon DEF AuPgOpenCount
  <2>2. b \in {"empty", "open", "failed"} /\ (b = "open" => ~AuEmpty)
    OBVIOUS
  <2> HIDE DEF b
  <2> QED BY <2>1, <2>2, AuBootKeeps, Zenon
<1>3. CASE AuPgOpenInsert(p)
  <2>1. /\ auBoot[p] # "open"
        /\ UNCHANGED <<auPg, auSess, auLeader, auReq, auLock, auOverlap, auMoves>>
    BY <1>3, Zenon DEF AuPgOpenInsert
  <2>2. CASE auRows[AuBootUser(p)].there
    <3>1. auBoot' = [auBoot EXCEPT ![p] = "failed"] /\ UNCHANGED <<auRows, auNext>>
      BY <1>3, <2>2, Zenon DEF AuPgOpenInsert
    <3> QED BY <2>1, <3>1, AuBootKeeps, Zenon
  <2>3. CASE ~auRows[AuBootUser(p)].there
    <3>1. AuBootstrap(p)
      BY <1>3, <2>3, Zenon DEF AuPgOpenInsert
    <3> QED BY <2>1, <2>3, <3>1, AuFirstStored, Zenon
  <2> QED BY <2>2, <2>3, Zenon
<1> QED BY <1>1, <1>2, <1>3, Zenon

\* expiry and changes of leadership keep the invariant
LEMMA AuAround ==
    ASSUME AuIInv, AuExpire \/ AuLeaderMoves
    PROVE  AuIInv'
<1>1. CASE AuExpire
  <2>1. /\ auSess' \subseteq auSess
        /\ UNCHANGED <<auPg, auBoot, auRows, auLeader, auReq, auLock, auNext, auOverlap,
                       auMoves>>
    BY <1>1, Zenon DEF AuExpire
  <2>2. AuTypeOK' /\ AuAsked' /\ AuHolds'
    BY <2>1, Zenon DEF AuIInv, AuTypeOK, AuTables, AuAsked, AuCarries, AuHolds
  <2>3. AuCurrent => AuCurrent'
    BY <2>1, Zenon DEF AuCurrent
  <2>4. AuAdministrators' = AuAdministrators /\ AuEmpty' = AuEmpty
    BY <2>1, Zenon DEF AuAdministrators, AuEmpty
  <2>5. (AuStarted => AuStarted') /\ (AuStillTrue => AuStillTrue')
    BY <2>1, <2>4, Zenon DEF AuStarted, AuStillTrue, AuFound, AuOther, AuLowers
  <2> QED BY <2>1, <2>2, <2>3, <2>5, Zenon DEF AuIInv
<1>2. CASE AuLeaderMoves
  <2>1. /\ auLeader' \in AuProcs /\ auMoves' = auMoves + 1 /\ auMoves \in Nat
        /\ UNCHANGED <<auPg, auBoot, auRows, auSess, auReq, auLock, auNext, auOverlap>>
    BY <1>2, Zenon DEF AuLeaderMoves, AuIInv, AuTypeOK
  <2>2. AuTypeOK'
    BY <2>1 DEF AuIInv, AuTypeOK, AuTables
  <2>3. AuAsked'
    BY <2>1, Zenon DEF AuIInv, AuAsked, AuCarries
  <2>4. \A k \in AuHandlers : auReq[k].since \in Nat
    BY Zenon DEF AuIInv, AuTypeOK, AuReqRecs
  <2>5. AuHolds'
    BY <2>1, <2>4, SMTT(20) DEF AuIInv, AuHolds
  <2>6. AuStillTrue'
    <3>1. \A k \in AuHandlers : auReq'[k].pc = "write" => auReq'[k].since # auMoves'
      BY <2>1, <2>4, SMTT(20) DEF AuIInv, AuHolds
    <3> QED BY <3>1, Zenon DEF AuStillTrue
  <2>7. (AuCurrent => AuCurrent') /\ (AuStarted => AuStarted')
    BY <2>1, Zenon DEF AuCurrent, AuStarted, AuAdministrators, AuEmpty
  <2> QED BY <2>1, <2>2, <2>3, <2>5, <2>6, <2>7, Zenon DEF AuIInv
<1> QED BY <1>1, <1>2, Zenon

\* the invariant holds before the first process starts
LEMMA AuStarts ==
    ASSUME AuInit
    PROVE  AuIInv
<1>1. AuNoRow \in AuRowRecs /\ ~AuNoRow.there
  BY Zenon DEF AuNoRow, AuRowRecs, AuRoles
<1>2. /\ auRows \in [AuUsers -> AuRowRecs]
      /\ \A u \in AuUsers : ~auRows[u].there
  BY <1>1, Zenon DEF AuInit
<1>3. /\ auReq \in [AuHandlers -> AuReqRecs]
      /\ \A h \in AuHandlers : auReq[h].pc = "idle"
  BY AuIdleTyped, Zenon DEF AuInit
<1>4. AuTypeOK
  BY <1>2, <1>3, AuAssumption, Zenon DEF AuInit, AuTypeOK, AuTables, AuFree
<1>5. AuAsked /\ AuHolds /\ AuStillTrue
  BY <1>3, Zenon DEF AuAsked, AuHolds, AuStillTrue
<1>6. \A p \in AuProcs : auBoot[p] # "open"
  BY Zenon DEF AuInit
<1>7. AuCurrent /\ AuStarted
  BY <1>2, <1>6, Zenon DEF AuInit, AuCurrent, AuStarted, AuEmpty
<1> QED BY <1>4, <1>5, <1>7, Zenon DEF AuIInv

\* every step keeps the invariant
LEMMA AuStep ==
    ASSUME AuIInv, [AuNext]_auVars
    PROVE  AuIInv'
<1>1. CASE UNCHANGED auVars
  <2>1. AuTypeOK' /\ AuAsked' /\ AuHolds'
    BY <1>1, Zenon DEF auVars, AuIInv, AuTypeOK, AuTables, AuAsked, AuCarries, AuHolds
  <2>2. AuAdministrators' = AuAdministrators /\ AuEmpty' = AuEmpty
    BY <1>1, Zenon DEF auVars, AuAdministrators, AuEmpty
  <2>3. /\ AuStarted => AuStarted'
        /\ AuStillTrue => AuStillTrue'
        /\ AuCurrent => AuCurrent'
    BY <1>1, <2>2, Zenon DEF auVars, AuStarted, AuStillTrue, AuFound, AuOther, AuLowers, AuCurrent
  <2> QED BY <1>1, <2>1, <2>3, Zenon DEF AuIInv, auVars
<1>2. CASE AuNext
  <2>1. CASE \E p \in AuProcs : AuOpen(p) \/ AuPgOpenCount(p) \/ AuPgOpenInsert(p)
    BY <2>1, AuOpens, Zenon
  <2>2. ASSUME NEW h \in AuHandlers,
               \/ \E p \in AuProcs : AuAdmit(h, p)
               \/ AuRequire(h) \/ AuSqlite(h) \/ AuPgRead(h) \/ AuPgWrite(h)
               \/ AuTokenStep(h)
        PROVE  AuIInv'
    BY <2>2, AuAdmits, AuRequires, AuSqlites, AuPgReadsStep, AuPgWritesStep, AuTokensMove, Zenon
  <2>3. CASE AuExpire \/ AuLeaderMoves
    BY <2>3, AuAround, Zenon
  <2> QED BY <1>2, <2>1, <2>2, <2>3, Zenon DEF AuNext
<1> QED BY <1>1, <1>2, Zenon

\* As long as no handler writes after its process has lost leadership since it
\* read, an enabled administrator remains once a store is open, and no session
\* survives what it was opened with: for every number of processes, requests
\* and changes of leadership, update_user, delete_user, the changes of a
\* password and the logins of admin_auth.rs and postgres_application.rs keep
\* both, the PostgreSQL ones because the admin_auth mutex is held from the
\* read to the write.
THEOREM AuthorityHolds == AuSpec => []AuAuthorityHolds
<1>1. AuInit => AuIInv
  BY AuStarts, Zenon
<1>2. AuIInv /\ [AuNext]_auVars => AuIInv'
  BY AuStep, Zenon
<1>3. AuIInv => AuAuthorityHolds
  <2> SUFFICES ASSUME AuIInv PROVE AuAuthorityHolds
    OBVIOUS
  <2>1. AuAdministratorRemains
    BY Zenon DEF AuIInv, AuStarted, AuAdministratorRemains
  <2>2. AuSessionsCurrent
    BY Zenon DEF AuIInv, AuCurrent, AuSessionsCurrent
  <2> QED BY <2>1, <2>2, Zenon DEF AuAuthorityHolds
<1> QED BY <1>1, <1>2, <1>3, PTL DEF AuSpec

-----------------------------------------------------------------------------
(* P2pSessions *)

\* A connection holds the ticket, or what the ticket bought, only when it is
\* the winner and the race is over.
PpTicketed(t) == ppConn[t] \in {"ticketed", "granted", "up"}
PpRacing == ppPc \in {"accepted", "request", "dial", "ticket"}
PpIInv ==
    /\ DOMAIN ppConn = PpTransports /\ ppConn = [t \in PpTransports |-> ppConn[t]]
    /\ \A t \in PpTransports : PpTicketed(t) => t = ppWinner /\ ~PpRacing


\* steps that move neither a connection nor the winner keep the invariant
LEMMA PpConnKept ==
    ASSUME PpIInv, UNCHANGED <<ppConn, ppWinner>>, PpRacing' => PpRacing
    PROVE  PpIInv'
BY Zenon DEF PpIInv, PpTicketed

\* A connection changes state and gains no ticket it did not have.
LEMMA PpConnSet ==
    ASSUME PpIInv, NEW t, NEW s, PpSetConn(t, s), UNCHANGED <<ppWinner>>,
           PpRacing' => PpRacing,
           s \in {"ticketed", "granted", "up"} => PpTicketed(t)
    PROVE  PpIInv'
<1>1. ppConn' = [u \in PpTransports |-> IF u = t THEN s ELSE ppConn[u]]
  BY Zenon DEF PpIInv, PpSetConn
<1> QED BY <1>1, Zenon DEF PpIInv, PpTicketed

\* every step of the race keeps the invariant
LEMMA PpStep ==
    ASSUME PpIInv, PpNext
    PROVE  PpIInv'
<1>1. CASE PpIrohBuilt \/ PpIrohRetry \/ PpRegister \/ PpStale \/ PpExpire
  <2>1. UNCHANGED <<ppConn, ppWinner, ppPc>>
    BY <1>1, Zenon DEF PpIrohBuilt, PpIrohRetry, PpRegister, PpStale, PpExpire
  <2> QED BY <2>1, PpConnKept, Zenon DEF PpRacing
<1>2. ASSUME NEW t \in PpTransports, PpDial(t) PROVE PpIInv'
  <2>1. (PpSetConn(t, "open") \/ PpSetConn(t, "closed")) /\ UNCHANGED <<ppWinner, ppPc>>
    BY <1>2, Zenon DEF PpDial
  <2> QED BY <2>1, PpConnSet, Zenon DEF PpRacing
<1>3. ASSUME NEW t \in PpTransports, PpWin(t) PROVE PpIInv'
  <2>1. PpRacing /\ UNCHANGED ppConn
    BY <1>3, Zenon DEF PpWin, PpRacing
  <2> QED BY <2>1, Zenon DEF PpIInv, PpTicketed
<1>4. ASSUME NEW t \in PpTransports, PpValidate(t) PROVE PpIInv'
  <2>1. PpTicketed(t) /\ UNCHANGED <<ppWinner, ppPc>>
    BY <1>4, Zenon DEF PpValidate, PpTicketed, PpConnIs
  <2>2. PpSetConn(t, "granted") \/ PpSetConn(t, "closed")
    BY <1>4, Zenon DEF PpValidate, PpConsume
  <2> QED BY <2>1, <2>2, PpConnSet, Zenon DEF PpRacing
<1>5. ASSUME NEW t \in PpTransports, PpReady(t) PROVE PpIInv'
  <2>1. PpTicketed(t) /\ UNCHANGED <<ppWinner, ppPc>>
    BY <1>5, Zenon DEF PpReady, PpTicketed, PpConnIs
  <2>2. PpSetConn(t, "up") \/ PpSetConn(t, "closed")
    BY <1>5, Zenon DEF PpReady
  <2> QED BY <2>1, <2>2, PpConnSet, Zenon DEF PpRacing
<1>6. CASE PpStart \/ PpRequest \/ PpNoWinner \/ PpHandshake \/ PpRelayByte \/ PpEnd
           \/ PpFallback \/ PpConnectRelay
  <2>1. UNCHANGED <<ppConn, ppWinner>> /\ (PpRacing' => PpRacing)
    BY <1>6, Zenon DEF PpStart, PpRequest, PpNoWinner, PpHandshake, PpRelayByte, PpEnd,
         PpFallback, PpConnectRelay, PpRacing, PpFail
  <2> QED BY <2>1, PpConnKept, Zenon
\* the ticket goes to the winner alone
<1>7. CASE PpSendTicket
  <2>1. /\ ppConn' = [t \in PpTransports |->
                     IF t = ppWinner /\ PpConnIs(t, "open") THEN "ticketed"
                     ELSE IF PpConnIs(t, "open") THEN "closed" ELSE ppConn[t]]
        /\ UNCHANGED ppWinner /\ ppPc' = "handshake"
        /\ \A t \in PpTransports : ~PpTicketed(t)
    BY <1>7, Zenon DEF PpSendTicket, PpIInv, PpRacing
  <2> QED BY <2>1, Zenon DEF PpIInv, PpTicketed, PpRacing
<1>8. CASE PpDirectByte
  <2>1. UNCHANGED ppWinner /\ (PpRacing' => PpRacing)
        /\ (UNCHANGED ppConn \/ PpSetConn(ppWinner, "closed"))
    BY <1>8, Zenon DEF PpDirectByte, PpRacing
  <2> QED BY <2>1, PpConnKept, PpConnSet, Zenon
<1> QED BY <1>1, <1>2, <1>3, <1>4, <1>5, <1>6, <1>7, <1>8, Zenon DEF PpNext, PpVisit

\* However the candidates race, break, expire and are retried, the one-time
\* ticket lets only the winner of the race through to the provider's target.
THEOREM GrantIsWinner == PpSpec => []PpGrantIsWinner
<1>1. PpInit => PpIInv
  BY Zenon DEF PpInit, PpIInv, PpTicketed
<1>2. PpIInv /\ [PpNext]_ppVars => PpIInv'
  <2>1. ASSUME PpIInv, UNCHANGED ppVars PROVE PpIInv'
    BY <2>1, PpConnKept, Zenon DEF ppVars, PpRacing
  <2> QED BY <2>1, PpStep, Zenon
<1>3. PpIInv => PpGrantIsWinner
  BY Zenon DEF PpIInv, PpTicketed, PpGrantIsWinner
<1> QED BY <1>1, <1>2, <1>3, PTL DEF PpSpec

-----------------------------------------------------------------------------
(* ClientRegistry *)

\* The fields of a client, and the map beside the table.
CrRecord(x) == x = [agent |-> x.agent, key |-> x.key, on |-> x.on, token |-> x.token,
                    seen |-> x.seen, sync |-> x.sync]
CrRecords(rows) == rows = [i \in CrId |-> rows[i]] /\ \A i \in CrId : CrRecord(rows[i])
CrSame(i) == crMap[i].token # 0 => crTable[i] = crMap[i]
CrIInv ==
    /\ CrRecords(crMap) /\ CrRecords(crTable)
    /\ ~crPg => \A i \in CrId : CrSame(i)

\* the absent client is a record without a token
LEMMA CrNoClientRecord == CrRecord(CrNoClient) /\ CrNoClient.token = 0
<1>1. CrRecord(CrNoClient)
  BY Zenon DEF CrRecord, CrNoClient
<1> QED BY <1>1, Zenon DEF CrNoClient

\* Whatever field a call changes, a client stays a client.
LEMMA CrRecordSet ==
    ASSUME NEW x, CrRecord(x), NEW v
    PROVE  /\ CrRecord([x EXCEPT !.seen = v]) /\ CrRecord([x EXCEPT !.on = v])
           /\ CrRecord([x EXCEPT !.sync = v]) /\ CrRecord([x EXCEPT !.token = v])
           /\ [x EXCEPT !.seen = v].token = x.token
<1>1. PICK a, k, o, t, s, y : x = [agent |-> a, key |-> k, on |-> o, token |-> t,
                                   seen |-> s, sync |-> y]
  BY Zenon DEF CrRecord
<1>2. /\ [x EXCEPT !.seen = v] = [agent |-> a, key |-> k, on |-> o, token |-> t, seen |-> v, sync |-> y]
      /\ [x EXCEPT !.on = v] = [agent |-> a, key |-> k, on |-> v, token |-> t, seen |-> s, sync |-> y]
      /\ [x EXCEPT !.sync = v] = [agent |-> a, key |-> k, on |-> o, token |-> t, seen |-> s, sync |-> v]
      /\ [x EXCEPT !.token = v] = [agent |-> a, key |-> k, on |-> o, token |-> v, seen |-> s, sync |-> y]
  BY <1>1
<1> QED BY <1>1, <1>2, Zenon DEF CrRecord

\* a record with new field values is a record
LEMMA CrRecordRenewed ==
    ASSUME NEW x, CrRecord(x), NEW k, NEW o, NEW n, NEW v
    PROVE  CrRecord([x EXCEPT !.key = k, !.on = o, !.seen = n, !.token = v])
<1>1. PICK a, b, c, d, e, y : x = [agent |-> a, key |-> b, on |-> c, token |-> d,
                                   seen |-> e, sync |-> y]
  BY Zenon DEF CrRecord
<1> DEFINE x1 == [agent |-> a, key |-> k, on |-> c, token |-> d, seen |-> e, sync |-> y]
           x2 == [agent |-> a, key |-> k, on |-> o, token |-> d, seen |-> e, sync |-> y]
           x3 == [agent |-> a, key |-> k, on |-> o, token |-> d, seen |-> n, sync |-> y]
           x4 == [agent |-> a, key |-> k, on |-> o, token |-> v, seen |-> n, sync |-> y]
<1>2. [x EXCEPT !.key = k] = x1
  BY <1>1
<1>3. [x1 EXCEPT !.on = o] = x2
  OBVIOUS
<1>4. [x2 EXCEPT !.seen = n] = x3
  OBVIOUS
<1>5. [x3 EXCEPT !.token = v] = x4
  OBVIOUS
<1>6. CrRecord(x4)
  BY Zenon DEF CrRecord
<1> HIDE DEF x1, x2, x3, x4
<1>7. [x EXCEPT !.key = k, !.on = o, !.seen = n, !.token = v] = x4
  BY <1>2, <1>3, <1>4, <1>5, Zenon
<1> QED BY <1>6, <1>7, Zenon

\* persist_client and then the map: both or neither.
LEMMA CrStoreKeeps ==
    ASSUME CrIInv, NEW i, NEW row, i \in CrId => CrRecord(row), CrStore(i, row), UNCHANGED crPg
    PROVE  CrIInv'
<1>1. CASE crTable' = [crTable EXCEPT ![i] = row]
           /\ crMap' = IF crPg THEN crMap ELSE [crMap EXCEPT ![i] = row]
  <2>1. /\ crTable' = [j \in CrId |-> IF j = i THEN row ELSE crTable[j]]
        /\ crPg => crMap' = crMap
        /\ ~crPg => crMap' = [j \in CrId |-> IF j = i THEN row ELSE crMap[j]]
    BY <1>1, Zenon DEF CrIInv, CrRecords
  <2>2. CrRecords(crTable)'
    BY <2>1, Zenon DEF CrIInv, CrRecords, CrRecord
  <2>3. CrRecords(crMap)'
    BY <2>1, Zenon DEF CrIInv, CrRecords, CrRecord
  <2>4. ~crPg => \A j \in CrId : CrSame(j)'
    BY <2>1, Zenon DEF CrIInv, CrSame
  <2> QED BY <2>2, <2>3, <2>4, Zenon DEF CrIInv
<1>2. CASE UNCHANGED <<crTable, crMap>>
  BY <1>2, Zenon DEF CrIInv, CrRecords, CrRecord, CrSame
<1> QED BY <1>1, <1>2, Zenon DEF CrStore

\* steps that touch neither map nor table keep the invariant
LEMMA CrUnchangedKeeps ==
    ASSUME CrIInv, UNCHANGED <<crPg, crMap, crTable>> PROVE CrIInv'
BY Zenon DEF CrIInv, CrRecords, CrRecord, CrSame

\* A row the registry answers from.
LEMMA CrRowsAreRecords ==
    ASSUME CrIInv, NEW i \in CrId PROVE CrRecord(CrRows[i]) /\ CrRecord(crMap[i]) /\ CrRecord(crTable[i])
BY Zenon DEF CrIInv, CrRecords, CrRows

\* every step of a registry request keeps map and table together
LEMMA CrServeKeeps ==
    ASSUME CrIInv, NEW h \in CrHandlers, CrServe(h)
    PROVE  CrIInv'
<1>1. CASE \/ CrVerifyPg(h) \/ CrLoadPg(h) \/ CrRotateSummary(h) \/ CrCheckOnline(h)
           \/ CrCountReferences(h) \/ CrPolicyCheck(h) \/ CrPolicyInsert(h)
  <2>1. UNCHANGED <<crPg, crMap, crTable>>
    BY <1>1, Zenon DEF CrVerifyPg, CrLoadPg, CrRotateSummary, CrCheckOnline, CrCountReferences,
         CrPolicyCheck, CrPolicyInsert, CrRead
  <2> QED BY <2>1, CrUnchangedKeeps, Zenon
<1>2. CASE CrEnroll(h)
  <2>0. UNCHANGED crPg
    BY <1>2, Zenon DEF CrEnroll
  <2>1. CASE CrInsert(h)
    <3>1. \/ UNCHANGED <<crTable, crMap>>
          \/ CrStore(crIds + 1, [agent |-> crReq[h].agent, key |-> crReq[h].arg, on |-> TRUE,
                                 token |-> crTokens + 1, seen |-> TRUE, sync |-> FALSE])
      BY <2>1, Zenon DEF CrInsert
    <3>2. CrRecord([agent |-> crReq[h].agent, key |-> crReq[h].arg, on |-> TRUE,
                    token |-> crTokens + 1, seen |-> TRUE, sync |-> FALSE])
      BY Zenon DEF CrRecord
    <3> QED BY <2>0, <3>1, <3>2, CrStoreKeeps, CrUnchangedKeeps, Zenon
  <2>2. ASSUME NEW i \in CrId, CrReEnroll(h, i) PROVE CrIInv'
    <3> DEFINE row == [CrRows[i] EXCEPT !.key = TRUE, !.on = TRUE, !.seen = TRUE,
                                        !.token = crTokens + 1]
    <3>1. UNCHANGED <<crTable, crMap>> \/ CrStore(i, row)
      BY <2>2, Zenon DEF CrReEnroll
    <3>2. CrRecord(row)
      BY CrRowsAreRecords, CrRecordRenewed, Zenon
    <3> QED BY <2>0, <3>1, <3>2, CrStoreKeeps, CrUnchangedKeeps, Zenon
  <2> QED BY <1>2, <2>1, <2>2, Zenon DEF CrEnroll, CrEnrolled
<1>3. CASE CrTouchSqlite(h)
  <2>1. UNCHANGED crPg
        /\ \/ UNCHANGED <<crTable, crMap>>
           \/ CrStore(crReq[h].id, [crMap[crReq[h].id] EXCEPT !.seen = TRUE])
    BY <1>3, Zenon DEF CrTouchSqlite
  <2>2. crReq[h].id \in CrId => CrRecord([crMap[crReq[h].id] EXCEPT !.seen = TRUE])
    BY CrRowsAreRecords, CrRecordSet, Zenon
  <2> QED BY <2>1, <2>2, CrStoreKeeps, CrUnchangedKeeps, Zenon
<1>4. CASE CrTouchPg(h)
  <2>1. UNCHANGED crPg
        /\ \/ UNCHANGED <<crTable, crMap>>
           \/ CrStore(crReq[h].id, [crTable[crReq[h].id] EXCEPT !.seen = TRUE])
    BY <1>4, Zenon DEF CrTouchPg, CrPgUpdate
  <2>2. crReq[h].id \in CrId => CrRecord([crTable[crReq[h].id] EXCEPT !.seen = TRUE])
    BY CrRowsAreRecords, CrRecordSet, Zenon
  <2> QED BY <2>1, <2>2, CrStoreKeeps, CrUnchangedKeeps, Zenon
<1>5. ASSUME NEW x, CrRecord(x) PROVE CrRecord(CrChanged(h, x))
  BY <1>5, CrRecordSet, Zenon DEF CrChanged, CrUpdated, CrSynced, CrRotated
<1>6. CASE CrWritePg(h)
  <2>1. UNCHANGED crPg
        /\ \/ UNCHANGED <<crTable, crMap>>
           \/ CrStore(crReq[h].id, CrChanged(h, crTable[crReq[h].id]))
    BY <1>6, Zenon DEF CrWritePg, CrPgUpdate
  <2>2. crReq[h].id \in CrId => CrRecord(CrChanged(h, crTable[crReq[h].id]))
    BY <1>5, CrRowsAreRecords, Zenon
  <2> QED BY <2>1, <2>2, CrStoreKeeps, CrUnchangedKeeps, Zenon
<1>7. CASE CrWriteSqlite(h)
  <2>1. UNCHANGED crPg
        /\ \/ UNCHANGED <<crTable, crMap>>
           \/ CrStore(crReq[h].id, CrChanged(h, crMap[crReq[h].id]))
    BY <1>7, Zenon DEF CrWriteSqlite
  <2>2. crReq[h].id \in CrId => CrRecord(CrChanged(h, crMap[crReq[h].id]))
    BY <1>5, CrRowsAreRecords, Zenon
  <2> QED BY <2>1, <2>2, CrStoreKeeps, CrUnchangedKeeps, Zenon
\* the map may forget a client the table still has, never the reverse
<1>8. CASE CrDeleteSqlite(h)
  <2> DEFINE i == crReq[h].id
  <2>1. CASE UNCHANGED <<crMap, crTable>>
    BY <1>8, <2>1, CrUnchangedKeeps, Zenon DEF CrDeleteSqlite
  <2>2. CASE /\ crMap' = [crMap EXCEPT ![i] = CrNoClient]
             /\ crTable' = [crTable EXCEPT ![i] = CrNoClient] \/ UNCHANGED crTable
    <3>1. /\ crMap' = [j \in CrId |-> IF j = i THEN CrNoClient ELSE crMap[j]]
          /\ \/ crTable' = [j \in CrId |-> IF j = i THEN CrNoClient ELSE crTable[j]]
             \/ crTable' = crTable
      BY <2>2, Zenon DEF CrIInv, CrRecords
    <3>2. CrRecords(crMap)' /\ CrRecords(crTable)'
      BY <3>1, CrNoClientRecord, Zenon DEF CrIInv, CrRecords, CrRecord
    <3>3. ~crPg => \A j \in CrId : CrSame(j)'
      BY <3>1, CrNoClientRecord, Zenon DEF CrIInv, CrSame
    <3> QED BY <1>8, <3>2, <3>3, Zenon DEF CrIInv, CrDeleteSqlite
  <2> QED BY <1>8, <2>1, <2>2, Zenon DEF CrDeleteSqlite
<1>9. CASE CrDeletePg(h)
  <2>1. /\ crPg /\ UNCHANGED <<crPg, crMap>>
        /\ crTable' = [j \in CrId |-> IF j = crReq[h].id THEN CrNoClient ELSE crTable[j]]
    BY <1>9, Zenon DEF CrDeletePg, CrIInv, CrRecords
  <2>2. CrRecords(crMap)' /\ CrRecords(crTable)'
    BY <2>1, CrNoClientRecord, Zenon DEF CrIInv, CrRecords, CrRecord
  <2> QED BY <2>1, <2>2, Zenon DEF CrIInv
<1> QED BY <1>1, <1>2, <1>3, <1>4, <1>6, <1>7, <1>8, <1>9, Zenon DEF CrServe

\* Whatever statements fail and whenever the server restarts, every client the
\* SQLite registry accepts from memory is in the table as it is in memory.
THEOREM ServedIsStored == CrSpec => []CrServedIsStored
<1>1. CrInit => CrIInv
  BY CrNoClientRecord, Zenon DEF CrInit, CrIInv, CrRecords, CrSame
<1>2. CrIInv /\ [CrNext]_crVars => CrIInv'
  <2> SUFFICES ASSUME CrIInv, [CrNext]_crVars PROVE CrIInv'
    OBVIOUS
  <2>1. ASSUME NEW h \in CrHandlers, CrAsked(h) PROVE CrIInv'
    <3>1. UNCHANGED <<crPg, crMap, crTable>>
      BY <2>1, Zenon DEF CrAsked, CrTouchAsked, CrEnrollAsked, CrRotateAsked, CrDeleteAsked,
           CrPolicyAsked, CrSyncAsked, CrUpdateAsked, CrAdmit
    <3> QED BY <3>1, CrUnchangedKeeps, Zenon
  <2>2. ASSUME NEW h \in CrHandlers, CrServe(h) PROVE CrIInv'
    BY <2>2, CrServeKeeps, Zenon
  <2>3. ASSUME NEW i \in CrId, CrSilent(i) PROVE CrIInv'
    <3> DEFINE quiet(x) == [x EXCEPT !.seen = FALSE]
    <3>1. /\ crMap' = [j \in CrId |-> IF j = i THEN quiet(crMap[i]) ELSE crMap[j]]
          /\ crTable' = [j \in CrId |-> IF j = i THEN quiet(crTable[i]) ELSE crTable[j]]
          /\ UNCHANGED crPg
      BY <2>3, Zenon DEF CrSilent, CrIInv, CrRecords
    <3>2. CrRecord(quiet(crMap[i])) /\ CrRecord(quiet(crTable[i]))
          /\ quiet(crMap[i]).token = crMap[i].token
      BY CrRowsAreRecords, CrRecordSet, Zenon
    <3> HIDE DEF quiet
    <3>3. CrRecords(crMap)' /\ CrRecords(crTable)'
      BY <3>1, <3>2, Zenon DEF CrIInv, CrRecords, CrRecord
    <3>4. ~crPg => \A j \in CrId : CrSame(j)'
      BY <3>1, <3>2, Zenon DEF CrIInv, CrSame
    <3> QED BY <3>1, <3>3, <3>4, Zenon DEF CrIInv
  <2>4. CASE CrRestart
    <3>1. UNCHANGED <<crPg, crTable>> /\ crMap' = (IF crPg THEN crMap ELSE crTable)
      BY <2>4, Zenon DEF CrRestart
    <3> QED BY <3>1, Zenon DEF CrIInv, CrRecords, CrRecord, CrSame
  <2>5. CASE UNCHANGED crVars
    BY <2>5, CrUnchangedKeeps, Zenon DEF crVars
  <2> QED BY <2>1, <2>2, <2>3, <2>4, <2>5, Zenon DEF CrNext
<1>3. CrIInv => CrServedIsStored
  BY Zenon DEF CrIInv, CrServedIsStored, CrExists, CrSame
<1> QED BY <1>1, <1>2, <1>3, PTL DEF CrSpec

=============================================================================
