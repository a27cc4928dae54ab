---------------------------- MODULE HealthStates ----------------------------
(***************************************************************************)
(* The five health states of a Fleet peer and the hysteresis between them  *)
(* (next_health_state of fleet_health.rs), as functions of the persisted   *)
(* state, its counters and the thresholds.                                 *)
(***************************************************************************)
EXTENDS Naturals

CONSTANT CountMax   \* counters are u16 and saturate

HealthState == {"unknown", "healthy", "degraded", "unhealthy", "recovering"}

\* saturating_add
Inc(n) == IF n < CountMax THEN n + 1 ELSE n

\* next_health_state for a probe that failed
AfterFailure(h, config) ==
  [state |-> IF h.state \in {"unhealthy", "recovering"} \/ Inc(h.failures) >= config.failure
               THEN "unhealthy" ELSE "degraded",
   successes |-> 0,
   failures |-> Inc(h.failures),
   cooldown |-> h.cooldown]

\* next_health_state for a probe that succeeded
AfterSuccess(h, config) ==
  [state |-> IF h.state = "healthy" \/ Inc(h.successes) >= config.success THEN "healthy"
             ELSE IF h.state \in {"degraded", "unknown"} THEN h.state
             ELSE "recovering",
   successes |-> Inc(h.successes),
   failures |-> 0,
   cooldown |-> h.cooldown]

\* What is left of a cooldown that started age ago
Remaining(cooldown, age) == IF age < cooldown THEN cooldown - age ELSE 0

\* record_probe: a change of state starts a cooldown, counted from the
\* observation, which is age old.
AfterProbe(h, success, config, age) ==
  LET next == IF success THEN AfterSuccess(h, config) ELSE AfterFailure(h, config) IN
  IF next.state = h.state THEN next
  ELSE [next EXCEPT !.cooldown = Remaining(config.cooldown, age)]

\* dns_eligible, without the switch of the peer
Stable(h) == h.state = "healthy" /\ h.cooldown = 0
=============================================================================
