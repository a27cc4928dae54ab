------------------------------ MODULE FleetDns ------------------------------
(***************************************************************************)
(* DNS failover of one record between Fleet peers: the failover row        *)
(* (fleet_health.rs and fleet_health_postgres.rs), the reconciliation      *)
(* rounds that plan, execute and verify changes (main.rs), and the DNS     *)
(* provider, which is outside the program.  Rounds run in the health       *)
(* monitor and in the reconcile API, in any process; a job lease on the    *)
(* record keeps them apart within one leadership term.                     *)
(*                                                                         *)
(* Every database operation is one transaction, so one step; a request to  *)
(* the provider is sent in one step and answered in another, and may take  *)
(* effect long after its sender has given up.  Times are countdowns.  Each *)
(* adverse event (a failure, an administrator's change, a slow executor)   *)
(* is counted in faults, which MaxFaults bounds.                           *)
(***************************************************************************)
EXTENDS HealthStates, Integers, FiniteSets

CONSTANTS
  Peer,           \* peers, a set of positive integers, most preferred first
  Executor,       \* reconciliation rounds that may overlap
  HealthConfig,   \* thresholds and cooldown of every peer
  TargetMaps,     \* what targets an administrator may configure, 0 for none
  FirstTargets,   \* the targets at the start
  SwitchCooldown, \* cooldown_seconds of the failover
  PlanLease,      \* DNS_OPERATION_LEASE_SECONDS
  StartMargin,    \* what must be left of it to start a request
  MaxFaults

ASSUME DnsAssumption ==
  /\ Peer \subseteq Nat \ {0}
  /\ FirstTargets \in TargetMaps
  /\ TargetMaps \subseteq [Peer -> Nat]
  /\ SwitchCooldown \in Nat
  /\ StartMargin \in 1 .. PlanLease

VARIABLES
  peers,    \* rows of fleet_peers
  health,   \* rows of fleet_peer_health_state
  down,     \* peers that do not answer a probe
  fo,       \* the row of the failover
  exec,     \* exec[e]: stage and plan of a round
  holder,   \* who holds the job lease of the record
  provider, \* the value the provider serves
  late,     \* requests whose sender gave up and that may still take effect
  since,    \* history: time since the last committed switch
  faults

vars == <<peers, health, down, fo, exec, holder, provider, late, since, faults>>

NoOp == [id |-> 0, peer |-> 0, value |-> 0, lease |-> 0]

Idle == [stage |-> "idle", plan |-> NoOp]

Nobody == "nobody"

Vanished == "vanished"   \* a holder that left without releasing its lease

NewHealth == [state |-> "unknown", successes |-> 0, failures |-> 0, cooldown |-> 0]

\* The row create_dns_failover inserts
NewFailover(targets) ==
  [exists |-> TRUE, enabled |-> TRUE, frozen |-> FALSE, reconcile |-> TRUE, peer |-> 0, value |-> 0,
   notBefore |-> 0, targets |-> targets, pending |-> NoOp]

Deleted == [NewFailover([p \in Peer |-> 0]) EXCEPT !.exists = FALSE, !.enabled = FALSE]

Init ==
  /\ peers = [p \in Peer |-> [present |-> TRUE, enabled |-> TRUE]]
  /\ health = [p \in Peer |-> NewHealth]
  /\ down = {}
  /\ fo = NewFailover(FirstTargets)
  /\ exec = [e \in Executor |-> Idle]
  /\ holder = Nobody
  /\ provider = 0
  /\ late = {}
  /\ since = SwitchCooldown
  /\ faults = 0

Adverse == faults < MaxFaults /\ faults' = faults + 1

-----------------------------------------------------------------------------
(* Planning: plan_dns_changes                                              *)

Eligible(p) == peers[p].present /\ peers[p].enabled /\ Stable(health[p])

Candidates(f) == {p \in Peer : f.targets[p] # 0 /\ Eligible(p)}

First(f) == CHOOSE p \in Candidates(f) : \A q \in Candidates(f) : p <= q

IsCandidate(f, op) == op.peer \in Candidates(f) /\ f.targets[op.peer] = op.value

HoldCurrent(f) ==
  /\ f.peer # 0
  /\ peers[f.peer].enabled
  /\ f.targets[f.peer] = f.value
  /\ \/ health[f.peer].state = "degraded"
     \/ health[f.peer].state = "healthy" /\ health[f.peer].cooldown > 0

WantsChange(f) ==
  /\ f.pending = NoOp
  /\ f.notBefore = 0
  /\ ~HoldCurrent(f)
  /\ Candidates(f) # {}
  /\ f.peer # First(f) \/ f.value # f.targets[First(f)] \/ f.reconcile

ClearPending(f) == [f EXCEPT !.pending = NoOp]

Lapsed(f) == f.pending.id # 0 /\ f.pending.peer # 0 /\ f.pending.lease = 0

\* A pending operation that lost its peer is dropped at once, one that lapsed
\* only if its target is no longer eligible.
Cleaned(f) ==
  IF \/ f.pending.id # 0 /\ f.pending.peer = 0
     \/ Lapsed(f) /\ ~IsCandidate(f, f.pending)
  THEN ClearPending(f) ELSE f

UsedIds == {fo.pending.id} \cup {exec[e].plan.id : e \in Executor}

NewId == CHOOSE n \in 1 .. Cardinality(Executor) + 2 :
           n \notin UsedIds /\ \A k \in 1 .. n - 1 : k \in UsedIds

Reserved(f) == [id |-> NewId, peer |-> First(f), value |-> f.targets[First(f)], lease |-> PlanLease]

Planned(e, op) ==
  /\ fo' = [Cleaned(fo) EXCEPT !.pending = op]
  /\ exec' = [exec EXCEPT ![e] = [stage |-> "planned", plan |-> op]]

\* plan_dns_changes, called at the end of a round
Plan(e) ==
  /\ exec[e].stage = "ready"
  /\ IF ~fo.enabled \/ fo.frozen
       THEN exec' = [exec EXCEPT ![e] = Idle] /\ UNCHANGED fo
     ELSE IF Lapsed(fo) /\ IsCandidate(fo, fo.pending)
       THEN Planned(e, [fo.pending EXCEPT !.lease = PlanLease])
     ELSE IF WantsChange(Cleaned(fo))
       THEN Planned(e, Reserved(Cleaned(fo)))
     ELSE exec' = [exec EXCEPT ![e] = Idle] /\ fo' = Cleaned(fo)
  /\ UNCHANGED <<peers, health, down, holder, provider, late, since, faults>>

-----------------------------------------------------------------------------
(* Execution of a plan and verification of the record: main.rs             *)

Moves(e, stage) == exec' = [exec EXCEPT ![e].stage = stage]

Verifiable == fo.enabled /\ ~fo.frozen /\ fo.pending.id = 0 /\ ~fo.reconcile

\* verify_fleet_dns_records: the row is read here and used after the lease
StartRound(e) ==
  /\ exec[e].stage = "idle"
  /\ exec' = [exec EXCEPT ![e] =
                IF Verifiable /\ fo.peer # 0
                  THEN [stage |-> "checking", plan |-> [NoOp EXCEPT !.peer = fo.peer, !.value = fo.value]]
                  ELSE [stage |-> "ready", plan |-> NoOp]]
  /\ UNCHANGED <<peers, health, down, fo, holder, provider, late, since, faults>>

\* jobs.acquire on dns_execution_job_key
Acquire(e) ==
  /\ exec[e].stage \in {"planned", "checking"}
  /\ IF holder = Nobody
       THEN /\ holder' = e
            /\ Moves(e, IF exec[e].stage = "planned" THEN "leased" ELSE "reading")
       ELSE /\ exec' = [exec EXCEPT ![e] = IF exec[e].stage = "planned" THEN Idle
                                           ELSE [stage |-> "ready", plan |-> NoOp]]
            /\ UNCHANGED holder
  /\ UNCHANGED <<peers, health, down, fo, provider, late, since, faults>>

\* assert_dns_plan_current, after the fence and the lease of the record
PlanCurrent(e) ==
  /\ holder = e
  /\ fo.enabled /\ ~fo.frozen
  /\ fo.pending.id # 0 /\ fo.pending = exec[e].plan
  /\ fo.pending.lease > 0

\* validate_dns_execution
Validate(e) ==
  /\ exec[e].stage = "leased"
  /\ Moves(e, IF PlanCurrent(e) /\ fo.pending.lease >= StartMargin /\ IsCandidate(fo, fo.pending)
                THEN "sent" ELSE "finishing")
  /\ UNCHANGED <<peers, health, down, fo, holder, provider, late, since, faults>>

\* apply_cloudflare_dns_change succeeds
PutSucceeds(e) ==
  /\ exec[e].stage = "sent"
  /\ provider' = exec[e].plan.value
  /\ Moves(e, "applied")
  /\ UNCHANGED <<peers, health, down, fo, holder, late, since, faults>>

\* A request given up has taken effect, never will, or will later.
GivenUp(e) ==
  \/ provider' = exec[e].plan.value /\ UNCHANGED late
  \/ UNCHANGED <<provider, late>>
  \/ late' = late \cup {exec[e].plan.value} /\ UNCHANGED provider

PutFails(e) ==
  /\ exec[e].stage = "sent" /\ Adverse
  /\ GivenUp(e)
  /\ Moves(e, "refused")
  /\ UNCHANGED <<peers, health, down, fo, holder, since>>

LatePut ==
  /\ \E v \in late : provider' = v /\ late' = late \ {v}
  /\ UNCHANGED <<peers, health, down, fo, exec, holder, since, faults>>

Committed(e) ==
  [fo EXCEPT !.peer = exec[e].plan.peer, !.value = exec[e].plan.value, !.reconcile = FALSE,
             !.notBefore = SwitchCooldown, !.pending = NoOp]

RolledBack == [fo EXCEPT !.notBefore = SwitchCooldown, !.pending = NoOp]

\* complete_dns_change; an operation already finished, or replaced, is only
\* reported
Complete(e) ==
  /\ exec[e].stage \in {"applied", "refused"}
  /\ IF ~PlanCurrent(e)
       THEN UNCHANGED <<fo, since>>
     ELSE IF exec[e].stage = "applied"
       THEN fo' = Committed(e) /\ since' = 0
     ELSE fo' = RolledBack /\ UNCHANGED since
  /\ Moves(e, "finishing")
  /\ UNCHANGED <<peers, health, down, holder, provider, late, faults>>

\* timeout_at: the plan's deadline passes before the round could commit
DeadlinePasses(e) ==
  /\ exec[e].stage \in {"sent", "applied", "refused"} /\ Adverse
  /\ IF exec[e].stage = "sent" THEN GivenUp(e) ELSE UNCHANGED <<provider, late>>
  /\ Moves(e, "finishing")
  /\ UNCHANGED <<peers, health, down, fo, holder, since>>

\* cloudflare_dns_matches
ReadRecord(e) ==
  /\ exec[e].stage = "reading"
  /\ Moves(e, IF provider = exec[e].plan.value THEN "checked" ELSE "drifted")
  /\ UNCHANGED <<peers, health, down, fo, holder, provider, late, since, faults>>

ReadFails(e) ==
  /\ exec[e].stage = "reading" /\ Adverse
  /\ Moves(e, "checked")
  /\ UNCHANGED <<peers, health, down, fo, holder, provider, late, since>>

\* Seeded fault: drift is noted nowhere.
ForgetDrift(e) ==
  /\ exec[e].stage = "drifted"
  /\ Moves(e, "checked")
  /\ UNCHANGED <<peers, health, down, fo, holder, provider, late, since, faults>>

\* mark_dns_drift, with dns_verification_is_current
MarkDrift(e) ==
  /\ exec[e].stage = "drifted"
  /\ fo' = [fo EXCEPT !.reconcile =
              @ \/ /\ holder = e
                   /\ Verifiable
                   /\ fo.peer # 0 /\ fo.peer = exec[e].plan.peer /\ fo.value = exec[e].plan.value]
  /\ Moves(e, "checked")
  /\ UNCHANGED <<peers, health, down, holder, provider, late, since, faults>>

\* jobs.complete or jobs.fail; after a verification the round goes on to plan
Release(e) ==
  /\ exec[e].stage \in {"finishing", "checked"}
  /\ holder' = IF holder = e THEN Nobody ELSE holder
  /\ exec' = [exec EXCEPT ![e] = IF exec[e].stage = "finishing" THEN Idle
                                 ELSE [stage |-> "ready", plan |-> NoOp]]
  /\ UNCHANGED <<peers, health, down, fo, provider, late, since, faults>>

\* The stop signal, a lost lease, a failed transaction or a crash ends a round.
Abandon(e) ==
  /\ exec[e].stage \notin {"idle", "ready"} /\ Adverse
  /\ exec' = [exec EXCEPT ![e] = Idle]
  /\ holder' = IF holder = e THEN Vanished ELSE holder
  /\ IF exec[e].stage = "sent" THEN GivenUp(e) ELSE UNCHANGED <<provider, late>>
  /\ UNCHANGED <<peers, health, down, fo, since>>

\* The lease of a round that is gone runs out.
LeaseLapses ==
  /\ holder = Vanished
  /\ holder' = Nobody
  /\ UNCHANGED <<peers, health, down, fo, exec, provider, late, since, faults>>

\* A round under way loses its lease: the renewal came too late, or a new term
\* began, in which any lease of an older one may be claimed (claim_mode) and no
\* transaction accepts the older lease any more.
LeaseLost ==
  /\ holder \in Executor /\ Adverse
  /\ holder' = Nobody
  /\ UNCHANGED <<peers, health, down, fo, exec, provider, late, since>>

-----------------------------------------------------------------------------
(* The peers, the administrator, the provider and time                     *)

\* A probe of the monitor is observed and recorded (see FleetHealth).
Probe(p) ==
  /\ peers[p].present /\ peers[p].enabled
  /\ health' = [health EXCEPT ![p] = AfterProbe(@, p \notin down, HealthConfig, 0)]
  /\ UNCHANGED <<peers, down, fo, exec, holder, provider, late, since, faults>>

PeerGoesUpOrDown(p) ==
  /\ Adverse
  /\ down' = IF p \in down THEN down \ {p} ELSE down \cup {p}
  /\ UNCHANGED <<peers, health, fo, exec, holder, provider, late, since>>

SetPeerEnabled(p) ==
  /\ peers[p].present /\ Adverse
  /\ peers' = [peers EXCEPT ![p].enabled = ~@]
  /\ UNCHANGED <<health, down, fo, exec, holder, provider, late, since>>

Unmatched(e) == [exec[e] EXCEPT !.plan.id = 0, !.plan.peer = 0]

\* Deleting a peer, with the foreign keys or remove_peer_references.  Its id is
\* never used again: a plan that names it matches nothing from now on.
DeletePeer(p) ==
  /\ peers[p].present /\ Adverse
  /\ peers' = [peers EXCEPT ![p] = [present |-> FALSE, enabled |-> FALSE]]
  /\ health' = [health EXCEPT ![p] = NewHealth]
  /\ fo' = [fo EXCEPT !.targets[p] = 0,
                      !.peer = IF @ = p THEN 0 ELSE @,
                      !.pending.peer = IF @ = p THEN 0 ELSE @]
  /\ exec' = [e \in Executor |-> IF exec[e].plan.peer = p THEN Unmatched(e) ELSE exec[e]]
  /\ UNCHANGED <<down, holder, provider, late, since>>

CreatePeer(p) ==
  /\ ~peers[p].present /\ Adverse
  /\ peers' = [peers EXCEPT ![p] = [present |-> TRUE, enabled |-> TRUE]]
  /\ UNCHANGED <<health, down, fo, exec, holder, provider, late, since>>

Configurable(targets) == \A p \in Peer : targets[p] # 0 => peers[p].present

\* Seeded fault: the targets may change under a pending operation.
UpdateAnyTime(targets) ==
  /\ fo.exists /\ Configurable(targets) /\ Adverse
  /\ \E enabled \in BOOLEAN :
       fo' = [fo EXCEPT !.targets = targets, !.enabled = enabled, !.reconcile = TRUE]
  /\ UNCHANGED <<peers, health, down, exec, holder, provider, late, since>>

\* update_dns_failover: refused while an operation is pending
UpdateFailover(targets) ==
  /\ fo.exists /\ fo.pending.id = 0 /\ Configurable(targets) /\ Adverse
  /\ \E enabled \in BOOLEAN :
       fo' = [fo EXCEPT !.targets = targets, !.enabled = enabled, !.reconcile = TRUE]
  /\ UNCHANGED <<peers, health, down, exec, holder, provider, late, since>>

SetFrozen ==
  /\ fo.exists /\ Adverse
  /\ fo' = [fo EXCEPT !.frozen = ~@]
  /\ UNCHANGED <<peers, health, down, exec, holder, provider, late, since>>

\* delete_dns_failover: plans of rounds still under way name no row any more
DeleteFailover ==
  /\ fo.exists /\ fo.pending.id = 0 /\ Adverse
  /\ fo' = Deleted
  /\ exec' = [e \in Executor |-> Unmatched(e)]
  /\ UNCHANGED <<peers, health, down, holder, provider, late, since>>

CreateFailover(targets) ==
  /\ ~fo.exists /\ Configurable(targets) /\ Adverse
  /\ fo' = NewFailover(targets)
  /\ since' = SwitchCooldown
  /\ UNCHANGED <<peers, health, down, exec, holder, provider, late>>

\* Somebody edits the record at the provider.
ProviderEdited ==
  /\ provider # 0 /\ Adverse
  /\ provider' = 0
  /\ UNCHANGED <<peers, health, down, fo, exec, holder, late, since>>

Down(n) == IF n > 0 THEN n - 1 ELSE 0

Executing(e) == exec[e].stage \in {"planned", "leased", "sent", "applied", "refused"}

\* Time passes; that it passes while a plan is being executed is adverse: one
\* unit is half the plan's lease.
Tick ==
  /\ IF \E e \in Executor : Executing(e) THEN Adverse ELSE UNCHANGED faults
  /\ health' = [p \in Peer |-> [health[p] EXCEPT !.cooldown = Down(@)]]
  /\ fo' = [fo EXCEPT !.notBefore = Down(@), !.pending.lease = Down(@)]
  /\ exec' = [e \in Executor |-> [exec[e] EXCEPT !.plan.lease = Down(@)]]
  /\ since' = IF since < SwitchCooldown THEN since + 1 ELSE since
  /\ UNCHANGED <<peers, down, holder, provider, late>>

RoundStep(e) ==
  \/ StartRound(e) \/ Plan(e) \/ Acquire(e) \/ Validate(e) \/ PutSucceeds(e)
  \/ Complete(e) \/ ReadRecord(e) \/ MarkDrift(e) \/ Release(e)

Next ==
  \/ \E e \in Executor : \/ RoundStep(e) \/ PutFails(e) \/ DeadlinePasses(e)
                         \/ ReadFails(e) \/ Abandon(e)
  \/ \E p \in Peer : \/ Probe(p) \/ PeerGoesUpOrDown(p) \/ SetPeerEnabled(p)
                     \/ DeletePeer(p) \/ CreatePeer(p)
  \/ \E t \in TargetMaps : UpdateFailover(t) \/ CreateFailover(t)
  \/ SetFrozen \/ DeleteFailover \/ ProviderEdited
  \/ LatePut \/ LeaseLapses \/ LeaseLost \/ Tick

Spec == Init /\ [][Next]_vars

\* The monitor keeps probing and starting rounds, leases run out, time passes.
FairSpec ==
  /\ Spec
  /\ \A e \in Executor : WF_vars(RoundStep(e))
  /\ \A p \in Peer : WF_vars(Probe(p))
  /\ WF_vars(LeaseLapses)
  /\ SF_vars(Tick)

-----------------------------------------------------------------------------
\* Every column and every field of a round keeps its type.
TypeOK ==
  /\ \A p \in Peer : peers[p].present \in BOOLEAN /\ peers[p].enabled \in BOOLEAN
  /\ \A p \in Peer : /\ health[p].state \in HealthState
                     /\ health[p].cooldown \in 0 .. HealthConfig.cooldown
  /\ fo.peer \in Peer \cup {0} /\ fo.notBefore \in 0 .. SwitchCooldown
  /\ fo.pending.lease \in 0 .. PlanLease
  /\ holder \in Executor \cup {Nobody, Vanished}
  /\ faults \in 0 .. MaxFaults

Commits(e) == exec[e].stage = "applied" /\ exec'[e].stage = "finishing" /\ fo' # fo

\* A switch is committed only to the target that is configured for an existing
\* peer at that moment, although the target was chosen several steps earlier:
\* updates are refused while an operation is pending, and the deletion of a peer
\* invalidates the plan (complete_dns_change).
CommitsConfiguredTarget ==
  [][\A e \in Executor : Commits(e) =>
       /\ fo'.peer # 0 /\ peers[fo'.peer].present
       /\ fo.targets[fo'.peer] = fo'.value]_vars

\* Two committed switches are at least cooldown_seconds apart, also when an
\* operation lapsed, was taken over or was replaced in between.
SwitchesAreSpaced ==
  [][\A e \in Executor : Commits(e) => since >= SwitchCooldown]_vars

Serviceable ==
  /\ fo.enabled /\ ~fo.frozen
  /\ \E p \in Peer : /\ peers[p].present /\ peers[p].enabled
                     /\ fo.targets[p] # 0 /\ p \notin down

\* Once nothing adverse happens any more, the provider serves the committed
\* target, and its peer answers, for good: after lost leases, requests that took
\* effect late or were reported as failed, freezes, deletions and foreign edits
\* of the record.
DnsConverges ==
  <>[](Serviceable => fo.peer # 0 /\ fo.peer \notin down /\ provider = fo.value)

\* A switch is committed to a configured target, and not too soon.
SwitchesAreSound == CommitsConfiguredTarget /\ SwitchesAreSpaced

=============================================================================
