---------------------------- MODULE AlertOutbox ----------------------------
(***************************************************************************)
(* Alerts and their notification outbox (alerting.rs, alerting_postgres.rs *)
(* and the two workers of main.rs).  One rule watches a set of subjects.   *)
(* An evaluation opens and closes incidents and enqueues one delivery per  *)
(* channel in the same transaction.  A delivery worker claims due          *)
(* deliveries under a lease, sends them, and acknowledges or fails each of *)
(* them.  Deadlines are kept as the time that is left.                     *)
(***************************************************************************)
EXTENDS Integers, FiniteSets, FiniteSetsExt, Functions

CONSTANTS Process,       \* server processes that share the database
          Subject,       \* what the rule watches
          Channel,       \* notification channels the rule has switched on
          Delivery,      \* identities of deliveries, an initial segment of 1, 2, ...
          MaxAttempts,   \* NOTIFICATION_DELIVERY_MAX_ATTEMPTS
          LeaseSeconds,  \* NOTIFICATION_DELIVERY_LEASE_SECONDS
          SendTimeout,   \* NOTIFICATION_TIMEOUT
          BackoffBase,   \* NOTIFICATION_DELIVERY_BACKOFF_BASE_SECONDS
          BackoffMax,    \* NOTIFICATION_DELIVERY_BACKOFF_MAX_SECONDS
          Cooldown,      \* cooldown of the rule
          Retention,     \* NOTIFICATION_DELIVERY_RETENTION_SECONDS
          Capacity,      \* MAX_OUTSTANDING_NOTIFICATION_DELIVERIES
          ClaimLimit     \* deliveries a worker claims and sends at once

ASSUME OutboxAssumption ==
  /\ IsFiniteSet(Process) /\ IsFiniteSet(Delivery) /\ Delivery \subseteq Nat
  /\ {MaxAttempts, BackoffBase, Cooldown, Retention, Capacity, ClaimLimit} \subseteq Nat \ {0}
  /\ SendTimeout \in Nat \ {0} /\ LeaseSeconds \in Nat /\ SendTimeout < LeaseSeconds - 1
  /\ BackoffMax \in Nat /\ BackoffBase <= BackoffMax

VARIABLES shared,    \* TRUE: PostgreSQL, with a fence; FALSE: SQLite, one process
          leader,    \* process whose transactions pass the fence, 0 for none
          rule,      \* "enabled", "disabled" or "deleted"
          incident,  \* subject -> the open incident: active, time until the next reminder
          row,       \* delivery -> its row of alert_notification_deliveries
          batch,     \* process -> the tasks of its delivery worker
          received   \* delivery -> whether the receiver has got the message

vars == <<shared, leader, rule, incident, row, batch, received>>

Token == 1..(Cardinality(Process) + 1)
Outstanding == {"pending", "delivering"}
Completed == {"delivered", "dead_letter"}

(* Attempts beyond the limit are told apart from the limit, and no further. *)
AttemptCap == MaxAttempts + 1

NoRow == [state |-> "none", attempts |-> 0, wait |-> 0, lease |-> 0, token |-> 0, retain |-> 0]
Row == [state : {"none"} \union Outstanding \union Completed, attempts : 0..AttemptCap,
        wait : 0..BackoffMax, lease : 0..LeaseSeconds, token : {0} \union Token,
        retain : 0..Retention]
Task == [id : Delivery, token : Token, left : 0..SendTimeout, result : {"sending", "ok", "error"}]
NoIncident == [active |-> FALSE, quiet |-> 0]

(* Rows, incidents and the tasks of the workers keep their types; delays   *)
(* stay within the maximal backoff and leases within their length.         *)
TypeOK ==
  /\ shared \in BOOLEAN
  /\ leader \in Process \union {0}
  /\ rule \in {"enabled", "disabled", "deleted"}
  /\ incident \in [Subject -> [active : BOOLEAN, quiet : 0..Cooldown]]
  /\ row \in [Delivery -> Row]
  /\ batch \in [Process -> SUBSET Task]
  /\ received \in [Delivery -> BOOLEAN]

Init ==
  /\ shared \in BOOLEAN
  /\ leader \in IF shared THEN {0} ELSE Process
  /\ rule = "enabled"
  /\ incident = [s \in Subject |-> NoIncident]
  /\ row = [d \in Delivery |-> NoRow]
  /\ batch = [p \in Process |-> {}]
  /\ received = [d \in Delivery |-> FALSE]

InState(states) == {d \in Delivery : row[d].state \in states}
Down(n) == Max({0, n - 1})

-----------------------------------------------------------------------------
(* The rule and its incidents.                                             *)

(* A reminder is due for an open incident whose cooldown has passed.       *)
ShouldNotify(s) == ~incident[s].active \/ incident[s].quiet = 0

Resolved(firing) == {s \in Subject \ firing : incident[s].active}
Notified(firing) == {s \in firing : ShouldNotify(s)}

(* Identities of new deliveries are given out in order.                    *)
NewIds(ids) == ids \subseteq InState({"none"}) /\ \A d \in ids, e \in InState({"none"}) \ ids : d < e

Pending == [NoRow EXCEPT !.state = "pending"]

HasRoomBefore(n) == Cardinality(InState(Outstanding)) <= Capacity
HasRoom(n) == Cardinality(InState(Outstanding)) + n <= Capacity

(* One evaluation is one transaction: incidents and deliveries change      *)
(* together, and a full queue rolls everything back.                       *)
Evaluate(p, firing, ids) ==
  /\ leader = p /\ rule = "enabled"
  /\ NewIds(ids)
  /\ Cardinality(ids) = Cardinality(Channel) * Cardinality(Notified(firing) \union Resolved(firing))
  /\ ids # {} => HasRoom(Cardinality(ids))
  /\ incident' = [s \in Subject |->
       CASE s \in Notified(firing) -> [active |-> TRUE, quiet |-> Cooldown]
         [] s \in Resolved(firing) -> NoIncident
         [] OTHER -> incident[s]]
  /\ row' = [d \in Delivery |-> IF d \in ids THEN Pending ELSE row[d]]
  /\ received' = [d \in Delivery |-> IF d \in ids THEN FALSE ELSE received[d]]
  /\ UNCHANGED <<shared, leader, rule, batch>>

ResolveRuleEvents == [s \in Subject |-> NoIncident]

UpdateRule(p, state) ==
  /\ leader = p /\ rule # "deleted"
  /\ rule' = state
  /\ incident' = IF state = "disabled" THEN ResolveRuleEvents ELSE incident
  /\ UNCHANGED <<shared, leader, row, batch, received>>

(* Without a transaction the process can stop after the first statement.   *)
UpdateRuleInterrupted(p) ==
  /\ ~shared /\ leader = p /\ rule = "enabled"
  /\ rule' = "disabled"
  /\ batch' = [batch EXCEPT ![p] = {}]
  /\ UNCHANGED <<shared, leader, incident, row, received>>

DeleteRule(p) ==
  /\ leader = p /\ rule # "deleted"
  /\ rule' = "deleted"
  /\ incident' = ResolveRuleEvents
  /\ UNCHANGED <<shared, leader, row, batch, received>>

(* The incidents are resolved before the rule is removed: the process can  *)
(* stop with the rule still there.                                         *)
DeleteRuleInterrupted(p) ==
  /\ ~shared /\ leader = p /\ rule # "deleted"
  /\ incident' = ResolveRuleEvents
  /\ batch' = [batch EXCEPT ![p] = {}]
  /\ UNCHANGED <<shared, leader, rule, row, received>>

-----------------------------------------------------------------------------
(* The delivery worker.                                                    *)

ReclaimEverything == InState({"delivering"})
ReclaimNothing == {}
Expired == {d \in InState({"delivering"}) : row[d].lease = 0}

Purged == {d \in InState(Completed) : row[d].retain = 0}

AfterExpiry(d) == IF d \in Expired THEN [row[d] EXCEPT !.state = "pending", !.token = 0] ELSE row[d]

Due == {d \in Delivery : AfterExpiry(d).state = "pending" /\ AfterExpiry(d).wait = 0}

(* Lease tokens are fresh.  One more than there are workers is enough.     *)
UsedTokens(d) == {row[d].token} \union {t.token : t \in {u \in UNION Range(batch) : u.id = d}}
FreshToken(d, token) ==
  token \in Token \ UsedTokens(d) /\ \A other \in Token \ UsedTokens(d) : token <= other

(* A claim returns expired leases to the queue, purges what has been kept  *)
(* long enough, and leases due deliveries; the tasks start sending at once. *)
(* Whole seconds make a lease up to one second shorter than its length.    *)
Claim(p, ids, life, token) ==
  /\ leader = p /\ batch[p] = {}
  /\ ids \subseteq Due /\ Cardinality(ids) = Min({ClaimLimit, Cardinality(Due)})
  /\ \A d \in ids : FreshToken(d, token[d])
  /\ row' = [d \in Delivery |->
       CASE d \in ids -> [AfterExpiry(d) EXCEPT !.state = "delivering", !.lease = life,
                            !.attempts = Min({@ + 1, AttemptCap}), !.token = token[d]]
         [] d \in Purged -> NoRow
         [] OTHER -> AfterExpiry(d)]
  /\ batch' = [batch EXCEPT ![p] =
       {[id |-> d, token |-> token[d], left |-> SendTimeout, result |-> "sending"] : d \in ids}]
  /\ UNCHANGED <<shared, leader, rule, incident, received>>

(* The send ends.  A failed one may have reached the receiver all the same. *)
SendEnds(p, t, result, arrived) ==
  /\ t \in batch[p] /\ t.result = "sending"
  /\ result = "ok" => arrived
  /\ batch' = [batch EXCEPT ![p] = (@ \ {t}) \union {[t EXCEPT !.result = result]}]
  /\ received' = [received EXCEPT ![t.id] = @ \/ arrived]
  /\ UNCHANGED <<shared, leader, rule, incident, row>>

Dropped(p, t) == [batch EXCEPT ![p] = @ \ {t}]

Owns(t) ==
  /\ row[t.id].state = "delivering" /\ row[t.id].token = t.token
  /\ row[t.id].lease > 0

AckResult(t) == t.result = "ok"
Acknowledge(p, t) ==
  /\ t \in batch[p] /\ AckResult(t)
  /\ leader = p /\ Owns(t)
  /\ row' = [row EXCEPT ![t.id] = [@ EXCEPT !.state = "delivered", !.lease = 0, !.token = 0,
                                            !.retain = Retention]]
  /\ batch' = Dropped(p, t)
  /\ UNCHANGED <<shared, leader, rule, incident, received>>

RetryDelay(attempts) == Min({BackoffMax, BackoffBase * 2^Min({attempts - 1, 31})})

Fail(p, t) ==
  /\ t \in batch[p] /\ t.result = "error"
  /\ leader = p /\ Owns(t)
  /\ row' = [row EXCEPT ![t.id] =
       IF @.attempts >= MaxAttempts
       THEN [@ EXCEPT !.state = "dead_letter", !.lease = 0, !.token = 0, !.wait = 0,
                      !.retain = Retention]
       ELSE [@ EXCEPT !.state = "pending", !.lease = 0, !.token = 0,
                      !.wait = RetryDelay(row[t.id].attempts)]]
  /\ batch' = Dropped(p, t)
  /\ UNCHANGED <<shared, leader, rule, incident, received>>

(* A result is ignored when its lease is gone, and lost when the fence or  *)
(* the database refuses the transaction or the task panics.                *)
ResultIgnored(p, t) ==
  /\ t \in batch[p] /\ t.result # "sending" /\ ~Owns(t)
  /\ batch' = Dropped(p, t)
  /\ UNCHANGED <<shared, leader, rule, incident, row, received>>

ResultLost(p, t) ==
  /\ t \in batch[p]
  /\ batch' = Dropped(p, t)
  /\ UNCHANGED <<shared, leader, rule, incident, row, received>>

(* The worker is cancelled, or its process stops: every task ends.         *)
WorkerStops(p) ==
  /\ batch[p] # {}
  /\ batch' = [batch EXCEPT ![p] = {}]
  /\ UNCHANGED <<shared, leader, rule, incident, row, received>>

(* An operator sends a dead letter again, within the limit of the queue.   *)
RetryDelivery(p, d) ==
  /\ leader = p /\ row[d].state = "dead_letter" /\ HasRoom(1)
  /\ row' = [row EXCEPT ![d] = Pending]
  /\ UNCHANGED <<shared, leader, rule, incident, batch, received>>

-----------------------------------------------------------------------------
LeaderChanges ==
  /\ shared
  /\ leader' \in (Process \union {0}) \ {leader}
  /\ UNCHANGED <<shared, rule, incident, row, batch, received>>

(* One second passes.  The timeout of a send is served on time.            *)
Tick ==
  /\ \A t \in UNION Range(batch) : t.result = "sending" => t.left > 0
  /\ incident' = [s \in Subject |-> [incident[s] EXCEPT !.quiet = Down(@)]]
  /\ row' = [d \in Delivery |-> [row[d] EXCEPT !.wait = Down(@), !.lease = Down(@), !.retain = Down(@)]]
  /\ batch' = [p \in Process |->
       {[t EXCEPT !.left = IF t.result = "sending" THEN t.left - 1 ELSE 0] : t \in batch[p]}]
  /\ UNCHANGED <<shared, leader, rule, received>>

Settle(p) == \E t \in batch[p] : Acknowledge(p, t) \/ Fail(p, t) \/ ResultIgnored(p, t)
Send(p) == \E t \in batch[p], result \in {"ok", "error"}, arrived \in BOOLEAN :
             SendEnds(p, t, result, arrived)
ClaimSome(p) == \E ids \in SUBSET Due, life \in {LeaseSeconds - 1, LeaseSeconds} :
                  \E token \in [ids -> Token] : Claim(p, ids, life, token)

Next ==
  \/ \E p \in Process :
       \/ \E firing \in SUBSET Subject, ids \in SUBSET InState({"none"}) : Evaluate(p, firing, ids)
       \/ \E state \in {"enabled", "disabled"} : UpdateRule(p, state)
       \/ UpdateRuleInterrupted(p)
       \/ DeleteRule(p)
       \/ DeleteRuleInterrupted(p)
       \/ ClaimSome(p)
       \/ Send(p)
       \/ Settle(p)
       \/ \E t \in batch[p] : ResultLost(p, t)
       \/ WorkerStops(p)
       \/ \E d \in Delivery : RetryDelivery(p, d)
  \/ LeaderChanges
  \/ Tick

Spec == Init /\ [][Next]_vars

(* Time passes, the worker of the leader polls once a second, and sends    *)
(* and their results are handled by tasks the runtime keeps scheduling.    *)
Fairness ==
  /\ WF_vars(Tick)
  /\ \A p \in Process : WF_vars(ClaimSome(p)) /\ WF_vars(Send(p)) /\ WF_vars(Settle(p))

FairSpec == Spec /\ Fairness

-----------------------------------------------------------------------------
(* acknowledge_notification_delivery: a delivery is only marked delivered  *)
(* after its receiver has got the message, whatever leases expire, workers *)
(* are cancelled or leaders change in between.                             *)
DeliveredWasReceived == \A d \in Delivery : row[d].state = "delivered" => received[d]

(* The lease outlives the timeout of a send and only as many deliveries    *)
(* are claimed as can be sent at once, so no two tasks, of one worker or   *)
(* of the workers of an old and a new leader, send one delivery at a time. *)
OneSenderAtATime ==
  \A p, q \in Process : \A t \in batch[p], u \in batch[q] :
    t.id = u.id /\ t.result = "sending" /\ u.result = "sending" => p = q /\ t = u

(* enqueue_notification_deliveries and retry_notification_delivery share   *)
(* one budget: the queue never holds more than its capacity.               *)
QueueBounded == Cardinality(InState(Outstanding)) <= Capacity

(* docs/slo-observability.en.md: workers use "a ten-attempt limit".        *)
AttemptLimit == \A d \in Delivery : row[d].attempts <= MaxAttempts

(* Once some process stays leader, its worker is left alone and results    *)
(* are written before their leases expire, no delivery stays outstanding:  *)
(* each is delivered or becomes a dead letter, also one whose previous     *)
(* worker disappeared in the middle of a send.  (A result that comes too   *)
(* late is dropped, as a lost one is, and so counts as a disturbance.)     *)
Undisturbed == \E p \in Process : leader = p
Disturbance ==
  \/ LeaderChanges
  \/ \E p \in Process :
       \/ UpdateRuleInterrupted(p) \/ DeleteRuleInterrupted(p) \/ WorkerStops(p)
       \/ \E t \in batch[p] : ResultLost(p, t)
DeliverySettles ==
  (<>[][~Disturbance]_vars /\ <>[]Undisturbed)
    => \A d \in Delivery : []<>(row[d].state \notin Outstanding)
=============================================================================
