---------------------------- MODULE JobExecution ----------------------------
(***************************************************************************)
(* One-shot operations under a job lease (job_execution.rs and its callers *)
(* for certificates, ACME accounts, DNS-01 cleanup and fleet DNS).  Several *)
(* of them, in one process or in several, may want the same job key.       *)
(*                                                                         *)
(* An operation has a local deadline, so that it stops even when the       *)
(* database cannot be reached: one second less than the lease, counted     *)
(* from the moment the renewal was sent.                                   *)
(***************************************************************************)
EXTENDS JobLeases

CONSTANTS
  Operation,    \* operations on one job key
  ProcessOf,    \* the process an operation runs in
  TimelyTimers  \* a timer is served before the clock moves past it

ASSUME OperationAssumption ==
  ProcessOf \in [Operation -> Process] /\ TimelyTimers \in BOOLEAN

VARIABLES
  op,        \* where an operation stands
  tok,       \* the token it read with fencing_token()
  lease,     \* the lease it acquired
  renewal,   \* its renewal call: none, sent, or committed but unanswered
  since,     \* half seconds since that call was sent, at most one lease
  deadline,  \* half seconds to the local deadline
  dead       \* processes that crashed

opVars == <<op, tok, lease, renewal, since, deadline, dead>>
vars == <<leadershipVars, rowVars, opVars>>

\* One type for every variable.
TypeOK ==
  /\ RowTypeOK
  /\ op \in [Operation -> {"idle", "acquiring", "prepared", "running", "finishing"}]
  /\ tok \in [Operation -> Nat]
  /\ lease \in [Operation -> Nat]
  /\ renewal \in [Operation -> {"none", "sent", "committed"}]
  /\ since \in [Operation -> 0 .. 2 * LeaseSeconds]
  /\ deadline \in [Operation -> 0 .. 2 * LeaseSeconds]
  /\ dead \subseteq Process

Init ==
  /\ RowInit
  /\ op = [o \in Operation |-> "idle"]
  /\ tok = [o \in Operation |-> 0]
  /\ lease = [o \in Operation |-> 0]
  /\ renewal = [o \in Operation |-> "none"]
  /\ since = [o \in Operation |-> 0]
  /\ deadline = [o \in Operation |-> 0]
  /\ dead = {}

\* runtime.fencing_token().ok() == Some(lease.fencing_token)
StillLeads(o) == view[ProcessOf[o]] = tok[o]

-----------------------------------------------------------------------------
\* The caller reads the token ...
ReadToken(o) ==
  /\ op[o] = "idle"
  /\ view[ProcessOf[o]] # 0
  /\ op' = [op EXCEPT ![o] = "acquiring"]
  /\ tok' = [tok EXCEPT ![o] = view[ProcessOf[o]]]
  /\ UNCHANGED <<leadershipVars, rowVars, lease, renewal, since, deadline, dead>>

\* ... and acquires the lease,
Acquire(o) ==
  /\ op[o] = "acquiring"
  /\ CanClaim(ProcessOf[o], tok[o])
  /\ Len(leases) < MaxLeases
  /\ ClaimRow(tok[o])
  /\ op' = [op EXCEPT ![o] = "prepared"]
  /\ lease' = [lease EXCEPT ![o] = Len(leases) + 1]
  /\ UNCHANGED <<leadershipVars, tok, renewal, since, deadline, dead>>

\* or gives up: conflict, refused fence, database error.
AcquireRefused(o) ==
  /\ op[o] = "acquiring"
  /\ op' = [op EXCEPT ![o] = "idle"]
  /\ UNCHANGED <<leadershipVars, rowVars, tok, lease, renewal, since, deadline, dead>>

\* run sends a renewal: before the operation is first polled, and at each tick.
SendRenewal(o) ==
  /\ op[o] \in {"prepared", "running"}
  /\ renewal[o] = "none"
  /\ StillLeads(o)
  /\ renewal' = [renewal EXCEPT ![o] = "sent"]
  /\ since' = [since EXCEPT ![o] = 0]
  /\ UNCHANGED <<leadershipVars, rowVars, op, tok, lease, deadline, dead>>

RenewalCommits(o) ==
  /\ renewal[o] = "sent"
  /\ Holds(ProcessOf[o], tok[o], lease[o])
  /\ RenewRow
  /\ renewal' = [renewal EXCEPT ![o] = "committed"]
  /\ UNCHANGED <<leadershipVars, op, tok, lease, since, deadline, dead>>

\* Seeded fault: the full lease, without the second of margin.
FullLeaseDuration(s) == IF s >= 2 * LeaseSeconds THEN 0 ELSE 2 * LeaseSeconds - s

\* started + remaining_lease_duration, seen s half seconds after started.
RemainingLeaseDuration(s) ==
  IF s >= 2 * (LeaseSeconds - 1) THEN 0 ELSE 2 * (LeaseSeconds - 1) - s

\* The answer arrives before the deadline it brings, and the operation may run
\* until then; later the biased select! lets run only return (Abandon).
RenewalAnswered(o) ==
  /\ renewal[o] = "committed"
  /\ RemainingLeaseDuration(since[o]) > 0
  /\ op' = [op EXCEPT ![o] = "running"]
  /\ renewal' = [renewal EXCEPT ![o] = "none"]
  /\ deadline' = [deadline EXCEPT ![o] = RemainingLeaseDuration(since[o])]
  /\ since' = [since EXCEPT ![o] = 0]
  /\ UNCHANGED <<leadershipVars, rowVars, tok, lease, dead>>

\* A leadership notification cancels the call, committed or not; run loops.
RenewalInterrupted(o) ==
  /\ renewal[o] # "none"
  /\ renewal' = [renewal EXCEPT ![o] = "none"]
  /\ since' = [since EXCEPT ![o] = 0]
  /\ UNCHANGED <<leadershipVars, rowVars, op, tok, lease, deadline, dead>>

\* run returns an error: stop requested, leadership changed, renewal refused or
\* failed, or the deadline passed.  The operation is dropped.  Most callers
\* abandon the lease; the ACME account records a failure.
Abandon(o) ==
  /\ op[o] \in {"prepared", "running"}
  /\ \E s \in {"idle", "finishing"} : op' = [op EXCEPT ![o] = s]
  /\ renewal' = [renewal EXCEPT ![o] = "none"]
  /\ since' = [since EXCEPT ![o] = 0]
  /\ deadline' = [deadline EXCEPT ![o] = 0]
  /\ UNCHANGED <<leadershipVars, rowVars, tok, lease, dead>>

\* The operation returns; it is polled only while no renewal is awaited.
Completes(o) ==
  /\ op[o] = "running"
  /\ renewal[o] = "none"
  /\ op' = [op EXCEPT ![o] = "finishing"]
  /\ deadline' = [deadline EXCEPT ![o] = 0]
  /\ UNCHANGED <<leadershipVars, rowVars, tok, lease, renewal, since, dead>>

Finish(o) ==
  /\ op[o] = "finishing"
  /\ Holds(ProcessOf[o], tok[o], lease[o])
  /\ FinishRow
  /\ op' = [op EXCEPT ![o] = "idle"]
  /\ UNCHANGED <<leadershipVars, tok, lease, renewal, since, deadline, dead>>

FinishFails(o) ==
  /\ op[o] = "finishing"
  /\ op' = [op EXCEPT ![o] = "idle"]
  /\ UNCHANGED <<leadershipVars, rowVars, tok, lease, renewal, since, deadline, dead>>

\* The operation commits its result under assert_*_transaction_lease.
OperationWrites(o) ==
  /\ op[o] = "running"
  /\ renewal[o] = "none"
  /\ Holds(ProcessOf[o], tok[o], lease[o])
  /\ LeasedWrite(tok[o], lease[o])
  /\ UNCHANGED opVars

\* A process dies with all its operations.
Crash(p) ==
  /\ p \notin dead
  /\ dead' = dead \cup {p}
  /\ view' = [view EXCEPT ![p] = 0]
  /\ op' = [o \in Operation |-> IF ProcessOf[o] = p THEN "idle" ELSE op[o]]
  /\ renewal' = [o \in Operation |-> IF ProcessOf[o] = p THEN "none" ELSE renewal[o]]
  /\ deadline' = [o \in Operation |-> IF ProcessOf[o] = p THEN 0 ELSE deadline[o]]
  /\ since' = [o \in Operation |-> IF ProcessOf[o] = p THEN 0 ELSE since[o]]
  /\ UNCHANGED <<terms, open, lastWrite, rowVars, tok, lease>>

\* Half a second passes.
Tick ==
  /\ TimelyTimers => \A o \in Operation : op[o] = "running" => deadline[o] > 0
  /\ job' = AgeRow
  /\ since' = [o \in Operation |->
       IF renewal[o] # "none" /\ since[o] < 2 * LeaseSeconds THEN since[o] + 1 ELSE since[o]]
  /\ deadline' = [o \in Operation |-> IF deadline[o] = 0 THEN 0 ELSE deadline[o] - 1]
  /\ UNCHANGED <<leadershipVars, leases, lastLeased, op, tok, lease, renewal, dead>>

Environment == LeadershipStep(Process \ dead) /\ UNCHANGED opVars

Next ==
  \/ \E o \in Operation :
       \/ ReadToken(o) \/ Acquire(o) \/ AcquireRefused(o)
       \/ SendRenewal(o) \/ RenewalCommits(o) \/ RenewalAnswered(o)
       \/ RenewalInterrupted(o) \/ Abandon(o) \/ Completes(o)
       \/ Finish(o) \/ FinishFails(o) \/ OperationWrites(o)
  \/ \E p \in Process : Crash(p)
  \/ Tick
  \/ Environment

Spec == Init /\ [][Next]_vars

-----------------------------------------------------------------------------
\* With timers served on time, a running operation of the newest term is covered:
\* the row is its own lease and outlives its local deadline.
CoveredByLease ==
  \A o \in Operation : op[o] = "running" /\ tok[o] = Len(terms) =>
    job.lease_id = lease[o] /\ job.left > deadline[o]

\* So no two operations on one job key run in the same term, whatever renewals
\* were lost, late or refused.
ExclusiveInTerm ==
  \A o, q \in Operation :
    op[o] = "running" /\ op[q] = "running" /\ tok[o] = tok[q] => o = q

\* Even with late timers, results are committed in the order of the leases: a
\* starved operation cannot overwrite what its successor stored.
LeasedWritesInOrder == [][WriteFollowsLeaseOrder]_vars
=============================================================================
