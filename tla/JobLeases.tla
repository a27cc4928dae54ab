----------------------------- MODULE JobLeases ------------------------------
(***************************************************************************)
(* The lease row of one background job (job_leases.rs): the transactions   *)
(* that claim, renew, finish and check it, all under the leadership fence. *)
(* JobSupervisor and JobExecution add the code that calls them.            *)
(*                                                                         *)
(* Leadership is what FencedLeadership promises; HaCoordination implements *)
(* it.  The row keeps the time its lease has left, in half seconds, where  *)
(* the table has lease_until: now is a whole second in both, truncated by  *)
(* SQLite and rounded by PostgreSQL, so a lease lasts up to one half       *)
(* second less than its nominal length.  The lease_id, a UUID, is the      *)
(* position of the lease in the history of leases of this job.             *)
(***************************************************************************)
EXTENDS Naturals, Sequences

CONSTANTS
  Process,       \* server processes, one incarnation each
  LeaseSeconds,  \* job_lease_seconds
  MaxTerms,      \* bound on leadership terms
  MaxLeases      \* bound on leases of the job

ASSUME LeaseAssumption ==
  LeaseSeconds \in Nat /\ LeaseSeconds >= 2 /\ MaxTerms \in Nat /\ MaxLeases \in Nat

VARIABLES
  terms, open, view, lastWrite,   \* leadership
  job,                            \* the row of the job
  leases,                         \* history: leases[l] is the token of lease l
  lastLeased                      \* history: lease of the last leased write

leadershipVars == <<terms, open, view, lastWrite>>
rowVars == <<job, leases, lastLeased>>

Leadership == INSTANCE FencedLeadership

JobRow == [lease_id : Nat, fencing_token : Nat, left : Nat]
NoJob == [lease_id |-> 0, fencing_token |-> 0, left |-> 0]

\* lease_until - now, as the two clocks of the database round it.
Lifetime == {2 * LeaseSeconds - 1, 2 * LeaseSeconds}

RowTypeOK ==
  /\ terms \in Seq(Process) /\ open \in BOOLEAN
  /\ view \in [Process -> Nat] /\ lastWrite \in Nat
  /\ job \in JobRow
  /\ leases \in Seq(Nat)
  /\ lastLeased \in Nat

RowInit ==
  /\ Leadership!Init
  /\ job = NoJob
  /\ leases = <<>>
  /\ lastLeased = 0

-----------------------------------------------------------------------------
\* Seeded fault: an expired row of this term is never replaced.
ClaimModeIgnoringExpiry(t) ==
  CASE job.lease_id = 0        -> "Fresh"
    [] job.fencing_token > t   -> "Error"
    [] job.fencing_token < t   -> "Fresh"
    [] OTHER                   -> "Conflict"

\* claim_mode: no row, a row of an older term or an expired row of this term is
\* replaced; a live row of this term is a conflict, a newer token an error.
ClaimMode(t) ==
  CASE job.lease_id = 0        -> "Fresh"
    [] job.fencing_token > t   -> "Error"
    [] job.fencing_token < t   -> "Fresh"
    [] job.left = 0            -> "Fresh"
    [] OTHER                   -> "Conflict"

\* Seeded fault: the claim relies on the token it was given.
ClaimUnfenced(p, t) == ClaimMode(t) # "Conflict"

\* acquire succeeds
CanClaim(p, t) == Leadership!Fence(p, t) /\ ClaimMode(t) = "Fresh"

\* The exact lease is still live: the WHERE clauses of renew and finish, and
\* assert_sqlite_transaction_lease, assert_postgres_transaction_lease.
Holds(p, t, l) ==
  /\ Leadership!Fence(p, t)
  /\ job.lease_id = l
  /\ job.fencing_token = t
  /\ job.left > 0

\* acquire: a new lease_id, the caller's token and a full lease.
ClaimRow(t) ==
  /\ leases' = Append(leases, t)
  /\ \E d \in Lifetime :
       job' = [lease_id |-> Len(leases) + 1, fencing_token |-> t, left |-> d]
  /\ UNCHANGED lastLeased

\* renew: a full lease from now on.
RenewRow ==
  /\ \E d \in Lifetime : job' = [job EXCEPT !.left = d]
  /\ UNCHANGED <<leases, lastLeased>>

\* finish (complete and fail): the lease ends at once.
FinishRow ==
  /\ job' = [job EXCEPT !.left = 0]
  /\ UNCHANGED <<leases, lastLeased>>

\* A business transaction that asserted lease l of term t commits.
LeasedWrite(t, l) ==
  /\ lastLeased' = l
  /\ lastWrite' = t
  /\ UNCHANGED <<terms, open, view, job, leases>>

\* Half a second passes for the row.
AgeRow == [job EXCEPT !.left = IF @ = 0 THEN 0 ELSE @ - 1]

-----------------------------------------------------------------------------
\* Leadership moves on underneath the job.
LeadershipStep(Alive) ==
  /\ \/ \E p \in Alive : Leadership!Grant(p) /\ Len(terms) < MaxTerms
     \/ \E p \in Alive : Leadership!Believe(p)
     \/ Leadership!Reopen
  /\ UNCHANGED rowVars

\* Leased writes commit in the order in which the leases were acquired.
WriteFollowsLeaseOrder == lastLeased' >= lastLeased /\ lastWrite' >= lastWrite
=============================================================================
