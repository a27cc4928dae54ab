------------------------------ MODULE JobProofs ------------------------------
(***************************************************************************)
(* Proofs about the two users of a job lease, JobExecution and             *)
(* JobSupervisor, for any set of processes and operations, any lease of at *)
(* least two seconds and any number of terms and leases.                   *)
(***************************************************************************)
EXTENDS JobExecution, JobSupervisor, TLAPS

\* t is no term, or a term granted to p.
Known(p, t) == t <= Len(terms) /\ (t # 0 => terms[t] = p)

TermsKnown ==
  /\ \A p \in Process : Known(p, view[p])
  /\ \A o \in Operation : Known(ProcessOf[o], tok[o])
  /\ lastWrite <= Len(terms)

\* The row shows the last lease.
RowHistory ==
  /\ job.lease_id = Len(leases)
  /\ job.fencing_token <= Len(terms)
  /\ lastLeased <= Len(leases)

\* An operation between its acquisition and the end of its finish.
Has(o) == op[o] \in {"prepared", "running", "finishing"}

OwnLeases ==
  /\ \A o \in Operation :
       /\ lease[o] <= Len(leases)
       /\ Has(o) => lease[o] # 0
       /\ renewal[o] # "none" => op[o] \in {"prepared", "running"}
       /\ deadline[o] <= 2 * (LeaseSeconds - 1)
  /\ \A o, q \in Operation : Has(o) /\ Has(q) /\ lease[o] = lease[q] => o = q

\* In the newest term the row is the lease of o, with more than d left.
CoveredFor(o, d) ==
  tok[o] = Len(terms) =>
    job.lease_id = lease[o] /\ job.fencing_token = tok[o] /\ job.left > d

\* A renewal whose answer would still be in time.
Awaited(o) == renewal[o] = "committed" /\ RemainingLeaseDuration(since[o]) > 0

Active(o) == op[o] = "running" \/ Awaited(o)

Covered ==
  \A o \in Operation :
    /\ op[o] = "running" => CoveredFor(o, deadline[o])
    /\ Awaited(o) => CoveredFor(o, RemainingLeaseDuration(since[o]))

Exclusive == \A o, q \in Operation : Active(o) /\ Active(q) /\ tok[o] = tok[q] => o = q

\* The inductive invariant.
IInv ==
  /\ TypeOK
  /\ TermsKnown
  /\ RowHistory
  /\ OwnLeases
  /\ TimelyTimers => Covered /\ Exclusive

-----------------------------------------------------------------------------
(***************************************************************************)
(* What the transactions on the row and the steps of leadership do.        *)
(***************************************************************************)

\* The types of the fields of the row and of the two histories.
LEMMA RowFields ==
  ASSUME RowTypeOK
  PROVE  /\ job.lease_id \in Nat /\ job.fencing_token \in Nat /\ job.left \in Nat
         /\ Len(leases) \in Nat /\ Len(terms) \in Nat
  BY DEF RowTypeOK, JobRow

\* acquire writes a new lease of the caller's term at the end of the history.
LEMMA ClaimEffect ==
  ASSUME RowTypeOK, NEW t \in Nat, ClaimRow(t)
  PROVE  /\ job' \in JobRow /\ leases' \in Seq(Nat) /\ lastLeased' = lastLeased
         /\ Len(leases') = Len(leases) + 1
         /\ job'.lease_id = Len(leases) + 1 /\ job'.fencing_token = t
         /\ job'.left > 2 * (LeaseSeconds - 1)
<1> USE LeaseAssumption
<1>1. PICK d \in Lifetime :
        job' = [lease_id |-> Len(leases) + 1, fencing_token |-> t, left |-> d]
  BY Zenon DEF ClaimRow
<1>2. d \in Nat /\ d > 2 * (LeaseSeconds - 1)
  BY DEF Lifetime
<1>3. Len(leases) \in Nat
  BY RowFields, Zenon
<1>4. leases' \in Seq(Nat) /\ Len(leases') = Len(leases) + 1
  BY DEF ClaimRow, RowTypeOK
<1> QED
  BY <1>1, <1>2, <1>3, <1>4 DEF ClaimRow, JobRow

\* renew keeps the identity of the lease and makes it longer than any deadline.
LEMMA RenewEffect ==
  ASSUME RowTypeOK, RenewRow
  PROVE  /\ job' \in JobRow /\ leases' = leases /\ lastLeased' = lastLeased
         /\ job'.lease_id = job.lease_id /\ job'.fencing_token = job.fencing_token
         /\ job'.left > 2 * (LeaseSeconds - 1)
<1> USE LeaseAssumption
<1>1. PICK d \in Lifetime : job' = [job EXCEPT !.left = d]
  BY Zenon DEF RenewRow
<1>2. d \in Nat /\ d > 2 * (LeaseSeconds - 1)
  BY DEF Lifetime
<1> QED
  BY <1>1, <1>2, Zenon DEF RenewRow, RowTypeOK, JobRow

\* finish and the passing of time keep the identity of the lease.
LEMMA FinishEffect ==
  ASSUME RowTypeOK, FinishRow
  PROVE  /\ job' \in JobRow /\ leases' = leases /\ lastLeased' = lastLeased
         /\ job'.lease_id = job.lease_id /\ job'.fencing_token = job.fencing_token
  BY Zenon DEF FinishRow, RowTypeOK, JobRow

\* The passing of time shortens what is left and keeps everything else.
LEMMA AgeEffect ==
  ASSUME RowTypeOK, job' = AgeRow
  PROVE  /\ job' \in JobRow
         /\ job'.lease_id = job.lease_id /\ job'.fencing_token = job.fencing_token
         /\ job'.left = IF job.left = 0 THEN 0 ELSE job.left - 1
<1> DEFINE d == IF job.left = 0 THEN 0 ELSE job.left - 1
<1>1. d \in Nat
  BY RowFields
<1>2. job' = [job EXCEPT !.left = d]
  BY Zenon DEF AgeRow
<1> HIDE DEF d
<1>3. job' \in JobRow /\ job'.lease_id = job.lease_id
      /\ job'.fencing_token = job.fencing_token /\ job'.left = d
  BY <1>1, <1>2, Zenon DEF RowTypeOK, JobRow
<1> QED
  BY <1>3, Zenon DEF d

\* Leadership only appends terms, and every belief is in a term of one's own.
LEMMA LeadershipEffect ==
  ASSUME RowTypeOK, NEW A \in SUBSET Process, LeadershipStep(A),
         \A p \in Process : Known(p, view[p])
  PROVE  /\ RowTypeOK'
         /\ lastWrite' = lastWrite /\ UNCHANGED rowVars
         /\ Len(terms') >= Len(terms)
         /\ \A t \in 1 .. Len(terms) : terms'[t] = terms[t]
         /\ \A p \in Process : Known(p, view[p])'
<1>0. UNCHANGED rowVars
  BY Zenon DEF LeadershipStep
<1>1. CASE \E p \in A : Leadership!Grant(p)
  <2>1. PICK p \in A : Leadership!Grant(p)
    BY <1>1, Zenon
  <2>2. terms' = Append(terms, p) /\ view' = view /\ lastWrite' = lastWrite /\ open' = TRUE
    BY <2>1, Zenon DEF Leadership!Grant
  <2>3. /\ terms' \in Seq(Process) /\ Len(terms') = Len(terms) + 1
        /\ \A t \in 1 .. Len(terms) : terms'[t] = terms[t]
    BY <2>2 DEF RowTypeOK
  <2>4. \A q \in Process : Known(q, view[q])'
    BY <2>2, <2>3, RowFields DEF Known, RowTypeOK
  <2> QED
    BY <1>0, <2>2, <2>3, <2>4, RowFields DEF RowTypeOK, rowVars
<1>2. CASE \E p \in A : Leadership!Believe(p)
  <2>1. PICK p \in A : Leadership!Believe(p)
    BY <1>2, Zenon
  <2>2. PICK t \in 0 .. Len(terms) :
          Leadership!LastTermOrNone(p, t) /\ view' = [view EXCEPT ![p] = t]
    BY <2>1, Zenon DEF Leadership!Believe
  <2>3. UNCHANGED <<terms, open, lastWrite>>
    BY <2>1, Zenon DEF Leadership!Believe
  <2>4. view' \in [Process -> Nat] /\ \A q \in Process : Known(q, view'[q])
    BY <2>2, RowFields DEF Known, Leadership!LastTermOrNone, RowTypeOK
  <2> QED
    BY <1>0, <2>3, <2>4, RowFields DEF RowTypeOK, rowVars, Known
<1>3. CASE Leadership!Reopen
  BY <1>0, <1>3, RowFields DEF Leadership!Reopen, RowTypeOK, rowVars, Known
<1> QED
  BY <1>1, <1>2, <1>3, Zenon DEF LeadershipStep

-----------------------------------------------------------------------------
(***************************************************************************)
(* One lemma for each conjunct of the invariant.                           *)
(***************************************************************************)

\* Steps of one operation that leave leadership and the row alone.
Quiet(o) ==
  \/ ReadToken(o) \/ AcquireRefused(o) \/ SendRenewal(o) \/ RenewalAnswered(o)
  \/ RenewalInterrupted(o) \/ Abandon(o) \/ Completes(o) \/ FinishFails(o)

\* Steps of one operation that write the row.
RowWriter(o) == Acquire(o) \/ RenewalCommits(o) \/ Finish(o)

\* Every step belongs to one of the groups the proofs below go through.
LEMMA NextCases ==
  ASSUME Next
  PROVE  \/ \E o \in Operation : Quiet(o) \/ RowWriter(o) \/ OperationWrites(o)
         \/ \E p \in Process : Crash(p)
         \/ Tick
         \/ Environment
  BY Zenon DEF Next, Quiet, RowWriter

\* Quiet steps leave the database alone.
LEMMA QuietFrame ==
  ASSUME NEW o \in Operation, Quiet(o)
  PROVE  UNCHANGED <<leadershipVars, rowVars, dead>>
  BY Zenon DEF Quiet, ReadToken, AcquireRefused, SendRenewal, RenewalAnswered, RenewalInterrupted,
         Abandon, Completes, FinishFails

\* What is left of a lease is a duration no longer than the lease.
LEMMA RemainingType ==
  ASSUME NEW s \in Nat
  PROVE  /\ RemainingLeaseDuration(s) \in Nat
         /\ RemainingLeaseDuration(s) <= 2 * (LeaseSeconds - 1)
  BY LeaseAssumption DEF RemainingLeaseDuration

\* Every step keeps every variable in its type.
LEMMA TypeStep ==
  ASSUME TypeOK, TermsKnown, [Next]_vars
  PROVE  TypeOK'
<1> USE OperationAssumption, LeaseAssumption DEF TypeOK
<1>1. ASSUME NEW o \in Operation, Quiet(o)
      PROVE  TypeOK'
  <2>1. RowTypeOK' /\ dead' \subseteq Process
    BY <1>1, QuietFrame, Zenon DEF leadershipVars, rowVars, RowTypeOK
  <2>2. RemainingLeaseDuration(since[o]) \in 0 .. 2 * LeaseSeconds
    BY RemainingType
  <2>3. view[ProcessOf[o]] \in Nat
    BY Zenon DEF RowTypeOK
  <2>4. CASE ReadToken(o)
    BY <2>1, <2>3, <2>4, Zenon DEF ReadToken
  <2>5. CASE AcquireRefused(o) \/ FinishFails(o)
    BY <2>1, <2>5, Zenon DEF AcquireRefused, FinishFails
  <2>6. CASE SendRenewal(o) \/ RenewalInterrupted(o)
    BY <2>1, <2>6 DEF SendRenewal, RenewalInterrupted
  <2>7. CASE RenewalAnswered(o)
    BY <2>1, <2>2, <2>7 DEF RenewalAnswered
  <2>8. CASE Abandon(o) \/ Completes(o)
    BY <2>1, <2>8 DEF Abandon, Completes
  <2> QED
    BY <1>1, <2>4, <2>5, <2>6, <2>7, <2>8, Zenon DEF Quiet
<1>2. ASSUME NEW o \in Operation, Acquire(o)
      PROVE  TypeOK'
  <2>1. RowTypeOK'
    BY <1>2, ClaimEffect, Zenon DEF Acquire, RowTypeOK, leadershipVars
  <2> QED
    BY <1>2, <2>1, RowFields DEF Acquire
<1>3. ASSUME NEW o \in Operation, RenewalCommits(o)
      PROVE  TypeOK'
  <2>1. RowTypeOK'
    BY <1>3, RenewEffect, Zenon DEF RenewalCommits, RowTypeOK, leadershipVars
  <2> QED
    BY <1>3, <2>1, Zenon DEF RenewalCommits
<1>4. ASSUME NEW o \in Operation, Finish(o)
      PROVE  TypeOK'
  <2>1. RowTypeOK'
    BY <1>4, FinishEffect, Zenon DEF Finish, RowTypeOK, leadershipVars
  <2> QED
    BY <1>4, <2>1, Zenon DEF Finish
<1>5. ASSUME NEW o \in Operation, OperationWrites(o)
      PROVE  TypeOK'
  BY <1>5, Zenon DEF OperationWrites, LeasedWrite, RowTypeOK, opVars
<1>6. ASSUME NEW p \in Process, Crash(p)
      PROVE  TypeOK'
  <2>1. RowTypeOK'
    BY <1>6, Zenon DEF Crash, RowTypeOK, rowVars
  <2> QED
    BY <1>6, <2>1 DEF Crash
<1>7. CASE Tick
  <2>1. RowTypeOK'
    BY <1>7, AgeEffect, Zenon DEF Tick, RowTypeOK, leadershipVars
  <2>2. since' \in [Operation -> 0 .. 2 * LeaseSeconds]
    BY <1>7 DEF Tick
  <2>3. deadline' \in [Operation -> 0 .. 2 * LeaseSeconds]
    BY <1>7 DEF Tick
  <2> QED
    BY <1>7, <2>1, <2>2, <2>3, Zenon DEF Tick
<1>8. CASE Environment
  <2>1. RowTypeOK'
    BY <1>8, LeadershipEffect, Zenon DEF Environment, TermsKnown
  <2> QED
    BY <1>8, <2>1, Zenon DEF Environment, opVars
<1>9. CASE UNCHANGED vars
  BY <1>9, Zenon DEF vars, leadershipVars, rowVars, opVars, RowTypeOK
<1> QED
  BY <1>1, <1>2, <1>3, <1>4, <1>5, <1>6, <1>7, <1>8, <1>9, NextCases, Zenon DEF RowWriter

\* Beliefs and tokens name terms of their own process; writes are never ahead.
LEMMA TermsStep ==
  ASSUME TypeOK, TermsKnown, [Next]_vars
  PROVE  TermsKnown'
<1> USE OperationAssumption
<1>0. /\ RowTypeOK /\ Len(terms) \in Nat /\ lastWrite \in Nat
      /\ view \in [Process -> Nat] /\ tok \in [Operation -> Nat]
  BY RowFields, Zenon DEF TypeOK, RowTypeOK
<1>1. ASSUME UNCHANGED <<terms, view, tok, lastWrite>>
      PROVE  TermsKnown'
  BY <1>1, Zenon DEF TermsKnown, Known
<1>2. ASSUME NEW o \in Operation, Quiet(o)
      PROVE  TermsKnown'
  <2>1. UNCHANGED <<terms, view, lastWrite>>
    BY <1>2, QuietFrame, Zenon DEF leadershipVars
  <2>2. tok' = tok \/ tok' = [tok EXCEPT ![o] = view[ProcessOf[o]]]
    BY <1>2, Zenon DEF Quiet, ReadToken, AcquireRefused, SendRenewal, RenewalAnswered,
                RenewalInterrupted, Abandon, Completes, FinishFails
  <2>3. ASSUME NEW q \in Operation
        PROVE  tok'[q] = tok[q] \/ tok'[q] = view[ProcessOf[q]]
    BY <1>0, <2>2, Zenon
  <2>4. ProcessOf \in [Operation -> Process]
    BY Zenon DEF OperationAssumption
  <2>5. ASSUME NEW q \in Operation
        PROVE  Known(ProcessOf[q], tok[q])'
    BY <2>1, <2>3, <2>4, Zenon DEF TermsKnown, Known
  <2> QED
    BY <2>1, <2>5, Zenon DEF TermsKnown, Known
<1>3. ASSUME NEW o \in Operation, RowWriter(o)
      PROVE  UNCHANGED <<terms, view, tok, lastWrite>>
  BY <1>3, Zenon DEF RowWriter, Acquire, RenewalCommits, Finish, leadershipVars
<1>4. ASSUME NEW o \in Operation, OperationWrites(o)
      PROVE  TermsKnown'
  BY <1>0, <1>4, Zenon DEF OperationWrites, LeasedWrite, opVars, TermsKnown, Known
<1>5. ASSUME NEW p \in Process, Crash(p)
      PROVE  TermsKnown'
  BY <1>0, <1>5 DEF Crash, TermsKnown, Known
<1>6. CASE Tick
  BY <1>1, <1>6, Zenon DEF Tick, leadershipVars
<1>7. CASE Environment
  <2>1. /\ lastWrite' = lastWrite
        /\ Len(terms') >= Len(terms)
        /\ \A t \in 1 .. Len(terms) : terms'[t] = terms[t]
        /\ \A p \in Process : Known(p, view[p])'
        /\ Len(terms') \in Nat
    <3>1. LeadershipStep(Process \ dead) /\ Process \ dead \in SUBSET Process
      BY <1>7, Zenon DEF Environment
    <3>2. /\ RowTypeOK' /\ lastWrite' = lastWrite
          /\ Len(terms') >= Len(terms)
          /\ \A t \in 1 .. Len(terms) : terms'[t] = terms[t]
          /\ \A p \in Process : Known(p, view[p])'
      BY <1>0, <3>1, LeadershipEffect, Zenon DEF TermsKnown
    <3>3. Len(terms') \in Nat
      BY <3>2 DEF RowTypeOK
    <3> QED
      BY <3>2, <3>3, Zenon
  <2>2. tok' = tok
    BY <1>7, Zenon DEF Environment, opVars
  <2>3. ASSUME NEW o \in Operation
        PROVE  Known(ProcessOf[o], tok[o])'
    BY <1>0, <2>1, <2>2 DEF TermsKnown, Known
  <2> QED
    BY <1>0, <2>1, <2>3 DEF TermsKnown
<1>8. CASE UNCHANGED vars
  BY <1>1, <1>8, Zenon DEF vars, leadershipVars, opVars
<1> QED
  BY <1>1, <1>2, <1>3, <1>4, <1>5, <1>6, <1>7, <1>8, NextCases, Zenon

\* The row shows the last lease, of a granted term.
LEMMA RowStep ==
  ASSUME TypeOK, TermsKnown, RowHistory, [Next]_vars
  PROVE  RowHistory'
<1>0. /\ RowTypeOK /\ Len(terms) \in Nat /\ Len(leases) \in Nat /\ lastLeased \in Nat
      /\ job.fencing_token \in Nat /\ tok \in [Operation -> Nat]
  BY RowFields, Zenon DEF TypeOK, RowTypeOK
<1>1. ASSUME UNCHANGED rowVars, Len(terms') \in Nat, Len(terms') >= Len(terms)
      PROVE  RowHistory'
  BY <1>0, <1>1 DEF RowHistory, rowVars
<1>2. ASSUME NEW o \in Operation, Quiet(o)
      PROVE  RowHistory'
  BY <1>0, <1>1, <1>2, QuietFrame DEF leadershipVars
<1>3. ASSUME NEW o \in Operation, Acquire(o)
      PROVE  RowHistory'
  <2>1. tok[o] <= Len(terms) /\ tok[o] \in Nat
    BY <1>0, Zenon DEF TermsKnown, Known
  <2>2. terms' = terms
    BY <1>3, Zenon DEF Acquire, leadershipVars
  <2> QED
    BY <1>0, <1>3, <2>1, <2>2, ClaimEffect DEF Acquire, RowHistory
<1>4. ASSUME NEW o \in Operation, RenewalCommits(o) \/ Finish(o)
      PROVE  RowHistory'
  <2>1. (RenewRow \/ FinishRow) /\ terms' = terms
    BY <1>4, Zenon DEF RenewalCommits, Finish, leadershipVars
  <2>2. /\ leases' = leases /\ lastLeased' = lastLeased
        /\ job'.lease_id = job.lease_id /\ job'.fencing_token = job.fencing_token
    BY <1>0, <2>1, RenewEffect, FinishEffect, Zenon
  <2> QED
    BY <2>1, <2>2, Zenon DEF RowHistory
<1>5. ASSUME NEW o \in Operation, OperationWrites(o)
      PROVE  RowHistory'
  <2>1. UNCHANGED <<terms, job, leases>> /\ lastLeased' = lease[o]
    BY <1>5, Zenon DEF OperationWrites, LeasedWrite
  <2>2. job.lease_id = lease[o]
    BY <1>5, Zenon DEF OperationWrites, Holds
  <2> QED
    BY <1>0, <2>1, <2>2 DEF RowHistory
<1>6. ASSUME NEW p \in Process, Crash(p)
      PROVE  RowHistory'
  BY <1>0, <1>1, <1>6 DEF Crash
<1>7. CASE Tick
  BY <1>0, <1>7, AgeEffect, Zenon DEF Tick, leadershipVars, RowHistory
<1>8. CASE Environment
  <2>1. LeadershipStep(Process \ dead) /\ Process \ dead \in SUBSET Process
    BY <1>8, Zenon DEF Environment
  <2>2. RowTypeOK' /\ UNCHANGED rowVars /\ Len(terms') >= Len(terms)
    BY <1>0, <2>1, LeadershipEffect, Zenon DEF TermsKnown
  <2> QED
    BY <1>1, <2>2 DEF RowTypeOK
<1>9. CASE UNCHANGED vars
  BY <1>0, <1>1, <1>9 DEF vars, leadershipVars
<1> QED
  BY <1>2, <1>3, <1>4, <1>5, <1>6, <1>7, <1>8, <1>9, NextCases, Zenon DEF RowWriter

\* A lease belongs to one operation, from its acquisition to its finish.
LEMMA OwnLeasesStep ==
  ASSUME TypeOK, RowHistory, OwnLeases, [Next]_vars
  PROVE  OwnLeases'
<1> USE LeaseAssumption
<1>0. /\ RowTypeOK /\ Len(leases) \in Nat
      /\ lease \in [Operation -> Nat] /\ deadline \in [Operation -> Nat]
      /\ op \in [Operation -> {"idle", "acquiring", "prepared", "running", "finishing"}]
      /\ renewal \in [Operation -> {"none", "sent", "committed"}]
      /\ since \in [Operation -> Nat]
  BY RowFields DEF TypeOK
<1>1. ASSUME UNCHANGED <<leases, lease, op, renewal, deadline>>
      PROVE  OwnLeases'
  BY <1>1, Zenon DEF OwnLeases, Has
<1>2. ASSUME NEW o \in Operation, Quiet(o)
      PROVE  OwnLeases'
  <2>1. leases' = leases /\ lease' = lease
    BY <1>2, QuietFrame, Zenon DEF rowVars, Quiet, ReadToken, AcquireRefused, SendRenewal,
       RenewalAnswered, RenewalInterrupted, Abandon, Completes, FinishFails
  <2>2. \A q \in Operation : Has(q)' => Has(q)
    BY <1>0, <1>2, Zenon DEF Has, OwnLeases, Quiet, ReadToken, AcquireRefused, SendRenewal,
       RenewalAnswered, RenewalInterrupted, Abandon, Completes, FinishFails
  <2>3. \A q \in Operation : renewal'[q] # "none" => op'[q] \in {"prepared", "running"}
    BY <1>0, <1>2, Zenon DEF OwnLeases, Quiet, ReadToken, AcquireRefused, SendRenewal,
       RenewalAnswered, RenewalInterrupted, Abandon, Completes, FinishFails
  <2>4. \A q \in Operation : deadline'[q] <= 2 * (LeaseSeconds - 1)
    <3>1. RemainingLeaseDuration(since[o]) <= 2 * (LeaseSeconds - 1)
      BY <1>0, RemainingType, Zenon
    <3>2. \/ deadline' = deadline
          \/ deadline' = [deadline EXCEPT ![o] = 0]
          \/ deadline' = [deadline EXCEPT ![o] = RemainingLeaseDuration(since[o])]
      BY <1>2, Zenon DEF Quiet, ReadToken, AcquireRefused, SendRenewal,
         RenewalAnswered, RenewalInterrupted, Abandon, Completes, FinishFails
    <3>3. 0 <= 2 * (LeaseSeconds - 1)
      OBVIOUS
    <3>4. \A q \in Operation : deadline[q] <= 2 * (LeaseSeconds - 1)
      BY Zenon DEF OwnLeases
    <3> QED
      BY <1>0, <3>1, <3>2, <3>3, <3>4, Zenon
  <2> QED
    BY <2>1, <2>2, <2>3, <2>4, Zenon DEF OwnLeases
<1>3. ASSUME NEW o \in Operation, Acquire(o)
      PROVE  OwnLeases'
  <2>1. /\ lease' = [lease EXCEPT ![o] = Len(leases) + 1]
        /\ op' = [op EXCEPT ![o] = "prepared"]
        /\ renewal' = renewal /\ deadline' = deadline /\ op[o] = "acquiring"
    BY <1>3, Zenon DEF Acquire
  <2>2. Len(leases') = Len(leases) + 1
    BY <1>0, <1>3, ClaimEffect, Zenon DEF Acquire, TypeOK
  <2> QED
    BY <1>0, <2>1, <2>2 DEF OwnLeases, Has
<1>4. ASSUME NEW o \in Operation, RenewalCommits(o)
      PROVE  OwnLeases'
  BY <1>0, <1>4, RenewEffect, Zenon DEF RenewalCommits, OwnLeases, Has
<1>5. ASSUME NEW o \in Operation, Finish(o)
      PROVE  OwnLeases'
  <2>1. /\ leases' = leases /\ lease' = lease /\ renewal' = renewal /\ deadline' = deadline
        /\ op' = [op EXCEPT ![o] = "idle"] /\ op[o] = "finishing"
    BY <1>0, <1>5, FinishEffect, Zenon DEF Finish
  <2>2. \A q \in Operation : Has(q)' => Has(q)
    BY <1>0, <2>1 DEF Has
  <2>3. \A q \in Operation : renewal'[q] # "none" => op'[q] \in {"prepared", "running"}
    BY <1>0, <2>1 DEF OwnLeases
  <2> QED BY <2>1, <2>2, <2>3, Zenon DEF OwnLeases
<1>6. ASSUME NEW o \in Operation, OperationWrites(o)
      PROVE  OwnLeases'
  BY <1>1, <1>6, Zenon DEF OperationWrites, LeasedWrite, opVars
<1>7. ASSUME NEW p \in Process, Crash(p)
      PROVE  OwnLeases'
  <2>1. leases' = leases /\ lease' = lease
    BY <1>7, Zenon DEF Crash, rowVars
  <2>2. \A q \in Operation : /\ Has(q)' => Has(q)
                             /\ renewal'[q] # "none" => op'[q] \in {"prepared", "running"}
                             /\ deadline'[q] <= 2 * (LeaseSeconds - 1)
    BY <1>0, <1>7 DEF Crash, Has, OwnLeases
  <2> QED
    BY <2>1, <2>2, Zenon DEF OwnLeases
<1>8. CASE Tick
  <2>1. UNCHANGED <<leases, lease, op, renewal>>
    BY <1>8, Zenon DEF Tick
  <2>2. \A q \in Operation : deadline'[q] <= deadline[q] /\ deadline'[q] \in Nat
    BY <1>0, <1>8 DEF Tick
  <2> QED
    BY <1>0, <2>1, <2>2 DEF OwnLeases, Has
<1>9. CASE Environment
  BY <1>1, <1>9, Zenon DEF Environment, LeadershipStep, rowVars, opVars
<1>10. CASE UNCHANGED vars
  BY <1>1, <1>10, Zenon DEF vars, rowVars, opVars
<1> QED
  BY <1>2, <1>3, <1>4, <1>5, <1>6, <1>7, <1>8, <1>9, <1>10, NextCases, Zenon DEF RowWriter

-----------------------------------------------------------------------------
(***************************************************************************)
(* With timely timers, an active operation of the newest term owns the row *)
(* and stops before the lease does.                                        *)
(***************************************************************************)

\* A claim in the newest term meets no active operation of that term.
LEMMA ClaimMeetsNobody ==
  ASSUME TypeOK, OwnLeases, Covered, NEW o \in Operation, Acquire(o),
         NEW q \in Operation, Active(q)
  PROVE  tok[q] # Len(terms)
<1> SUFFICES ASSUME tok[q] = Len(terms) PROVE FALSE
  OBVIOUS
<1>1. /\ job.lease_id \in Nat /\ job.fencing_token \in Nat /\ job.left \in Nat
      /\ deadline[q] \in Nat /\ since[q] \in Nat
  BY RowFields DEF TypeOK
<1>2. Has(q)
  BY Zenon DEF Active, Awaited, OwnLeases, Has
<1>3. job.lease_id = lease[q] /\ job.fencing_token = tok[q] /\ job.left > 0
  <2>1. CASE op[q] = "running"
    <3>1. CoveredFor(q, deadline[q])
      BY <2>1, Zenon DEF Covered
    <3> QED
      BY <1>1, <3>1 DEF CoveredFor
  <2>2. CASE Awaited(q)
    <3>1. CoveredFor(q, RemainingLeaseDuration(since[q]))
      BY <2>2, Zenon DEF Covered
    <3>2. RemainingLeaseDuration(since[q]) \in Nat
      BY <1>1, RemainingType, Zenon
    <3> QED
      BY <1>1, <3>1, <3>2 DEF CoveredFor
  <2> QED
    BY <2>1, <2>2, Zenon DEF Active
<1>4. lease[q] # 0
  BY <1>2, Zenon DEF OwnLeases
<1>5. tok[o] = Len(terms)
  BY Zenon DEF Acquire, CanClaim, Leadership!Fence
<1>6. ClaimMode(tok[o]) = "Fresh"
  BY Zenon DEF Acquire, CanClaim
<1> QED
  BY <1>1, <1>3, <1>4, <1>5, <1>6 DEF ClaimMode

\* Whoever writes the row of the newest term is its only active operation there.
LEMMA HolderIsAlone ==
  ASSUME TypeOK, OwnLeases, Covered, NEW o \in Operation, Has(o),
         Holds(ProcessOf[o], tok[o], lease[o]),
         NEW q \in Operation, Active(q), tok[q] = Len(terms)
  PROVE  q = o
<1>1. Has(q)
  BY Zenon DEF Active, Awaited, OwnLeases, Has
<1>2. job.lease_id = lease[q]
  BY Zenon DEF Active, Covered, CoveredFor
<1>3. job.lease_id = lease[o]
  BY Zenon DEF Holds
<1> QED
  BY <1>1, <1>2, <1>3, Zenon DEF OwnLeases

\* An active operation of the newest term keeps the row for longer than its deadline.
LEMMA CoveredStep ==
  ASSUME TypeOK, TermsKnown, RowHistory, OwnLeases, Covered, TimelyTimers, [Next]_vars
  PROVE  Covered'
<1> USE LeaseAssumption
<1>0. /\ RowTypeOK /\ Len(terms) \in Nat /\ job.left \in Nat
      /\ lease \in [Operation -> Nat] /\ deadline \in [Operation -> Nat]
      /\ tok \in [Operation -> Nat] /\ since \in [Operation -> Nat]
      /\ op \in [Operation -> {"idle", "acquiring", "prepared", "running", "finishing"}]
      /\ renewal \in [Operation -> {"none", "sent", "committed"}]
  BY RowFields DEF TypeOK, RowTypeOK
<1>1. ASSUME UNCHANGED <<terms, job, op, tok, lease, renewal, since, deadline>>
      PROVE  Covered'
  BY <1>1, Zenon DEF Covered, CoveredFor, Awaited
<1>2. ASSUME NEW o \in Operation, Quiet(o), NEW q \in Operation
      PROVE  /\ op'[q] = "running" => CoveredFor(q, deadline[q])'
             /\ Awaited(q)' => CoveredFor(q, RemainingLeaseDuration(since[q]))'
  <2>1. UNCHANGED <<terms, job, lease>>
    BY <1>2, QuietFrame, Zenon DEF leadershipVars, rowVars, Quiet, ReadToken, AcquireRefused,
       SendRenewal, RenewalAnswered, RenewalInterrupted, Abandon, Completes, FinishFails
  <2>2. CASE q # o
    <3>1. /\ op'[q] = op[q] /\ tok'[q] = tok[q] /\ renewal'[q] = renewal[q]
          /\ since'[q] = since[q] /\ deadline'[q] = deadline[q]
      BY <1>0, <1>2, <2>2, Zenon DEF Quiet, ReadToken, AcquireRefused, SendRenewal, RenewalAnswered,
         RenewalInterrupted, Abandon, Completes, FinishFails
    <3> QED
      BY <2>1, <3>1, Zenon DEF Covered, CoveredFor, Awaited
  <2>3. CASE q = o /\ (ReadToken(o) \/ AcquireRefused(o) \/ Abandon(o) \/ Completes(o)
                      \/ FinishFails(o))
    <3>1. op'[o] # "running" /\ renewal'[o] # "committed"
      BY <1>0, <2>3, Zenon DEF ReadToken, AcquireRefused, Abandon, Completes, FinishFails, OwnLeases
    <3> QED
      BY <2>3, <3>1, Zenon DEF Awaited
  <2>4. CASE q = o /\ (SendRenewal(o) \/ RenewalInterrupted(o))
    <3>1. /\ op'[o] = op[o] /\ tok'[o] = tok[o] /\ deadline'[o] = deadline[o]
          /\ renewal'[o] # "committed"
      BY <1>0, <2>4, Zenon DEF SendRenewal, RenewalInterrupted
    <3> QED
      BY <2>1, <2>4, <3>1, Zenon DEF Covered, CoveredFor, Awaited
  <2>5. CASE q = o /\ RenewalAnswered(o)
    <3>1. /\ Awaited(o) /\ tok'[o] = tok[o] /\ renewal'[o] # "committed"
          /\ deadline'[o] = RemainingLeaseDuration(since[o])
      BY <1>0, <2>5, Zenon DEF RenewalAnswered, Awaited
    <3> QED
      BY <2>1, <2>5, <3>1, Zenon DEF Covered, CoveredFor, Awaited
  <2> QED
    BY <1>2, <2>2, <2>3, <2>4, <2>5, Zenon DEF Quiet
<1>3. ASSUME NEW o \in Operation, Acquire(o), NEW q \in Operation
      PROVE  /\ op'[q] = "running" => CoveredFor(q, deadline[q])'
             /\ Awaited(q)' => CoveredFor(q, RemainingLeaseDuration(since[q]))'
  <2>1. /\ op' = [op EXCEPT ![o] = "prepared"] /\ op[o] = "acquiring"
        /\ UNCHANGED <<terms, tok, renewal, since, deadline>>
    BY <1>3, Zenon DEF Acquire, leadershipVars
  <2>2. Active(q)' => Active(q)
    BY <1>0, <2>1, Zenon DEF Active, Awaited
  <2>3. Active(q) => tok[q] # Len(terms)
    BY <1>3, ClaimMeetsNobody, Zenon
  <2> QED
    BY <2>1, <2>2, <2>3, Zenon DEF Active, CoveredFor
<1>4. ASSUME NEW o \in Operation, RenewalCommits(o), NEW q \in Operation
      PROVE  /\ op'[q] = "running" => CoveredFor(q, deadline[q])'
             /\ Awaited(q)' => CoveredFor(q, RemainingLeaseDuration(since[q]))'
  <2>1. /\ renewal' = [renewal EXCEPT ![o] = "committed"]
        /\ UNCHANGED <<terms, op, tok, lease, since, deadline>>
    BY <1>4, Zenon DEF RenewalCommits, leadershipVars
  <2>2. /\ job'.lease_id = job.lease_id /\ job'.fencing_token = job.fencing_token
        /\ job'.left > 2 * (LeaseSeconds - 1) /\ job'.left \in Nat
    BY <1>0, <1>4, RenewEffect, Zenon DEF RenewalCommits, JobRow
  <2>3. Has(o) /\ Holds(ProcessOf[o], tok[o], lease[o])
    BY <1>4, Zenon DEF RenewalCommits, OwnLeases, Has
  <2>4. CASE q = o
    <3>1. job.lease_id = lease[o] /\ job.fencing_token = tok[o]
      BY <2>3, Zenon DEF Holds
    <3>2. /\ deadline[o] <= 2 * (LeaseSeconds - 1) /\ deadline[o] \in Nat
          /\ RemainingLeaseDuration(since[o]) <= 2 * (LeaseSeconds - 1)
          /\ RemainingLeaseDuration(since[o]) \in Nat
      BY <1>0, RemainingType, Zenon DEF OwnLeases
    <3>3. RemainingLeaseDuration(since[o])' = RemainingLeaseDuration(since[o])
      BY <2>1, Zenon
    <3> QED
      BY <2>1, <2>2, <2>4, <3>1, <3>2, <3>3 DEF CoveredFor
  <2>5. CASE q # o
    <3>1. Active(q) => tok[q] # Len(terms)
      BY <2>3, <2>5, HolderIsAlone, Zenon
    <3>2. Active(q)' => Active(q)
      BY <1>0, <2>1, <2>5, Zenon DEF Active, Awaited
    <3> QED
      BY <2>1, <3>1, <3>2, Zenon DEF Active, CoveredFor
  <2> QED
    BY <2>4, <2>5, Zenon
<1>5. ASSUME NEW o \in Operation, Finish(o), NEW q \in Operation
      PROVE  /\ op'[q] = "running" => CoveredFor(q, deadline[q])'
             /\ Awaited(q)' => CoveredFor(q, RemainingLeaseDuration(since[q]))'
  <2>1. /\ op[o] = "finishing" /\ op' = [op EXCEPT ![o] = "idle"]
        /\ UNCHANGED <<terms, tok, lease, renewal, since, deadline>>
    BY <1>5, Zenon DEF Finish, leadershipVars
  <2>2. Has(o) /\ Holds(ProcessOf[o], tok[o], lease[o])
    BY <1>5, Zenon DEF Finish, Has
  <2>3. Active(q)' => Active(q) /\ q # o
    BY <1>0, <2>1, Zenon DEF Active, Awaited, OwnLeases
  <2>4. Active(q) /\ q # o => tok[q] # Len(terms)
    BY <2>2, HolderIsAlone, Zenon
  <2> QED
    BY <2>1, <2>3, <2>4, Zenon DEF Active, CoveredFor
<1>6. ASSUME NEW o \in Operation, OperationWrites(o)
      PROVE  Covered'
  BY <1>1, <1>6, Zenon DEF OperationWrites, LeasedWrite, opVars
<1>7. ASSUME NEW p \in Process, Crash(p)
      PROVE  Covered'
  <2>1. UNCHANGED <<terms, job, tok, lease>>
    BY <1>7, Zenon DEF Crash, rowVars
  <2>2. ASSUME NEW q \in Operation, Active(q)'
        PROVE  /\ op'[q] = op[q] /\ renewal'[q] = renewal[q]
               /\ since'[q] = since[q] /\ deadline'[q] = deadline[q]
    BY <1>0, <1>7, <2>2, Zenon DEF Crash, Active, Awaited
  <2> QED
    BY <2>1, <2>2, Zenon DEF Covered, CoveredFor, Active, Awaited
<1>8. ASSUME Tick, NEW q \in Operation
      PROVE  /\ op'[q] = "running" => CoveredFor(q, deadline[q])'
             /\ Awaited(q)' => CoveredFor(q, RemainingLeaseDuration(since[q]))'
  <2>1. UNCHANGED <<terms, op, tok, lease, renewal>>
    BY <1>8, Zenon DEF Tick, leadershipVars
  <2>2. /\ job'.lease_id = job.lease_id /\ job'.fencing_token = job.fencing_token
        /\ job'.left = IF job.left = 0 THEN 0 ELSE job.left - 1
    BY <1>0, <1>8, AgeEffect, Zenon DEF Tick
  <2>3. ASSUME Awaited(q)'
        PROVE  CoveredFor(q, RemainingLeaseDuration(since[q]))'
    <3>1. renewal[q] = "committed" /\ RemainingLeaseDuration(since'[q]) > 0
      BY <2>1, <2>3, Zenon DEF Awaited
    <3>2. since'[q] = IF since[q] < 2 * LeaseSeconds THEN since[q] + 1 ELSE since[q]
      BY <1>0, <1>8, <3>1, Zenon DEF Tick
    <3>3. /\ RemainingLeaseDuration(since[q]) = RemainingLeaseDuration(since'[q]) + 1
          /\ RemainingLeaseDuration(since'[q]) \in Nat
      BY <1>0, <3>1, <3>2 DEF RemainingLeaseDuration
    <3>4. CoveredFor(q, RemainingLeaseDuration(since[q]))
      BY <3>1, <3>3 DEF Covered, Awaited
    <3> QED
      BY <1>0, <2>1, <2>2, <3>3, <3>4 DEF CoveredFor
  <2>4. CASE op'[q] = "running"
    <3>1. op[q] = "running" /\ deadline[q] > 0 /\ deadline'[q] = deadline[q] - 1
      BY <1>0, <1>8, <2>1, <2>4 DEF Tick
    <3>2. CoveredFor(q, deadline[q])
      BY <3>1, Zenon DEF Covered
    <3>3. deadline[q] \in Nat
      BY <1>0, Zenon
    <3>4. tok[q] = Len(terms) => job'.left > deadline'[q]
      BY <1>0, <2>2, <3>1, <3>2, <3>3 DEF CoveredFor
    <3>5. tok[q] = Len(terms) => job.lease_id = lease[q] /\ job.fencing_token = tok[q]
      BY <3>2, Zenon DEF CoveredFor
    <3>6. CoveredFor(q, deadline[q])'
      BY <2>1, <2>2, <3>4, <3>5, Zenon DEF CoveredFor
    <3> QED
      BY <2>3, <3>6, Zenon
  <2> QED
    BY <2>3, <2>4, Zenon
<1>9. CASE Environment
  <2>1. LeadershipStep(Process \ dead) /\ Process \ dead \in SUBSET Process
        /\ UNCHANGED opVars
    BY <1>9, Zenon DEF Environment
  <2>2. RowTypeOK' /\ UNCHANGED rowVars /\ Len(terms') >= Len(terms)
    BY <1>0, <2>1, LeadershipEffect, Zenon DEF TermsKnown
  <2>3. Len(terms') \in Nat
    BY <2>2 DEF RowTypeOK
  <2>4. \A q \in Operation : tok[q] = Len(terms') => tok[q] = Len(terms)
    BY <1>0, <2>2, <2>3 DEF TermsKnown, Known
  <2> QED
    BY <2>1, <2>2, <2>4, Zenon DEF Covered, CoveredFor, Awaited, opVars, rowVars
<1>10. CASE UNCHANGED vars
  BY <1>1, <1>10, Zenon DEF vars, leadershipVars, rowVars, opVars
<1> QED
  <2>1. ASSUME NEW o \in Operation, Quiet(o) \/ RowWriter(o)
        PROVE  Covered'
    BY <1>2, <1>3, <1>4, <1>5, <2>1, Zenon DEF RowWriter, Covered
  <2>2. CASE Tick
    BY <1>8, <2>2, Zenon DEF Covered
  <2> QED
    BY <1>6, <1>7, <1>9, <1>10, <2>1, <2>2, NextCases, Zenon

\* An operation becomes active only by a renewal, which needs the row.
LEMMA ExclusiveStep ==
  ASSUME TypeOK, TermsKnown, RowHistory, OwnLeases, Covered, Exclusive, TimelyTimers,
         [Next]_vars
  PROVE  Exclusive'
<1>0. /\ since \in [Operation -> Nat] /\ tok \in [Operation -> Nat]
      /\ op \in [Operation -> {"idle", "acquiring", "prepared", "running", "finishing"}]
      /\ renewal \in [Operation -> {"none", "sent", "committed"}]
  BY DEF TypeOK
<1>1. ASSUME \A q \in Operation : Active(q)' => Active(q) /\ tok'[q] = tok[q]
      PROVE  Exclusive'
  BY <1>1, Zenon DEF Exclusive
<1>2. ASSUME NEW o \in Operation, Quiet(o)
      PROVE  Exclusive'
  <2>1. ASSUME NEW q \in Operation, q # o
        PROVE  /\ op'[q] = op[q] /\ tok'[q] = tok[q] /\ renewal'[q] = renewal[q]
               /\ since'[q] = since[q]
    BY <1>0, <1>2, <2>1, Zenon DEF Quiet, ReadToken, AcquireRefused, SendRenewal, RenewalAnswered,
       RenewalInterrupted, Abandon, Completes, FinishFails
  <2>2. Active(o)' => Active(o) /\ tok'[o] = tok[o]
    BY <1>0, <1>2, Zenon DEF Active, Awaited, OwnLeases, Quiet, ReadToken, AcquireRefused, SendRenewal,
       RenewalAnswered, RenewalInterrupted, Abandon, Completes, FinishFails
  <2> QED
    BY <1>1, <2>1, <2>2, Zenon DEF Active, Awaited
<1>3. ASSUME NEW o \in Operation, Acquire(o) \/ Finish(o)
      PROVE  Exclusive'
  <2>1. /\ UNCHANGED <<tok, renewal, since>>
        /\ \A q \in Operation : op'[q] = "running" => op[q] = "running"
    BY <1>0, <1>3, Zenon DEF Acquire, Finish
  <2> QED
    BY <1>1, <2>1, Zenon DEF Active, Awaited
<1>4. ASSUME NEW o \in Operation, RenewalCommits(o)
      PROVE  Exclusive'
  <2>1. /\ renewal' = [renewal EXCEPT ![o] = "committed"]
        /\ UNCHANGED <<op, tok, since>>
    BY <1>4, Zenon DEF RenewalCommits
  <2>2. Has(o) /\ Holds(ProcessOf[o], tok[o], lease[o]) /\ tok[o] = Len(terms)
    BY <1>4, Zenon DEF RenewalCommits, OwnLeases, Has, Holds, Leadership!Fence
  <2>3. ASSUME NEW q \in Operation, q # o, Active(q)'
        PROVE  Active(q) /\ tok[q] # tok[o]
    <3>1. Active(q)
      BY <1>0, <2>1, <2>3, Zenon DEF Active, Awaited
    <3> QED
      BY <2>2, <2>3, <3>1, HolderIsAlone, Zenon
  <2> QED
    BY <2>1, <2>3, Zenon DEF Exclusive
<1>5. ASSUME NEW o \in Operation, OperationWrites(o)
      PROVE  Exclusive'
  BY <1>1, <1>5, Zenon DEF OperationWrites, opVars, Active, Awaited
<1>6. ASSUME NEW p \in Process, Crash(p)
      PROVE  Exclusive'
  <2>1. ASSUME NEW q \in Operation, Active(q)'
        PROVE  Active(q) /\ tok'[q] = tok[q]
    BY <1>0, <1>6, <2>1, Zenon DEF Crash, Active, Awaited
  <2> QED
    BY <1>1, <2>1, Zenon
<1>7. CASE Tick
  <2>1. UNCHANGED <<op, tok, renewal>>
    BY <1>7, Zenon DEF Tick
  <2>2. ASSUME NEW q \in Operation, renewal[q] = "committed",
               RemainingLeaseDuration(since'[q]) > 0
        PROVE  RemainingLeaseDuration(since[q]) > 0
    <3>1. since'[q] = IF since[q] < 2 * LeaseSeconds THEN since[q] + 1 ELSE since[q]
      BY <1>0, <1>7, <2>2, Zenon DEF Tick
    <3> QED
      BY <1>0, <2>2, <3>1, LeaseAssumption DEF RemainingLeaseDuration
  <2> QED
    BY <1>1, <2>1, <2>2, Zenon DEF Active, Awaited
<1>8. CASE Environment
  BY <1>1, <1>8, Zenon DEF Environment, opVars, Active, Awaited
<1>9. CASE UNCHANGED vars
  BY <1>1, <1>9, Zenon DEF vars, opVars, Active, Awaited
<1> QED
  BY <1>2, <1>3, <1>4, <1>5, <1>6, <1>7, <1>8, <1>9, NextCases, Zenon DEF RowWriter

-----------------------------------------------------------------------------
(***************************************************************************)
(* Theorems.                                                               *)
(***************************************************************************)

\* IInv is an invariant of the operations, their renewals and their finishes.
THEOREM Inductive == Spec => []IInv
<1>1. Init => IInv
  <2> SUFFICES ASSUME Init PROVE IInv
    OBVIOUS
  <2> USE LeaseAssumption DEF Init, RowInit, Leadership!Init, NoJob
  <2>1. TypeOK
    <3>1. job \in JobRow /\ leases \in Seq(Nat) /\ terms \in Seq(Process)
      BY DEF JobRow
    <3>2. view \in [Process -> Nat] /\ open \in BOOLEAN /\ lastWrite \in Nat /\ lastLeased \in Nat
      OBVIOUS
    <3>3. since \in [Operation -> 0 .. 2 * LeaseSeconds] /\ deadline \in [Operation -> 0 .. 2 * LeaseSeconds]
      OBVIOUS
    <3> QED
      BY <3>1, <3>2, <3>3, Zenon DEF TypeOK, RowTypeOK
  <2>2. TermsKnown
    BY DEF TermsKnown, Known
  <2>3. RowHistory
    BY DEF RowHistory
  <2>4. OwnLeases
    BY DEF OwnLeases, Has
  <2>5. Covered /\ Exclusive
    BY Zenon DEF Covered, Exclusive, Active, Awaited
  <2> QED
    BY <2>1, <2>2, <2>3, <2>4, <2>5, Zenon DEF IInv
<1>2. IInv /\ [Next]_vars => IInv'
  <2> SUFFICES ASSUME IInv, [Next]_vars PROVE IInv'
    OBVIOUS
  <2>1. TypeOK /\ TermsKnown /\ RowHistory /\ OwnLeases
    BY Zenon DEF IInv
  <2>2. TypeOK' /\ TermsKnown' /\ RowHistory' /\ OwnLeases'
    BY <2>1, TypeStep, TermsStep, RowStep, OwnLeasesStep, Zenon
  <2>3. TimelyTimers => Covered' /\ Exclusive'
    BY <2>1, CoveredStep, ExclusiveStep, Zenon DEF IInv
  <2> QED
    BY <2>2, <2>3, Zenon DEF IInv
<1> QED
  BY <1>1, <1>2, PTL DEF Spec

\* Every variable keeps its type through job_execution::run and its callers.
THEOREM TypeCorrect == Spec => []TypeOK
<1>1. IInv => TypeOK
  BY Zenon DEF IInv
<1> QED
  BY <1>1, Inductive, PTL

\* With timely timers, the row of a running operation of the newest term outlives
\* the deadline that run computed from started and remaining_lease_duration.
THEOREM LeaseCoversOperation ==
  ASSUME TimelyTimers
  PROVE  Spec => []CoveredByLease
<1>1. IInv => CoveredByLease
  BY Zenon DEF IInv, Covered, CoveredFor, CoveredByLease
<1> QED
  BY <1>1, Inductive, PTL

\* With timely timers, no two operations on one job key run in the same term.
THEOREM ExclusiveOperations ==
  ASSUME TimelyTimers
  PROVE  Spec => []ExclusiveInTerm
<1>1. IInv => ExclusiveInTerm
  BY Zenon DEF IInv, Exclusive, Active, ExclusiveInTerm
<1> QED
  BY <1>1, Inductive, PTL

\* Whatever the timers do, assert_*_transaction_lease keeps committed results in
\* the order of the leases.
THEOREM WriteOrder == Spec => LeasedWritesInOrder
<1>1. ASSUME IInv, [Next]_vars
      PROVE  [WriteFollowsLeaseOrder]_vars
  <2>0. /\ Len(leases) \in Nat /\ lastLeased \in Nat /\ lastWrite \in Nat
        /\ Len(terms) \in Nat
    BY <1>1, RowFields, Zenon DEF IInv, TypeOK, RowTypeOK
  <2>1. ASSUME UNCHANGED <<lastLeased, lastWrite>>
        PROVE  WriteFollowsLeaseOrder
    BY <2>0, <2>1 DEF WriteFollowsLeaseOrder
  <2>2. ASSUME NEW o \in Operation, Quiet(o) \/ RowWriter(o)
        PROVE  UNCHANGED <<lastLeased, lastWrite>>
    BY <2>2, QuietFrame, Zenon DEF leadershipVars, rowVars, RowWriter, Acquire, RenewalCommits, Finish,
       ClaimRow, RenewRow, FinishRow
  <2>3. ASSUME NEW o \in Operation, OperationWrites(o)
        PROVE  WriteFollowsLeaseOrder
    <3>1. /\ lastLeased' = lease[o] /\ lastWrite' = tok[o]
          /\ lease[o] = job.lease_id /\ tok[o] = Len(terms)
      BY <2>3, Zenon DEF OperationWrites, LeasedWrite, Holds, Leadership!Fence
    <3> QED
      BY <1>1, <2>0, <3>1, Zenon DEF IInv, RowHistory, TermsKnown, WriteFollowsLeaseOrder
  <2>4. ASSUME NEW p \in Process, Crash(p)
        PROVE  UNCHANGED <<lastLeased, lastWrite>>
    BY <2>4, Zenon DEF Crash, rowVars
  <2>5. CASE Tick
    BY <2>1, <2>5, Zenon DEF Tick, leadershipVars
  <2>6. CASE Environment
    BY <2>1, <2>6, Zenon DEF Environment, LeadershipStep, rowVars, Leadership!Grant,
       Leadership!Believe, Leadership!Reopen
  <2> QED
    BY <1>1, <2>1, <2>2, <2>3, <2>4, <2>5, <2>6, NextCases, Zenon
<1> QED
  BY <1>1, Inductive, PTL DEF Spec, LeasedWritesInOrder

-----------------------------------------------------------------------------
(* The supervisor of a job *)

IsTermOf(p, t) == t \in 1 .. Len(terms) /\ terms[t] = p

\* A process believes in a term of its own, or in none.
BeliefIsOwn == \A p \in Process : view[p] # 0 => IsTermOf(p, view[p])

\* The row is the newest lease, under the token it was acquired with.
RowIsNewest ==
  /\ job.lease_id = Len(leases)
  /\ job.lease_id # 0 => leases[job.lease_id] = job.fencing_token
  /\ job.fencing_token <= Len(terms)

\* A supervisor that holds a lease holds one of its own term; the lease is the
\* row's, or a newer term has replaced it.
Holding == {"acquired", "running", "finishing", "closing"}
HoldsOwnLease(p) ==
  /\ sup[p] = "acquiring" => IsTermOf(p, supTok[p])
  /\ sup[p] \in Holding =>
       /\ IsTermOf(p, supTok[p])
       /\ supLease[p] \in 1 .. Len(leases) /\ leases[supLease[p]] = supTok[p]
       /\ supLease[p] = job.lease_id \/ supTok[p] < job.fencing_token

\* A finished lease was acquired, is over, and no worker runs under it.
FinishedIsOver ==
  /\ finished \subseteq 1 .. Len(leases)
  /\ \A p \in Process : sup[p] \in {"acquired", "running"} => supLease[p] \notin finished
  /\ job.lease_id \in finished => job.left = 0

\* The last writes belong to leases and terms that have been.
WritesAreOld == lastLeased <= job.lease_id /\ lastWrite <= Len(terms)

SupIInv ==
  /\ SupTypeOK
  /\ BeliefIsOwn
  /\ RowIsNewest
  /\ \A p \in Process : HoldsOwnLease(p)
  /\ FinishedIsOver
  /\ WritesAreOld

-----------------------------------------------------------------------------
\* the types of the variables, one by one
LEMMA Fields ==
  ASSUME SupTypeOK
  PROVE  /\ terms \in Seq(Process) /\ Len(terms) \in Nat /\ view \in [Process -> Nat]
         /\ leases \in Seq(Nat) /\ Len(leases) \in Nat
         /\ job \in JobRow /\ job.lease_id \in Nat /\ job.fencing_token \in Nat /\ job.left \in Nat
         /\ sup \in [Process -> SupState] /\ supTok \in [Process -> Nat] /\ supLease \in [Process -> Nat]
         /\ lastLeased \in Nat /\ lastWrite \in Nat /\ open \in BOOLEAN /\ finished \subseteq Nat
<1>1. job \in JobRow
  BY Zenon DEF SupTypeOK, RowTypeOK
<1>2. job.lease_id \in Nat /\ job.fencing_token \in Nat /\ job.left \in Nat
  BY <1>1, Zenon DEF JobRow
<1> QED
  BY <1>1, <1>2 DEF SupTypeOK, RowTypeOK

\* Terms are only appended, so a term stays its owner's.
LEMMA TermsGrow ==
  ASSUME SupTypeOK, NEW q \in Process, terms' = terms \/ terms' = Append(terms, q)
  PROVE  /\ terms' \in Seq(Process) /\ Len(terms') \in Nat /\ Len(terms') >= Len(terms)
         /\ \A p, t : IsTermOf(p, t) => IsTermOf(p, t)'
<1>1. terms \in Seq(Process) /\ Len(terms) \in Nat
  BY Fields, Zenon
<1>2. CASE terms' = terms
  BY <1>1, <1>2 DEF IsTermOf
<1>3. CASE terms' = Append(terms, q)
  <2>1. /\ terms' \in Seq(Process) /\ Len(terms') = Len(terms) + 1
        /\ \A u \in 1 .. Len(terms) : terms'[u] = terms[u]
    BY <1>1, <1>3
  <2> QED BY <1>1, <2>1 DEF IsTermOf
<1> QED BY <1>2, <1>3, Zenon

\* the invariant holds before the first term
LEMMA InitIInv == SupInit => SupIInv
<1> SUFFICES ASSUME SupInit PROVE SupIInv
  OBVIOUS
<1>1. /\ terms \in Seq(Process) /\ Len(terms) = 0 /\ leases \in Seq(Nat) /\ Len(leases) = 0
  <2>1. <<>> \in Seq(Process) /\ <<>> \in Seq(Nat) /\ Len(<<>>) = 0
    OBVIOUS
  <2> QED BY <2>1, Zenon DEF SupInit, RowInit, Leadership!Init
<1>2. /\ open = FALSE /\ lastWrite = 0 /\ view = [p \in Process |-> 0]
      /\ job = NoJob /\ lastLeased = 0
      /\ sup = [p \in Process |-> "waiting"] /\ supTok = [p \in Process |-> 0]
      /\ supLease = [p \in Process |-> 0] /\ finished = {}
  BY Zenon DEF SupInit, RowInit, Leadership!Init
<1>3. job \in JobRow /\ job.lease_id = 0 /\ job.fencing_token = 0 /\ job.left = 0
  BY <1>2, Zenon DEF NoJob, JobRow
<1>4. SupTypeOK
  BY <1>1, <1>2, <1>3, Zenon DEF SupTypeOK, RowTypeOK, SupState
<1>5. BeliefIsOwn
  BY <1>2, Zenon DEF BeliefIsOwn
<1>6. RowIsNewest /\ WritesAreOld
  BY <1>1, <1>2, <1>3 DEF RowIsNewest, WritesAreOld
<1>7. \A p \in Process : HoldsOwnLease(p)
  BY <1>2, Zenon DEF HoldsOwnLease, Holding
<1>8. FinishedIsOver
  BY <1>2, Zenon DEF FinishedIsOver
<1> QED
  BY <1>4, <1>5, <1>6, <1>7, <1>8, Zenon DEF SupIInv

-----------------------------------------------------------------------------
\* A supervisor that only moves, and takes up no lease, keeps the invariant.
LEMMA MoveStep ==
  ASSUME SupIInv, NEW p \in Process, NEW s \in SupState, Go(p, s),
         UNCHANGED <<leadershipVars, rowVars, supTok, supLease, finished>>,
         s # "acquiring",
         s \in Holding => sup[p] \in Holding,
         s \in {"acquired", "running"} => sup[p] \in {"acquired", "running"}
  PROVE  SupIInv'
<1>1. /\ sup \in [Process -> SupState] /\ sup' \in [Process -> SupState]
      /\ sup'[p] = s /\ \A q \in Process : q # p => sup'[q] = sup[q]
  BY Fields, Zenon DEF SupIInv, Go
<1>2. /\ terms' = terms /\ open' = open /\ view' = view /\ lastWrite' = lastWrite
      /\ job' = job /\ leases' = leases /\ lastLeased' = lastLeased
      /\ supTok' = supTok /\ supLease' = supLease /\ finished' = finished
  BY Zenon DEF leadershipVars, rowVars
<1>3. SupTypeOK'
  BY <1>1, <1>2, Zenon DEF SupIInv, SupTypeOK, RowTypeOK
<1>4. BeliefIsOwn' /\ RowIsNewest' /\ WritesAreOld'
  BY <1>2, Zenon DEF SupIInv, BeliefIsOwn, RowIsNewest, WritesAreOld, IsTermOf
<1>5. ASSUME NEW q \in Process PROVE HoldsOwnLease(q)'
  <2>1. HoldsOwnLease(q)
    BY Zenon DEF SupIInv
  <2>2. /\ sup'[q] # "acquiring" \/ sup'[q] = sup[q]
        /\ sup'[q] \in Holding => sup[q] \in Holding
    BY <1>1, Zenon
  <2> QED BY <1>2, <2>1, <2>2, Zenon DEF HoldsOwnLease, IsTermOf
<1>6. FinishedIsOver'
  <2>1. \A q \in Process :
          sup'[q] \in {"acquired", "running"} => sup[q] \in {"acquired", "running"}
    BY <1>1, Zenon
  <2> QED BY <1>2, <2>1, Zenon DEF SupIInv, FinishedIsOver
<1> QED
  BY <1>3, <1>4, <1>5, <1>6, Zenon DEF SupIInv

\* the steps of a supervisor that leave the job row alone keep it
LEMMA MovesStep ==
  ASSUME SupIInv, NEW p \in Process,
         \/ SupAcquireRefused(p) \/ AcquireInterrupted(p) \/ StartWorker(p) \/ RenewalFails(p)
         \/ LoseLeadership(p) \/ WorkerExits(p) \/ SupFinishFails(p) \/ Shutdown(p)
  PROVE  SupIInv'
<1>1. UNCHANGED <<leadershipVars, rowVars, supTok, supLease, finished>>
  BY Zenon DEF SupAcquireRefused, AcquireInterrupted, StartWorker, RenewalFails, LoseLeadership,
     WorkerExits, SupFinishFails, Shutdown
<1>2. PICK s \in {"waiting", "stopped"} \cup Holding :
        /\ Go(p, s)
        /\ s \in Holding => sup[p] \in Holding
        /\ s \in {"acquired", "running"} => sup[p] \in {"acquired", "running"}
  <2> USE DEF Holding
  <2>1. CASE SupAcquireRefused(p) \/ AcquireInterrupted(p) \/ RenewalFails(p) \/ LoseLeadership(p)
    BY <2>1 DEF SupAcquireRefused, AcquireInterrupted, RenewalFails, LoseLeadership
  <2>2. CASE StartWorker(p)
    BY <2>2, Zenon DEF StartWorker
  <2>3. CASE WorkerExits(p)
    BY <2>3, Zenon DEF WorkerExits
  <2>4. CASE SupFinishFails(p)
    BY <2>4 DEF SupFinishFails, AfterFinish
  <2>5. CASE Shutdown(p)
    BY <2>5 DEF Shutdown
  <2> QED BY <2>1, <2>2, <2>3, <2>4, <2>5, Zenon
<1> QED
  BY <1>1, <1>2, MoveStep, Zenon DEF SupState, Holding

\* a supervisor that sees itself leader takes the token of its own term
LEMMA WaitStep ==
  ASSUME SupIInv, NEW p \in Process, WaitForLeader(p)
  PROVE  SupIInv'
<1>1. /\ terms' = terms /\ open' = open /\ view' = view /\ lastWrite' = lastWrite
      /\ job' = job /\ leases' = leases /\ lastLeased' = lastLeased
      /\ supLease' = supLease /\ finished' = finished
      /\ view[p] # 0 /\ supTok' = [supTok EXCEPT ![p] = view[p]]
      /\ sup' = [sup EXCEPT ![p] = "acquiring"]
  BY Zenon DEF WaitForLeader, Go, leadershipVars, rowVars
<1>2. /\ sup'[p] = "acquiring" /\ supTok'[p] = view[p] /\ view[p] \in Nat
      /\ \A q \in Process : q # p => sup'[q] = sup[q] /\ supTok'[q] = supTok[q]
      /\ sup' \in [Process -> SupState] /\ supTok' \in [Process -> Nat]
  BY <1>1, Fields, Zenon DEF SupIInv, SupState
<1>3. SupTypeOK'
  BY <1>1, <1>2, Zenon DEF SupIInv, SupTypeOK, RowTypeOK
<1>4. BeliefIsOwn' /\ RowIsNewest' /\ WritesAreOld'
  BY <1>1, Zenon DEF SupIInv, BeliefIsOwn, RowIsNewest, WritesAreOld, IsTermOf
<1>5. ASSUME NEW q \in Process PROVE HoldsOwnLease(q)'
  BY <1>1, <1>2, Zenon DEF SupIInv, BeliefIsOwn, HoldsOwnLease, IsTermOf, Holding
<1>6. FinishedIsOver'
  BY <1>1, <1>2, Zenon DEF SupIInv, FinishedIsOver
<1> QED
  BY <1>3, <1>4, <1>5, <1>6, Zenon DEF SupIInv

\* acquire: a fence admits only the owner of the newest term, so every other
\* holder is of an older term from now on.
LEMMA AcquireStep ==
  ASSUME SupIInv, NEW p \in Process, SupAcquire(p)
  PROVE  SupIInv'
<1> DEFINE n == Len(leases) + 1
<1>1. /\ terms' = terms /\ open' = open /\ view' = view /\ lastWrite' = lastWrite
      /\ supTok' = supTok /\ finished' = finished /\ lastLeased' = lastLeased
      /\ sup' = [sup EXCEPT ![p] = "acquired"] /\ supLease' = [supLease EXCEPT ![p] = n]
      /\ leases' = Append(leases, supTok[p])
      /\ sup[p] = "acquiring" /\ Leadership!Fence(p, supTok[p])
  BY Zenon DEF SupAcquire, Go, leadershipVars, CanClaim, ClaimRow
<1>2. PICK d \in Lifetime : job' = [lease_id |-> n, fencing_token |-> supTok[p], left |-> d]
  BY Zenon DEF SupAcquire, ClaimRow
<1>3. d \in Nat
  BY LeaseAssumption DEF Lifetime
<1>4. n \in Nat /\ supTok[p] \in Nat /\ Len(leases) \in Nat /\ leases \in Seq(Nat)
  BY Fields DEF SupIInv
<1>5. /\ leases' \in Seq(Nat) /\ Len(leases') = n /\ leases'[n] = supTok[p]
      /\ \A l \in 1 .. Len(leases) : leases'[l] = leases[l]
  BY <1>1, <1>4
<1>6. job' \in JobRow /\ job'.lease_id = n /\ job'.fencing_token = supTok[p] /\ job'.left = d
  BY <1>2, <1>3, <1>4, Zenon DEF JobRow
<1>7. /\ sup'[p] = "acquired" /\ supLease'[p] = n
      /\ \A q \in Process : q # p => sup'[q] = sup[q] /\ supLease'[q] = supLease[q]
      /\ sup' \in [Process -> SupState] /\ supLease' \in [Process -> Nat]
  BY <1>1, <1>4, Fields, Zenon DEF SupIInv, SupState
<1>8. supTok[p] = Len(terms) /\ terms[supTok[p]] = p /\ supTok[p] # 0
  BY <1>1, Zenon DEF Leadership!Fence
<1> HIDE DEF n
<1>9. SupTypeOK'
  BY <1>1, <1>5, <1>6, <1>7, Zenon DEF SupIInv, SupTypeOK, RowTypeOK
<1>10. BeliefIsOwn'
  BY <1>1, Zenon DEF SupIInv, BeliefIsOwn, IsTermOf
<1>11. RowIsNewest'
  BY <1>1, <1>5, <1>6, <1>8, Fields DEF SupIInv, RowIsNewest
<1>12. ASSUME NEW q \in Process PROVE HoldsOwnLease(q)'
  <2>1. CASE q = p
    <3>1. IsTermOf(p, supTok[p])'
      BY <1>1, <1>4, <1>8, Zenon DEF IsTermOf, SupIInv, HoldsOwnLease
    <3>2. n \in 1 .. Len(leases')
      BY <1>4, <1>5 DEF n
    <3> QED BY <1>1, <1>5, <1>6, <1>7, <2>1, <3>1, <3>2, Zenon DEF HoldsOwnLease, Holding
  <2>2. CASE q # p /\ sup[q] \in Holding
    <3>1. /\ IsTermOf(q, supTok[q]) /\ supLease[q] \in 1 .. Len(leases) /\ leases[supLease[q]] = supTok[q]
      BY <2>2, Zenon DEF SupIInv, HoldsOwnLease
    <3>2. supTok[q] < supTok[p]
      BY <1>8, <2>2, <3>1, Fields DEF IsTermOf, SupIInv
    <3>3. supLease[q] \in 1 .. Len(leases')
      BY <1>4, <1>5, <3>1 DEF n
    <3> QED BY <1>1, <1>5, <1>6, <1>7, <2>2, <3>1, <3>2, <3>3, Zenon DEF HoldsOwnLease, IsTermOf, Holding
  <2>3. CASE q # p /\ sup[q] \notin Holding
    BY <1>1, <1>7, <2>3, Zenon DEF SupIInv, HoldsOwnLease, IsTermOf
  <2> QED BY <2>1, <2>2, <2>3, Zenon
<1>13. FinishedIsOver'
  <2>1. n \notin finished /\ finished \subseteq 1 .. Len(leases')
    BY <1>4, <1>5 DEF SupIInv, FinishedIsOver, n
  <2> QED BY <1>1, <1>6, <1>7, <2>1, Zenon DEF SupIInv, FinishedIsOver
<1>14. WritesAreOld'
  <2>1. lastLeased <= job.lease_id /\ job.lease_id = Len(leases) /\ lastLeased \in Nat
    BY Fields, Zenon DEF SupIInv, WritesAreOld, RowIsNewest
  <2> QED BY <1>1, <1>4, <1>6, <2>1 DEF SupIInv, WritesAreOld, n
<1> QED
  BY <1>9, <1>10, <1>11, <1>12, <1>13, <1>14, Zenon DEF SupIInv

-----------------------------------------------------------------------------
\* A step that changes what is left of the lease keeps its identity.
LEMMA LeftChanges ==
  ASSUME SupTypeOK, NEW d \in Nat, job' = [job EXCEPT !.left = d]
  PROVE  /\ job' \in JobRow /\ job'.lease_id = job.lease_id
         /\ job'.fencing_token = job.fencing_token /\ job'.left = d
BY Fields, Zenon DEF JobRow

\* a renewal extends the lease the row shows
LEMMA RenewStep ==
  ASSUME SupIInv, NEW p \in Process, Renew(p)
  PROVE  SupIInv'
<1>1. PICK d \in Lifetime : job' = [job EXCEPT !.left = d]
  BY Zenon DEF Renew, RenewRow
<1>2. d \in Nat
  BY LeaseAssumption DEF Lifetime
<1>3. /\ job' \in JobRow /\ job'.lease_id = job.lease_id /\ job'.fencing_token = job.fencing_token
  BY <1>1, <1>2, LeftChanges, Zenon DEF SupIInv
<1>4. /\ terms' = terms /\ open' = open /\ view' = view /\ lastWrite' = lastWrite
      /\ leases' = leases /\ lastLeased' = lastLeased
      /\ sup' = sup /\ supTok' = supTok /\ supLease' = supLease /\ finished' = finished
      /\ sup[p] = "running" /\ job.lease_id = supLease[p]
  BY Zenon DEF Renew, RenewRow, leadershipVars, supVars, Holds
<1>5. SupTypeOK'
  BY <1>3, <1>4, Zenon DEF SupIInv, SupTypeOK, RowTypeOK
<1>6. BeliefIsOwn' /\ RowIsNewest' /\ WritesAreOld'
  BY <1>3, <1>4, Zenon DEF SupIInv, BeliefIsOwn, RowIsNewest, WritesAreOld, IsTermOf
<1>7. \A q \in Process : HoldsOwnLease(q)'
  BY <1>3, <1>4, Zenon DEF SupIInv, HoldsOwnLease, IsTermOf
<1>8. FinishedIsOver'
  BY <1>3, <1>4, Zenon DEF SupIInv, FinishedIsOver
<1> QED
  BY <1>5, <1>6, <1>7, <1>8, Zenon DEF SupIInv

\* finish: no other worker runs under the lease that ends.
LEMMA FinishStep ==
  ASSUME SupIInv, NEW p \in Process, SupFinish(p)
  PROVE  SupIInv'
<1>1. /\ job' \in JobRow /\ job'.lease_id = job.lease_id /\ job'.fencing_token = job.fencing_token
      /\ job'.left = 0
  BY LeftChanges, Zenon DEF SupIInv, SupFinish, FinishRow
<1>2. /\ terms' = terms /\ open' = open /\ view' = view /\ lastWrite' = lastWrite
      /\ leases' = leases /\ lastLeased' = lastLeased
      /\ supTok' = supTok /\ supLease' = supLease /\ finished' = finished \cup {supLease[p]}
      /\ sup[p] \in Holding /\ sup' = [sup EXCEPT ![p] = AfterFinish(p)]
  BY Zenon DEF SupFinish, FinishRow, leadershipVars, Go, Holding
<1>3. AfterFinish(p) \in {"waiting", "stopped"}
  BY Zenon DEF AfterFinish
<1>4. /\ sup'[p] \notin Holding \cup {"acquiring"}
      /\ \A q \in Process : q # p => sup'[q] = sup[q]
      /\ sup' \in [Process -> SupState]
  BY <1>2, <1>3, Fields, Zenon DEF SupIInv, SupState, Holding
<1>5. supLease[p] \in 1 .. Len(leases) /\ supLease[p] \in Nat
  BY <1>2, Fields, Zenon DEF SupIInv, HoldsOwnLease
<1>6. SupTypeOK'
  BY <1>1, <1>2, <1>4, <1>5, Zenon DEF SupIInv, SupTypeOK, RowTypeOK
<1>7. BeliefIsOwn' /\ RowIsNewest' /\ WritesAreOld'
  BY <1>1, <1>2, Zenon DEF SupIInv, BeliefIsOwn, RowIsNewest, WritesAreOld, IsTermOf
<1>8. ASSUME NEW q \in Process PROVE HoldsOwnLease(q)'
  BY <1>1, <1>2, <1>4, Zenon DEF SupIInv, HoldsOwnLease, IsTermOf
<1>9. ASSUME NEW q \in Process, sup'[q] \in {"acquired", "running"}
      PROVE  supLease'[q] \notin finished'
  <2>1. q # p /\ sup[q] \in {"acquired", "running"}
    BY <1>4, <1>9, Zenon DEF Holding
  <2>2. supLease[q] \notin finished
    BY <2>1, Zenon DEF SupIInv, FinishedIsOver
  <2>3. supLease[q] # supLease[p]
    BY <1>2, <2>1 DEF SupIInv, HoldsOwnLease, IsTermOf, Holding
  <2> QED BY <1>2, <2>2, <2>3, Zenon
<1>10. FinishedIsOver'
  BY <1>1, <1>2, <1>5, <1>9, Zenon DEF SupIInv, FinishedIsOver
<1> QED
  BY <1>6, <1>7, <1>8, <1>10, Zenon DEF SupIInv

\* the passing of time lets leases lapse but changes none
LEMMA TickStep ==
  ASSUME SupIInv, SupTick
  PROVE  SupIInv'
<1>1. job.left \in Nat /\ job.left > 0
  BY Fields, Zenon DEF SupIInv, SupTick
<1>2. job' = [job EXCEPT !.left = job.left - 1]
  BY <1>1 DEF SupTick, AgeRow
<1>3. /\ job' \in JobRow /\ job'.lease_id = job.lease_id /\ job'.fencing_token = job.fencing_token
  BY <1>1, <1>2, LeftChanges DEF SupIInv
<1>4. /\ terms' = terms /\ open' = open /\ view' = view /\ lastWrite' = lastWrite
      /\ leases' = leases /\ lastLeased' = lastLeased
      /\ sup' = sup /\ supTok' = supTok /\ supLease' = supLease /\ finished' = finished
  BY Zenon DEF SupTick, leadershipVars, supVars
<1>5. SupTypeOK'
  BY <1>3, <1>4, Zenon DEF SupIInv, SupTypeOK, RowTypeOK
<1>6. BeliefIsOwn' /\ RowIsNewest' /\ WritesAreOld'
  BY <1>3, <1>4, Zenon DEF SupIInv, BeliefIsOwn, RowIsNewest, WritesAreOld, IsTermOf
<1>7. \A q \in Process : HoldsOwnLease(q)'
  BY <1>3, <1>4, Zenon DEF SupIInv, HoldsOwnLease, IsTermOf
<1>8. FinishedIsOver'
  BY <1>1, <1>3, <1>4 DEF SupIInv, FinishedIsOver
<1> QED
  BY <1>5, <1>6, <1>7, <1>8, Zenon DEF SupIInv

\* a write is of the lease in the row, so it follows the order of leases
LEMMA WriteStep ==
  ASSUME SupIInv, NEW p \in Process, WorkerWrites(p)
  PROVE  SupIInv' /\ WriteFollowsLeaseOrder
<1>1. /\ lastLeased' = job.lease_id /\ lastWrite' = Len(terms)
      /\ terms' = terms /\ open' = open /\ view' = view /\ job' = job /\ leases' = leases
      /\ sup' = sup /\ supTok' = supTok /\ supLease' = supLease /\ finished' = finished
  BY Zenon DEF WorkerWrites, Holds, Leadership!Fence, LeasedWrite, supVars
<1>2. SupTypeOK'
  BY <1>1, Fields, Zenon DEF SupIInv, SupTypeOK, RowTypeOK
<1>3. BeliefIsOwn' /\ RowIsNewest' /\ FinishedIsOver' /\ \A q \in Process : HoldsOwnLease(q)'
  BY <1>1, Zenon DEF SupIInv, BeliefIsOwn, RowIsNewest, FinishedIsOver, HoldsOwnLease, IsTermOf
<1>4. WritesAreOld' /\ WriteFollowsLeaseOrder
  BY <1>1, Fields DEF SupIInv, WritesAreOld, WriteFollowsLeaseOrder
<1> QED
  BY <1>2, <1>3, <1>4, Zenon DEF SupIInv

-----------------------------------------------------------------------------
\* Steps of leadership and crashes: terms grow, beliefs change, no supervisor
\* takes up a lease.
LEMMA OutsideStep ==
  ASSUME SupIInv, NEW q \in Process, terms' = terms \/ terms' = Append(terms, q),
         open' \in BOOLEAN, view' \in [Process -> Nat], BeliefIsOwn',
         sup' \in [Process -> SupState], \A p \in Process : sup'[p] \in {sup[p], "dead"},
         UNCHANGED <<lastWrite, rowVars, supTok, supLease, finished>>
  PROVE  SupIInv'
<1>1. /\ lastWrite' = lastWrite /\ job' = job /\ leases' = leases /\ lastLeased' = lastLeased
      /\ supTok' = supTok /\ supLease' = supLease /\ finished' = finished
  BY Zenon DEF rowVars
<1>2. /\ terms' \in Seq(Process) /\ Len(terms') \in Nat /\ Len(terms') >= Len(terms)
      /\ \A p, t : IsTermOf(p, t) => IsTermOf(p, t)'
  BY TermsGrow, Zenon DEF SupIInv
<1>3. SupTypeOK'
  BY <1>1, <1>2, Zenon DEF SupIInv, SupTypeOK, RowTypeOK
<1>4. RowIsNewest' /\ WritesAreOld'
  <2>1. /\ Len(terms) \in Nat /\ job.fencing_token \in Nat /\ lastWrite \in Nat
        /\ job.fencing_token <= Len(terms) /\ lastWrite <= Len(terms)
    BY Fields, Zenon DEF SupIInv, RowIsNewest, WritesAreOld
  <2>2. job.fencing_token <= Len(terms') /\ lastWrite <= Len(terms')
    BY <1>2, <2>1
  <2> QED BY <1>1, <2>2, Zenon DEF SupIInv, RowIsNewest, WritesAreOld
<1>5. ASSUME NEW p \in Process PROVE HoldsOwnLease(p)'
  <2>1. HoldsOwnLease(p) /\ sup'[p] \in {sup[p], "dead"}
    BY Zenon DEF SupIInv
  <2>2. IsTermOf(p, supTok[p]) => IsTermOf(p, supTok[p])'
    BY <1>1, <1>2, Zenon DEF IsTermOf
  <2> QED BY <1>1, <2>1, <2>2, Zenon DEF HoldsOwnLease, Holding
<1>6. FinishedIsOver'
  BY <1>1, Zenon DEF SupIInv, FinishedIsOver
<1> QED
  BY <1>3, <1>4, <1>5, <1>6, Zenon DEF SupIInv

\* a crash forgets what the supervisor held
LEMMA CrashStep ==
  ASSUME SupIInv, NEW p \in Process, SupCrash(p)
  PROVE  SupIInv'
<1>1. /\ terms' = terms /\ open' = open /\ view' = [view EXCEPT ![p] = 0]
      /\ sup' = [sup EXCEPT ![p] = "dead"]
      /\ UNCHANGED <<lastWrite, rowVars, supTok, supLease, finished>>
  BY Zenon DEF SupCrash, Go
<1>2. /\ view' \in [Process -> Nat] /\ \A q \in Process : view'[q] \in {view[q], 0}
      /\ sup' \in [Process -> SupState] /\ \A q \in Process : sup'[q] \in {sup[q], "dead"}
      /\ open' \in BOOLEAN
  BY <1>1, Fields, Zenon DEF SupIInv, SupState
<1>3. BeliefIsOwn'
  BY <1>1, <1>2, Zenon DEF SupIInv, BeliefIsOwn, IsTermOf
<1> QED
  BY <1>1, <1>2, <1>3, OutsideStep, Zenon

\* changes of leadership only add terms
LEMMA EnvironmentStep ==
  ASSUME SupIInv, SupEnvironment
  PROVE  SupIInv'
<1>1. /\ UNCHANGED <<rowVars, supTok, supLease, finished>> /\ sup' = sup
      /\ sup' \in [Process -> SupState] /\ \A q \in Process : sup'[q] \in {sup[q], "dead"}
  BY Fields, Zenon DEF SupIInv, SupEnvironment, LeadershipStep, supVars
<1>2. ASSUME NEW p \in Process, Leadership!Grant(p) PROVE SupIInv'
  <2>1. /\ terms' = Append(terms, p) /\ open' = TRUE /\ view' = view /\ lastWrite' = lastWrite
        /\ view' \in [Process -> Nat]
    BY <1>2, Fields, Zenon DEF SupIInv, Leadership!Grant
  <2>2. BeliefIsOwn'
    BY <2>1, TermsGrow, Zenon DEF SupIInv, BeliefIsOwn
  <2> QED BY <1>1, <2>1, <2>2, OutsideStep, Zenon
<1>3. ASSUME NEW p \in Process, Leadership!Believe(p) PROVE SupIInv'
  <2>1. PICK t \in 0 .. Len(terms) : Leadership!LastTermOrNone(p, t) /\ view' = [view EXCEPT ![p] = t]
    BY <1>3, Zenon DEF Leadership!Believe
  <2>2. terms' = terms /\ open' = open /\ lastWrite' = lastWrite
    BY <1>3, Zenon DEF Leadership!Believe
  <2>3. /\ view' \in [Process -> Nat] /\ open' \in BOOLEAN /\ t \in Nat
        /\ view'[p] = t /\ \A q \in Process : q # p => view'[q] = view[q]
    BY <2>1, <2>2, Fields DEF SupIInv
  <2>4. t # 0 => IsTermOf(p, t)
    BY <2>1, Fields DEF SupIInv, IsTermOf, Leadership!LastTermOrNone
  <2>5. BeliefIsOwn'
    BY <2>2, <2>3, <2>4, Zenon DEF SupIInv, BeliefIsOwn, IsTermOf
  <2> QED BY <1>1, <2>2, <2>3, <2>5, OutsideStep, Zenon
<1>4. ASSUME Leadership!Reopen PROVE SupIInv'
  <2>1. /\ terms' = terms /\ open' \in BOOLEAN /\ view' = view /\ lastWrite' = lastWrite
        /\ view' \in [Process -> Nat] /\ terms # <<>>
    BY <1>4, Fields, Zenon DEF SupIInv, Leadership!Reopen
  <2>2. BeliefIsOwn'
    BY <2>1, Zenon DEF SupIInv, BeliefIsOwn, IsTermOf
  <2>3. terms[1] \in Process
    BY <2>1, Fields DEF SupIInv
  <2> QED BY <1>1, <2>1, <2>2, <2>3, OutsideStep, Zenon
<1> QED
  BY <1>2, <1>3, <1>4, Zenon DEF SupEnvironment, LeadershipStep

-----------------------------------------------------------------------------
\* The invariant is inductive; its step also keeps leased writes in order.
LEMMA InvariantStep == SupIInv /\ [SupNext]_jsVars => SupIInv' /\ [WriteFollowsLeaseOrder]_jsVars
<1> SUFFICES ASSUME SupIInv, [SupNext]_jsVars PROVE SupIInv' /\ [WriteFollowsLeaseOrder]_jsVars
  OBVIOUS
<1>1. ASSUME lastLeased' = lastLeased, lastWrite' = lastWrite
      PROVE  WriteFollowsLeaseOrder
  BY <1>1, Fields DEF SupIInv, WriteFollowsLeaseOrder
<1>2. ASSUME NEW p \in Process, WorkerWrites(p)
      PROVE  SupIInv' /\ WriteFollowsLeaseOrder
  BY <1>2, WriteStep, Zenon
<1>3. ASSUME NEW p \in Process, Supervise(p) \/ Shutdown(p) \/ SupCrash(p)
      PROVE  SupIInv'
  BY <1>3, MovesStep, WaitStep, AcquireStep, RenewStep, FinishStep, CrashStep, Zenon DEF Supervise
<1>4. ASSUME NEW p \in Process, Supervise(p) \/ Shutdown(p) \/ SupCrash(p)
      PROVE  lastLeased' = lastLeased /\ lastWrite' = lastWrite
  BY <1>4, Zenon DEF Supervise, Shutdown, SupCrash, WaitForLeader, SupAcquire, SupAcquireRefused,
     AcquireInterrupted, StartWorker, Renew, RenewalFails, LoseLeadership, WorkerExits,
     SupFinish, SupFinishFails, ClaimRow, RenewRow, FinishRow, leadershipVars, rowVars
<1>5. ASSUME SupTick \/ SupEnvironment
      PROVE  SupIInv' /\ lastLeased' = lastLeased /\ lastWrite' = lastWrite
  BY <1>5, TickStep, EnvironmentStep, Zenon DEF SupTick, SupEnvironment, LeadershipStep, leadershipVars,
     rowVars, Leadership!Grant, Leadership!Believe, Leadership!Reopen
<1>6. CASE UNCHANGED jsVars
  <2>1. /\ terms' = terms /\ open' = open /\ view' = view /\ lastWrite' = lastWrite
        /\ job' = job /\ leases' = leases /\ lastLeased' = lastLeased
        /\ sup' = sup /\ supTok' = supTok /\ supLease' = supLease /\ finished' = finished
    BY <1>6, Zenon DEF jsVars, leadershipVars, rowVars, supVars
  <2>2. SupTypeOK'
    BY <2>1, Zenon DEF SupIInv, SupTypeOK, RowTypeOK
  <2> QED
    BY <1>6, <2>1, <2>2, Zenon DEF SupIInv, BeliefIsOwn, RowIsNewest, HoldsOwnLease, FinishedIsOver,
       WritesAreOld, IsTermOf
<1> QED
  BY <1>1, <1>2, <1>3, <1>4, <1>5, <1>6, Zenon DEF SupNext

\* The invariant holds in every reachable state.
THEOREM SupervisorInvariant == SupSpec => []SupIInv
BY InitIInv, InvariantStep, PTL DEF SupSpec

\* However acquisitions, orphaned leases, renewals, changes of leadership and
\* crashes interleave, the row belongs to the worker that runs in the newest
\* term, no worker runs under a lease that was finished, and no late renewal
\* brings such a lease back (job_supervisor.rs, job_leases.rs).
THEOREM WorkerExclusive == SupSpec => []WorkerIsExclusive
<1>1. SupIInv => WorkerIsExclusive
  <2> SUFFICES ASSUME SupIInv PROVE WorkerIsExclusive
    OBVIOUS
  <2>1. WorkerOwnsRow
    BY Fields DEF SupIInv, HoldsOwnLease, Holding, RowIsNewest, WorkerOwnsRow
  <2>2. NoWorkAfterFinish
    BY Zenon DEF SupIInv, FinishedIsOver, NoWorkAfterFinish
  <2> QED BY <2>1, <2>2, Zenon DEF WorkerIsExclusive
<1> QED
  BY SupervisorInvariant, <1>1, PTL

\* A worker of an older lease never commits after a worker of a newer one
\* (assert_sqlite_transaction_lease, assert_postgres_transaction_lease).
THEOREM WritesInOrder == SupSpec => WorkersWriteInOrder
<1>1. SupIInv /\ [SupNext]_jsVars => [WriteFollowsLeaseOrder]_jsVars
  BY InvariantStep, Zenon
<1> QED
  BY SupervisorInvariant, <1>1, PTL DEF SupSpec, WorkersWriteInOrder

=============================================================================
