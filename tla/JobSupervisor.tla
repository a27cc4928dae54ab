--------------------------- MODULE JobSupervisor ----------------------------
(***************************************************************************)
(* The supervisor of one background job in every server process            *)
(* (job_supervisor.rs): it waits for local leadership, acquires the job    *)
(* lease, runs the worker, renews the lease and stops the worker when the  *)
(* lease or leadership is gone.                                            *)
(***************************************************************************)
EXTENDS JobLeases

VARIABLES
  sup,       \* where the supervisor of a process stands
  supTok,    \* fencing_token of the iteration
  supLease,  \* lease_id of the iteration
  finished   \* history: leases ended by complete or fail

supVars == <<sup, supTok, supLease, finished>>
jsVars == <<leadershipVars, rowVars, supVars>>

SupState == {"waiting", "acquiring", "acquired", "running", "finishing", "closing",
             "stopped", "dead"}

\* One type for every variable.
SupTypeOK ==
  /\ RowTypeOK
  /\ sup \in [Process -> SupState]
  /\ supTok \in [Process -> Nat]
  /\ supLease \in [Process -> Nat]
  /\ finished \subseteq Nat

SupInit ==
  /\ RowInit
  /\ sup = [p \in Process |-> "waiting"]
  /\ supTok = [p \in Process |-> 0]
  /\ supLease = [p \in Process |-> 0]
  /\ finished = {}

Go(p, s) == sup' = [sup EXCEPT ![p] = s]

\* same_leadership and HaRuntime::fencing_token
SameLeadership(p) == view[p] = supTok[p]

-----------------------------------------------------------------------------
\* wait_for_leader returns the published leadership.
WaitForLeader(p) ==
  /\ sup[p] = "waiting"
  /\ view[p] # 0
  /\ supTok' = [supTok EXCEPT ![p] = view[p]]
  /\ Go(p, "acquiring")
  /\ UNCHANGED <<leadershipVars, rowVars, supLease, finished>>

\* jobs.acquire commits a fresh lease.
SupAcquire(p) ==
  /\ sup[p] = "acquiring"
  /\ CanClaim(p, supTok[p])
  /\ Len(leases) < MaxLeases
  /\ ClaimRow(supTok[p])
  /\ supLease' = [supLease EXCEPT ![p] = Len(leases) + 1]
  /\ Go(p, "acquired")
  /\ UNCHANGED <<leadershipVars, supTok, finished>>

\* Conflict, a refused fence or a database error: retry later.
SupAcquireRefused(p) ==
  /\ sup[p] = "acquiring"
  /\ Go(p, "waiting")
  /\ UNCHANGED <<leadershipVars, rowVars, supTok, supLease, finished>>

\* A leadership notification wins the select!: the acquisition is dropped, also
\* when its transaction has committed, which leaves an orphaned lease.
AcquireInterrupted(p) ==
  /\ sup[p] = "acquired"
  /\ Go(p, "waiting")
  /\ UNCHANGED <<leadershipVars, rowVars, supTok, supLease, finished>>

\* The answer arrives and leadership is unchanged: the worker is spawned.
StartWorker(p) ==
  /\ sup[p] = "acquired"
  /\ SameLeadership(p)
  /\ Go(p, "running")
  /\ UNCHANGED <<leadershipVars, rowVars, supTok, supLease, finished>>

\* The renewal tick.
Renew(p) ==
  /\ sup[p] = "running"
  /\ SameLeadership(p)
  /\ Holds(p, supTok[p], supLease[p])
  /\ RenewRow
  /\ UNCHANGED <<leadershipVars, supVars>>

\* LeaseExpired and LeaseRenewalFailed: the renewal changed no row, or failed.
RenewalFails(p) ==
  /\ sup[p] = "running"
  /\ Go(p, "waiting")
  /\ UNCHANGED <<leadershipVars, rowVars, supTok, supLease, finished>>

\* LeadershipLost: the worker is aborted and the lease abandoned.
LoseLeadership(p) ==
  /\ sup[p] = "running"
  /\ ~SameLeadership(p)
  /\ Go(p, "waiting")
  /\ UNCHANGED <<leadershipVars, rowVars, supTok, supLease, finished>>

\* WorkerExited: the outcome is recorded if leadership is unchanged.
WorkerExits(p) ==
  /\ sup[p] = "running"
  /\ Go(p, IF SameLeadership(p) THEN "finishing" ELSE "waiting")
  /\ UNCHANGED <<leadershipVars, rowVars, supTok, supLease, finished>>

\* Shutdown: the supervisor returns, after it stopped a worker and, when it still
\* leads, completed its lease.
Shutdown(p) ==
  /\ sup[p] \in {"waiting", "acquiring", "acquired", "running"}
  /\ Go(p, IF sup[p] = "running" /\ SameLeadership(p) THEN "closing" ELSE "stopped")
  /\ UNCHANGED <<leadershipVars, rowVars, supTok, supLease, finished>>

AfterFinish(p) == IF sup[p] = "closing" THEN "stopped" ELSE "waiting"

\* jobs.complete or jobs.fail changes the row ...
SupFinish(p) ==
  /\ sup[p] \in {"finishing", "closing"}
  /\ Holds(p, supTok[p], supLease[p])
  /\ FinishRow
  /\ finished' = finished \cup {supLease[p]}
  /\ Go(p, AfterFinish(p))
  /\ UNCHANGED <<leadershipVars, supTok, supLease>>

\* ... or matches no row, or fails; the supervisor goes on either way.
SupFinishFails(p) ==
  /\ sup[p] \in {"finishing", "closing"}
  /\ Go(p, AfterFinish(p))
  /\ UNCHANGED <<leadershipVars, rowVars, supTok, supLease, finished>>

\* The worker commits business state under assert_*_transaction_lease.
WorkerWrites(p) ==
  /\ sup[p] = "running"
  /\ Holds(p, supTok[p], supLease[p])
  /\ LeasedWrite(supTok[p], supLease[p])
  /\ UNCHANGED supVars

SupCrash(p) ==
  /\ sup[p] # "dead"
  /\ Go(p, "dead")
  /\ view' = [view EXCEPT ![p] = 0]
  /\ UNCHANGED <<terms, open, lastWrite, rowVars, supTok, supLease, finished>>

\* Half a second passes.
SupTick ==
  /\ job.left > 0
  /\ job' = AgeRow
  /\ UNCHANGED <<leadershipVars, leases, lastLeased, supVars>>

SupEnvironment ==
  /\ LeadershipStep({p \in Process : sup[p] # "dead"})
  /\ UNCHANGED supVars

Supervise(p) ==
  \/ WaitForLeader(p) \/ SupAcquire(p) \/ SupAcquireRefused(p) \/ AcquireInterrupted(p)
  \/ StartWorker(p) \/ Renew(p) \/ RenewalFails(p) \/ LoseLeadership(p)
  \/ WorkerExits(p) \/ SupFinish(p) \/ SupFinishFails(p)

SupNext ==
  \/ \E p \in Process : Supervise(p) \/ WorkerWrites(p) \/ Shutdown(p) \/ SupCrash(p)
  \/ SupTick
  \/ SupEnvironment

SupSpec == SupInit /\ [][SupNext]_jsVars

\* Timers fire, calls return, and a notification or an error does not strike
\* every acquisition forever.
SupFairness ==
  /\ WF_jsVars(SupTick)
  /\ \A p \in Process :
       /\ WF_jsVars(WaitForLeader(p)) /\ WF_jsVars(LoseLeadership(p))
       /\ SF_jsVars(SupAcquire(p)) /\ SF_jsVars(StartWorker(p))
       /\ WF_jsVars(SupAcquireRefused(p)) /\ WF_jsVars(AcquireInterrupted(p))
       /\ WF_jsVars(SupFinishFails(p))

SupFairSpec == SupSpec /\ SupFairness

-----------------------------------------------------------------------------
\* While the term of a running worker is the newest, the row is the worker's own
\* lease: no acquisition can put a successor beside it within its term.
WorkerOwnsRow ==
  \A p \in Process : sup[p] = "running" /\ supTok[p] = Len(terms) => job.lease_id = supLease[p]

\* complete and fail come after the worker has ended, and no late renewal brings
\* a finished lease back to life.
NoWorkAfterFinish ==
  /\ \A p \in Process : sup[p] = "running" => supLease[p] \notin finished
  /\ job.lease_id \in finished => job.left = 0

\* What the lease promises of the workers.
WorkerIsExclusive == WorkerOwnsRow /\ NoWorkAfterFinish

\* A worker of an older lease never commits after a worker of a newer one.
WorkersWriteInOrder == [][WriteFollowsLeaseOrder]_jsVars

\* In a process that leads from some time on, the job runs again and again,
\* whatever orphaned lease stands in the way (or the bound on leases is spent).
JobKeepsRunning ==
  \A p \in Process :
    <>[](Leadership!Fence(p, view[p]) /\ sup[p] \notin {"stopped", "dead", "closing"})
      => []<>(sup[p] = "running") \/ <>(Len(leases) = MaxLeases)
=============================================================================
