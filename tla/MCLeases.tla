------------------------------ MODULE MCLeases ------------------------------
(***************************************************************************)
(* Small instances of PublicPortLease and JobSupervisor, in one state      *)
(* space.  Both run under the leadership that FencedLeadership promises;   *)
(* an initial state picks which of them moves (focus).                     *)
(***************************************************************************)
EXTENDS PublicPortLease, TLC

CONSTANTS p1, p2, r1, r2

VARIABLES focus, job, leases, lastLeased, sup, supTok, supLease, finished

jobVars == <<job, leases, lastLeased, sup, supTok, supLease, finished>>
MCvars == <<vars, jobVars, focus>>

SameProcess == r1 :> p1 @@ r2 :> p1

Jobs == INSTANCE JobSupervisor WITH LeaseSeconds <- 2, MaxLeases <- 2

MCInit == focus \in {"port", "job"} /\ Init /\ Jobs!SupInit

MCPort(A) == focus = "port" /\ A /\ UNCHANGED <<jobVars, focus>>
MCJob(A) == focus = "job" /\ A /\ UNCHANGED <<row, tunnelVars, focus>>

MCNext == MCPort(Next) \/ MCJob(Jobs!SupNext)

\* The Fairness of the two modules. A behaviour keeps its focus, so weak
\* fairness of a disjunction is weak fairness of the disjunct in focus.
MCEither(A, B) == MCPort(A) \/ MCJob(B)
MCFair(r, p) ==
    /\ WF_MCvars(MCEither(LeadershipChanged(r), Jobs!LoseLeadership(p)))
    /\ WF_MCvars(MCEither(Stopped(r), Jobs!WaitForLeader(p)))
    /\ WF_MCvars(MCEither(CloseListener(r), Jobs!SupAcquireRefused(p)))
    /\ WF_MCvars(MCEither(StartSupervisor(r), Jobs!AcquireInterrupted(p)))
    /\ WF_MCvars(MCJob(Jobs!SupFinishFails(p)))
    /\ SF_MCvars(MCJob(Jobs!SupAcquire(p))) /\ SF_MCvars(MCJob(Jobs!StartWorker(p)))

MCSpec ==
    /\ MCInit /\ [][MCNext]_MCvars
    /\ WF_MCvars(MCJob(Jobs!SupTick))
    /\ MCFair(r1, p1)

-----------------------------------------------------------------------------
\* WorkerOwnsRow of JobSupervisor: while the term of a running worker is the
\* newest, the row of job_leases is the worker's own lease; and NoWorkAfterFinish:
\* no late renewal brings a finished lease back to life.
WorkerIsExclusive == Jobs!WorkerIsExclusive

\* StaleListenerCloses of PublicPortLease, for one of the two registrations,
\* which are alike: a listener whose process lost the term of its lease is
\* closed, or the process finds itself in that term again.
MCStaleListenerCloses ==
    (handler[r1] = "serving" /\ listener[r1] /\ Belief(r1) # token[r1])
      ~> (~listener[r1] \/ Belief(r1) = token[r1])

\* JobKeepsRunning of JobSupervisor, for one of the two processes, which are
\* alike: when it leads from some time on, the job runs again and again (or
\* the bound on leases is spent).
MCJobKeepsRunning ==
    <>[](/\ focus = "job" /\ Leadership!Fence(p1, view[p1])
         /\ sup[p1] \notin {"stopped", "dead", "closing"})
      => []<>(sup[p1] = "running") \/ <>(Len(leases) = 2)
=============================================================================
