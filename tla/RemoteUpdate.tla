---------------------------- MODULE RemoteUpdate ----------------------------
(***************************************************************************)
(* Updates a server asks of a client: the tasks and the client's worker    *)
(* (Ru) and the files behind its receipts (Rf).                            *)
(***************************************************************************)
EXTENDS Naturals, Sequences, FiniteSets

(***************************************************************************)
(* Updates a server asks of a client: the task table (update_tasks.rs, the *)
(* same control in update_tasks_postgres.rs), the client's worker that     *)
(* claims, executes and reports a task (linklake-client/remote_update.rs), *)
(* its receipt on disk, which lets a task survive the restart the          *)
(* installation causes, and the local updater (module SelfUpdate) reduced  *)
(* to its status, active marker and completed journals.                    *)
(*                                                                         *)
(* Deadlines are times left, decreased by RuTick: client and server clocks *)
(* are taken to agree.  A request may be lost, its answer may be lost, and *)
(* a report may reach the server after the worker gave up on it.           *)
(***************************************************************************)
CONSTANTS
    RuActions,      \* actions the administrator asks for
    RuLease,        \* lease of a claimed task, in ticks
    RuResume,       \* REMOTE_UPDATE_RESTART_RESUME_SECONDS, in ticks
    RuMaxAttempts,  \* MAX_CLAIM_ATTEMPTS
    RuMaxTasks,     \* bound on the tasks created
    RuMaxFaults     \* bound on lost messages, crashes and failing steps

ASSUME RuAssumption ==
    /\ RuActions \subseteq {"check", "download", "status", "apply", "rollback",
                            "recover"}
    /\ {RuLease, RuResume, RuMaxAttempts} \subseteq Nat \ {0}
    /\ RuMaxTasks \in Nat /\ RuMaxFaults \in Nat

VARIABLES
    ruTasks,    \* update_tasks, oldest first
    ruW,        \* the worker process
    ruReceipt,  \* remote update resume receipt, op = 0 for none
    ruQuar,     \* a quarantine record exists
    ruLocal,    \* local updater: [st, op, act, active]
    ruDone,     \* operations whose journal says "completed"
    ruOps,      \* operation ids drawn so far
    ruLead,     \* this server leads; a server on SQLite always does
    ruPg,       \* the tasks are kept in PostgreSQL
    ruLate,     \* reports still on their way after the worker gave up
    ruFaults

ruVars == <<ruTasks, ruW, ruReceipt, ruQuar, ruLocal, ruDone, ruOps, ruLate,
            ruFaults, ruLead, ruPg>>

RuSafeToRequeue(a) == a \in {"check", "download", "status"}
RuChangesInstallation(a) == a \in {"apply", "recover", "rollback"}
RuRequiresRestart(a) == a \in {"apply", "rollback"}
RuQuarantineBlocks(a) == a \notin {"check", "status"}

RuTerminal(t) == t.st \in {"succeeded", "failed", "cancelled"}
RuLeased(t) == t.st \in {"claimed", "running", "cancel_requested"}

RuReport(kind, op, code) == [kind |-> kind, op |-> op, code |-> code]
RuNoProof == [worker |-> 0, token |-> 0, rep |-> RuReport("none", 0, "none")]
RuNoReceipt == [task |-> 0, worker |-> 0, token |-> 0, op |-> 0, left |-> 0]
RuIdleWorker(inst) ==
    [pc |-> "idle", inst |-> inst, task |-> 0, token |-> 0, seen |-> FALSE,
     op |-> 0, left |-> 0, term |-> FALSE, resp |-> RuReport("none", 0, "none"),
     rep |-> RuReport("none", 0, "none")]

RuInit ==
    /\ ruTasks = <<>>
    /\ ruW = RuIdleWorker(1)
    /\ ruReceipt = RuNoReceipt
    /\ ruQuar = FALSE
    /\ ruLocal = [st |-> "idle", op |-> 0, act |-> "none", active |-> FALSE]
    /\ ruDone = {} /\ ruOps = 0 /\ ruLate = {} /\ ruFaults = 0
    /\ ruLead = TRUE /\ ruPg \in BOOLEAN

RuFault == ruFaults < RuMaxFaults /\ ruFaults' = ruFaults + 1

-----------------------------------------------------------------------------
(* The task table.                                                         *)

RuClearLease(t) == [t EXCEPT !.owner = 0, !.left = 0, !.plan = 0, !.resume = 0]

RuApplyLostLease(t) ==
    LET c == RuClearLease(t) IN
    IF t.cancel /\ (t.stage = "claimed" \/ RuSafeToRequeue(t.act))
    THEN [c EXCEPT !.st = "cancelled", !.stage = "cancelled"]
    ELSE IF RuSafeToRequeue(t.act)
    THEN [c EXCEPT !.st = "queued", !.stage = "queued"]
    ELSE [c EXCEPT !.st = "failed", !.stage = "failed", !.code = "failed_closed"]

\* mutant: a task being cancelled is left out of the expired ones
RuExpiredKeepsCancelling(t) == t.st \in {"claimed", "running"} /\ t.left = 0

RuExpired(t) == RuLeased(t) /\ t.left = 0

RuReconcileExpired(ts) ==
    [i \in DOMAIN ts |-> IF RuExpired(ts[i]) THEN RuApplyLostLease(ts[i]) ELSE ts[i]]

RuNewTask(act) ==
    [act |-> act, st |-> "queued", stage |-> "queued", cancel |-> FALSE,
     attempt |-> 0, owner |-> 0, left |-> 0, plan |-> 0, resume |-> 0,
     result |-> 0, code |-> "none", proof |-> RuNoProof]

RuCreate(act) ==
    LET ts == RuReconcileExpired(ruTasks) IN
    /\ Len(ruTasks) < RuMaxTasks
    /\ \A i \in DOMAIN ts : RuTerminal(ts[i])
    /\ ruTasks' = Append(ts, RuNewTask(act))
    /\ UNCHANGED <<ruW, ruReceipt, ruQuar, ruLocal, ruDone, ruOps, ruLate, ruFaults>>

RuCancel(i) ==
    LET ts == RuReconcileExpired(ruTasks) IN
    /\ i \in DOMAIN ruTasks
    /\ ruTasks' = IF RuTerminal(ts[i]) \/ ts[i].cancel THEN ts
                  ELSE IF ts[i].st = "queued"
                  THEN [ts EXCEPT ![i] = [RuClearLease(@) EXCEPT !.cancel = TRUE,
                                          !.st = "cancelled", !.stage = "cancelled"]]
                  ELSE [ts EXCEPT ![i].cancel = TRUE, ![i].st = "cancel_requested"]
    /\ UNCHANGED <<ruW, ruReceipt, ruQuar, ruLocal, ruDone, ruOps, ruLate, ruFaults>>

\* the sweeper of update_worker.rs, and a restart of the server
RuSweep ==
    /\ ruTasks' = RuReconcileExpired(ruTasks)
    /\ UNCHANGED <<ruW, ruReceipt, ruQuar, ruLocal, ruDone, ruOps, ruLate, ruFaults>>

RuAuthorizeLease(t, q) ==
    RuLeased(t) /\ t.owner = q.worker /\ t.left > 0 /\ t.attempt = q.token

\* the transitions apply_worker_report accepts
RuReportFits(t, r) ==
    CASE r.kind = "started" -> ~t.cancel /\ t.stage = "claimed"
      [] r.kind = "awaiting" ->
            /\ RuRequiresRestart(t.act)
            /\ \/ ~t.cancel /\ t.stage = "executing"
               \/ t.stage = "awaiting_restart" /\ t.plan = r.op
      [] r.kind = "succeeded" ->
            /\ t.st \in {"running", "cancel_requested"}
            /\ t.stage \in {"executing", "awaiting_restart"}
      [] r.kind = "failed" -> t.st \in {"running", "cancel_requested"}
      [] r.kind = "cancelled" ->
            t.cancel /\ (t.stage = "claimed" \/ RuSafeToRequeue(t.act))

RuApplyReport(t, r) ==
    CASE r.kind = "started" -> [t EXCEPT !.st = "running", !.stage = "executing"]
      [] r.kind = "awaiting" ->
            IF t.stage = "awaiting_restart" THEN t
            ELSE [t EXCEPT !.st = "running", !.stage = "awaiting_restart",
                           !.left = RuResume, !.plan = r.op, !.resume = RuResume]
      [] r.kind = "succeeded" ->
            [RuClearLease(t) EXCEPT !.st = "succeeded", !.stage = "completed",
                                    !.result = r.op, !.code = "none"]
      [] r.kind = "failed" ->
            [RuClearLease(t) EXCEPT !.st = "failed", !.stage = "failed",
                                    !.code = r.code]
      [] r.kind = "cancelled" ->
            [RuClearLease(t) EXCEPT !.st = "cancelled", !.stage = "cancelled"]

\* report: a terminal task accepts only the report that made it terminal
RuReportAccepted(t, q) ==
    IF RuTerminal(t) THEN t.proof = q
    ELSE RuAuthorizeLease(t, q) /\ RuReportFits(t, q.rep)

RuHandleReport(ts, i, q) ==
    IF ~RuReportAccepted(ts[i], q) \/ RuTerminal(ts[i]) THEN ts
    ELSE LET t == RuApplyReport(ts[i], q.rep) IN
         [ts EXCEPT ![i] = IF RuTerminal(t) THEN [t EXCEPT !.proof = q] ELSE t]

\* every transaction of update_tasks_postgres.rs starts with this
RuAssertLeader == ruPg => ruLead

RuCreatePg(act) == ruPg /\ RuAssertLeader /\ RuCreate(act)
RuCancelPg(i) == ruPg /\ RuAssertLeader /\ RuCancel(i)
RuSweepPg == ruPg /\ RuAssertLeader /\ RuSweep
RuReportPg(t, q) == RuAssertLeader /\ RuReportAccepted(t, q)

\* leadership goes to another server and comes back with a later term
RuLeaderLost ==
    /\ ruPg /\ ruLead /\ RuFault /\ ruLead' = FALSE
    /\ UNCHANGED <<ruTasks, ruW, ruReceipt, ruQuar, ruLocal, ruDone, ruOps, ruLate, ruPg>>
RuLeaderBack ==
    /\ ~ruLead /\ ruLead' = TRUE
    /\ UNCHANGED <<ruTasks, ruW, ruReceipt, ruQuar, ruLocal, ruDone, ruOps, ruLate,
                   ruFaults, ruPg>>

\* RemoteUpdateTask::validate, run on every snapshot written or read back
RuValidTask(t) ==
    LET leased == t.owner # 0
        executing == t.stage = "executing" IN
    /\ t.attempt <= RuMaxAttempts
    /\ (t.stage = "awaiting_restart") = (t.plan # 0)
    /\ t.plan # 0 => RuRequiresRestart(t.act) /\ t.left <= t.resume
    /\ CASE t.st \in {"queued", "claimed"} ->
              t.stage = t.st /\ leased = (t.st = "claimed") /\ ~t.cancel
         [] t.st = "running" -> leased /\ ~t.cancel /\ (executing \/ t.plan # 0)
         [] t.st = "cancel_requested" ->
              leased /\ t.cancel /\ (t.stage = "claimed" \/ executing \/ t.plan # 0)
         [] t.st = "succeeded" -> t.stage = "completed" /\ ~leased /\ t.code = "none"
         [] t.st = "failed" ->
              t.stage = "failed" /\ ~leased /\ t.result = 0 /\ t.code # "none"
         [] t.st = "cancelled" ->
              t.stage = "cancelled" /\ ~leased /\ t.cancel /\ t.result = 0

RuLateReport ==
    /\ RuAssertLeader
    /\ \E m \in ruLate :
          /\ ruTasks' = RuHandleReport(ruTasks, m.task, m.q)
          /\ ruLate' = ruLate \ {m}
    /\ UNCHANGED <<ruW, ruReceipt, ruQuar, ruLocal, ruDone, ruOps, ruFaults>>

RuDec(n) == IF n = 0 THEN 0 ELSE n - 1

RuTick ==
    /\ ruTasks' = [i \in DOMAIN ruTasks |->
                     [ruTasks[i] EXCEPT !.left = RuDec(@), !.resume = RuDec(@)]]
    /\ ruReceipt' = [ruReceipt EXCEPT !.left = RuDec(@)]
    /\ ruW' = [ruW EXCEPT !.left = RuDec(@)]
    /\ UNCHANGED <<ruQuar, ruLocal, ruDone, ruOps, ruLate, ruFaults>>

-----------------------------------------------------------------------------
(* The worker.  RuSend is report_as: the answer, a refusal or a network    *)
(* error; the caller's code after the await is ok or err.                  *)

RuSend(i, worker, token, rep, ok, err) ==
    LET q == [worker |-> worker, token |-> token, rep |-> rep]
        accepted == RuReportPg(ruTasks[i], q) IN
    \/ /\ accepted /\ ok
       /\ ruTasks' = RuHandleReport(ruTasks, i, q)
       /\ UNCHANGED <<ruLate, ruFaults>>
    \/ /\ ~accepted /\ err
       /\ UNCHANGED <<ruTasks, ruLate, ruFaults>>
    \/ /\ RuAssertLeader /\ RuFault /\ err
       /\ ruTasks' \in {ruTasks, RuHandleReport(ruTasks, i, q)}
       /\ UNCHANGED ruLate
    \/ /\ RuFault /\ err
       /\ ruLate' = ruLate \cup {[task |-> i, q |-> q]}
       /\ UNCHANGED ruTasks

RuAt(pc) == ruW.pc = pc
RuGoto(pc) == ruW' = [ruW EXCEPT !.pc = pc]
RuBackToLoop == ruW' = RuIdleWorker(ruW.inst)
RuAct == ruTasks[ruW.task].act

RuWorkerStart ==
    /\ RuAt("down")
    /\ ruW' = RuIdleWorker(ruW.inst + 1)
    /\ UNCHANGED <<ruTasks, ruReceipt, ruQuar, ruLocal, ruDone, ruOps, ruLate, ruFaults>>

RuCrash ==
    /\ ~RuAt("down") /\ RuFault
    /\ ruW' = [RuIdleWorker(ruW.inst) EXCEPT !.pc = "down"]
    /\ UNCHANGED <<ruTasks, ruReceipt, ruQuar, ruLocal, ruDone, ruOps, ruLate>>

\* claim on the server: the oldest queued task, or none
RuServerClaim(ts, i) ==
    [ts EXCEPT ![i] =
       IF ts[i].attempt >= RuMaxAttempts
       THEN [ts[i] EXCEPT !.st = "failed", !.stage = "failed", !.code = "failed_closed"]
       ELSE [ts[i] EXCEPT !.st = "claimed", !.stage = "claimed", !.plan = 0,
                          !.resume = 0, !.attempt = @ + 1, !.owner = ruW.inst,
                          !.left = RuLease]]

\* one turn of run: without a receipt, read the quarantine and claim
RuClaim ==
    LET ts == RuReconcileExpired(ruTasks)
        queued == {i \in DOMAIN ts : ts[i].st = "queued"} IN
    /\ RuAt("idle") /\ ruReceipt.op = 0
    /\ \E i \in queued :
          LET after == RuServerClaim(ts, i) IN
          /\ \A m \in queued : i <= m
          /\ ruTasks' = after
          /\ \/ /\ ruW' = IF after[i].st # "claimed" THEN ruW
                          ELSE [ruW EXCEPT !.pc = "claimed", !.task = i, !.seen = ruQuar,
                                           !.token = after[i].attempt]
                /\ UNCHANGED ruFaults
             \/ RuFault /\ UNCHANGED ruW
    /\ UNCHANGED <<ruReceipt, ruQuar, ruLocal, ruDone, ruOps, ruLate>>

RuClaimPg == ruPg /\ RuAssertLeader /\ RuClaim

\* execute_claim up to the operation
RuReportStarted ==
    /\ RuAt("claimed")
    /\ RuSend(ruW.task, ruW.inst, ruW.token, RuReport("started", 0, "none"),
              RuGoto("started"), RuBackToLoop)
    /\ UNCHANGED <<ruReceipt, ruQuar, ruLocal, ruDone, ruOps>>

RuCheckQuarantine ==
    /\ RuAt("started")
    /\ ruW' = IF (ruW.seen \/ ruQuar) /\ RuQuarantineBlocks(RuAct)
              THEN [ruW EXCEPT !.pc = "finished",
                               !.rep = RuReport("failed", 0, "failed_closed")]
              ELSE [ruW EXCEPT !.pc = IF RuRequiresRestart(RuAct) THEN "preparing"
                                                                  ELSE "working"]
    /\ UNCHANGED <<ruTasks, ruReceipt, ruQuar, ruLocal, ruDone, ruOps, ruLate, ruFaults>>

RuFinished(rep) == ruW' = [ruW EXCEPT !.pc = "finished", !.rep = rep]
RuOperationFailed == RuFinished(RuReport("failed", 0, RuAct))

\* update recover: a completed update only loses its marker
RuRecovered(l) ==
    [l EXCEPT !.st = IF l.op \in ruDone THEN @ ELSE "rolled_back", !.active = FALSE]

\* execute_action
RuExecuteAction ==
    /\ RuAt("working")
    /\ \/ /\ ~(RuAct = "check" /\ ruLocal.active)
          /\ RuFinished(RuReport("succeeded", 0, "none"))
          /\ ruLocal' = IF RuAct = "recover" /\ ruLocal.active
                        THEN RuRecovered(ruLocal) ELSE ruLocal
          /\ UNCHANGED ruFaults
       \/ /\ RuAct = "check" /\ ruLocal.active
          /\ RuOperationFailed /\ UNCHANGED <<ruLocal, ruFaults>>
       \/ RuFault /\ RuOperationFailed /\ UNCHANGED ruLocal
    /\ UNCHANGED <<ruTasks, ruReceipt, ruQuar, ruDone, ruOps, ruLate>>

RuRenewAccepted(t, q) ==
    RuAuthorizeLease(t, q) /\ t.stage \in {"claimed", "executing"}
RuRenewPg(t, q) == RuAssertLeader /\ RuRenewAccepted(t, q)

\* the renewal branch of execute_claim's select, the operation suspended
RuRenew ==
    LET t == ruTasks[ruW.task]
        q == [worker |-> ruW.inst, token |-> ruW.token]
        fits == RuRenewPg(t, q)
        renewed == [t EXCEPT !.stage = "executing", !.left = RuLease,
                             !.st = IF t.cancel THEN "cancel_requested" ELSE "running"] IN
    /\ ruW.pc \in {"working", "preparing", "bound", "answered"}
    /\ \/ /\ fits
          /\ ruTasks' = [ruTasks EXCEPT ![ruW.task] = renewed]
          /\ ruW' = IF t.cancel /\ ~RuChangesInstallation(RuAct)
                    THEN [ruW EXCEPT !.pc = "finished",
                                     !.rep = RuReport("cancelled", 0, "none")]
                    ELSE ruW
          /\ UNCHANGED ruFaults
       \/ ~fits /\ RuBackToLoop /\ UNCHANGED <<ruTasks, ruFaults>>
       \/ /\ RuFault /\ RuBackToLoop
          /\ ruTasks' \in {ruTasks} \cup
                IF fits THEN {[ruTasks EXCEPT ![ruW.task] = renewed]} ELSE {}
    /\ UNCHANGED <<ruReceipt, ruQuar, ruLocal, ruDone, ruOps, ruLate>>

\* the last report of execute_claim; a failed restart operation drops the
\* receipt once the server knows
RuReportOutcome ==
    /\ RuAt("finished")
    /\ RuSend(ruW.task, ruW.inst, ruW.token, ruW.rep,
              /\ RuBackToLoop
              /\ ruReceipt' = IF RuRequiresRestart(RuAct) THEN RuNoReceipt
                                                          ELSE ruReceipt,
              RuBackToLoop /\ UNCHANGED ruReceipt)
    /\ UNCHANGED <<ruQuar, ruLocal, ruDone, ruOps>>

\* prepare_restart, and the receipt written before the server hears of it
RuPrepareRestart ==
    /\ RuAt("preparing")
    /\ \/ /\ ruOps' = ruOps + 1
          /\ ruW' = [ruW EXCEPT !.pc = "bound", !.op = ruOps + 1]
          /\ ruReceipt' = [task |-> ruW.task, worker |-> ruW.inst,
                           token |-> ruW.token, op |-> ruOps + 1, left |-> RuResume]
          /\ UNCHANGED ruFaults
       \/ RuFault /\ RuOperationFailed /\ UNCHANGED <<ruOps, ruReceipt>>
    /\ UNCHANGED <<ruTasks, ruQuar, ruLocal, ruDone, ruLate>>

\* the answer carries the time left until the bound resume deadline
RuReportAwaiting ==
    /\ RuAt("bound")
    /\ RuSend(ruW.task, ruW.inst, ruW.token, RuReport("awaiting", ruW.op, "none"),
              ruW' = [ruW EXCEPT !.pc = "answered", !.left = RuResume],
              RuOperationFailed)
    /\ UNCHANGED <<ruReceipt, ruQuar, ruLocal, ruDone, ruOps>>

\* apply_staged_with_operation_id, rollback_staged_with_operation_id: the
\* local updater takes the operation and the process is asked to exit
RuSchedule(op, act, failed) ==
    \/ /\ ~ruLocal.active
       /\ ruLocal' = [st |-> "scheduled", op |-> op, act |-> act, active |-> TRUE]
       /\ ruW' = [RuIdleWorker(ruW.inst) EXCEPT !.pc = "down"]
       /\ UNCHANGED ruFaults
    \/ ruLocal.active /\ failed /\ UNCHANGED <<ruLocal, ruFaults>>
    \/ /\ ~ruLocal.active /\ RuFault /\ failed
       /\ ruLocal' \in {ruLocal, [st |-> "failed", op |-> op, act |-> act,
                                  active |-> FALSE]}

\* mutant: the bound deadline is not compared with the clock
RuRestartAnsweredLate ==
    /\ RuAt("answered")
    /\ RuGoto("scheduling")
    /\ UNCHANGED <<ruTasks, ruReceipt, ruQuar, ruLocal, ruDone, ruOps, ruLate, ruFaults>>

\* validate_restart_binding: the last comparison with the clock
RuRestartAnswered ==
    /\ RuAt("answered")
    /\ \/ ruW.left > 0 /\ RuGoto("scheduling")
       \/ ruW.left = 0 /\ RuOperationFailed
    /\ UNCHANGED <<ruTasks, ruReceipt, ruQuar, ruLocal, ruDone, ruOps, ruLate, ruFaults>>

\* the scheduling itself, without another look at the clock
RuRestartScheduled ==
    /\ RuAt("scheduling")
    /\ RuSchedule(ruW.op, RuAct, RuOperationFailed)
    /\ UNCHANGED <<ruTasks, ruReceipt, ruQuar, ruDone, ruOps, ruLate>>

-----------------------------------------------------------------------------
(* resume_pending_restart, with the receipt's worker and lease token.      *)

RuQuarantine ==
    ruQuar' = TRUE /\ ruReceipt' = RuNoReceipt /\ RuBackToLoop

RuReceiptAct == ruTasks[ruReceipt.task].act
RuExpectedTerminal == IF RuReceiptAct = "apply" THEN "succeeded" ELSE "rolled_back"

RuDeadlineExpired == ruReceipt.left = 0

\* reconcile on the server accepts the receipt's worker, token and plan
RuReconcileAccepted(t) ==
    LET q == [worker |-> ruReceipt.worker, token |-> ruReceipt.token] IN
    IF RuTerminal(t)
    THEN /\ t.proof.worker = q.worker /\ t.proof.token = q.token
         /\ t.st = "succeeded" => t.result = ruReceipt.op
    ELSE /\ RuAuthorizeLease(t, q)
         /\ t.stage = "awaiting_restart" /\ t.plan = ruReceipt.op

RuReconcilePg(t) == RuAssertLeader /\ RuReconcileAccepted(t)

RuResumeReconcile ==
    LET ts == RuReconcileExpired(ruTasks)
        t == ts[ruReceipt.task] IN
    /\ RuAt("idle") /\ ruReceipt.op # 0
    /\ IF RuDeadlineExpired
       THEN RuQuarantine /\ UNCHANGED <<ruTasks, ruFaults>>
       ELSE \/ /\ RuReconcilePg(t)
               /\ ruTasks' = ts
               /\ ruW' = [ruW EXCEPT !.pc = "reconciled", !.term = RuTerminal(t),
                                     !.left = t.left,
                                     !.resp = RuReport(t.st, t.result, t.code)]
               /\ UNCHANGED <<ruQuar, ruReceipt, ruFaults>>
            \/ /\ RuAssertLeader /\ ~RuReconcileAccepted(t)
               /\ RuQuarantine /\ UNCHANGED <<ruTasks, ruFaults>>
            \/ RuFault /\ UNCHANGED <<ruTasks, ruW, ruQuar, ruReceipt>>
    /\ UNCHANGED <<ruLocal, ruDone, ruOps, ruLate>>

\* mutant: the status alone says that the operation was completed
RuVerifyCompletedTrusting == TRUE

\* verify_completed_update: the receipt's own operation was completed
RuVerifyCompleted == ruReceipt.op \in ruDone /\ ruLocal.op = ruReceipt.op

\* the answer and the local updater, read after the await
RuResumeDecide ==
    LET busy == ruLocal.active \/ ruLocal.st \in {"scheduled", "installing"}
        stale == ~ruW.term /\ ruW.left = 0 IN
    /\ RuAt("reconciled")
    /\ \/ /\ stale \/ (ruW.term /\ (busy \/ ruLocal.st = "idle"))
             \/ /\ ~busy /\ ruLocal.st = RuExpectedTerminal
                /\ ~RuVerifyCompleted
          /\ RuQuarantine
       \/ /\ ~stale /\ ~ruW.term /\ busy
          /\ RuBackToLoop /\ UNCHANGED <<ruQuar, ruReceipt>>
       \/ /\ ~stale /\ ~ruW.term /\ ~busy /\ ruLocal.st = "idle"
          /\ RuGoto("replanning") /\ UNCHANGED <<ruQuar, ruReceipt>>
       \/ /\ ~stale /\ ~busy /\ ruLocal.st # "idle"
          /\ \/ /\ ruLocal.st = RuExpectedTerminal /\ RuVerifyCompleted
                /\ ruW' = [ruW EXCEPT !.pc = "reporting",
                              !.rep = RuReport("succeeded", ruReceipt.op, "none")]
             \/ /\ ruLocal.st # RuExpectedTerminal
                /\ ruW' = [ruW EXCEPT !.pc = "reporting",
                              !.rep = RuReport("failed", 0, RuReceiptAct)]
          /\ UNCHANGED <<ruQuar, ruReceipt>>
    /\ UNCHANGED <<ruTasks, ruLocal, ruDone, ruOps, ruLate, ruFaults>>

\* prepare_resume_plan, then the repeated AwaitingRestart report
RuResumePlan ==
    /\ RuAt("replanning")
    /\ \/ /\ RuFault /\ RuBackToLoop
          /\ UNCHANGED <<ruTasks, ruQuar, ruReceipt, ruLate>>
       \/ /\ RuDeadlineExpired /\ RuQuarantine
          /\ UNCHANGED <<ruTasks, ruLate, ruFaults>>
       \/ /\ ~RuDeadlineExpired
          /\ RuSend(ruReceipt.task, ruReceipt.worker, ruReceipt.token,
                    RuReport("awaiting", ruReceipt.op, "none"),
                    ruW' = [ruW EXCEPT !.pc = "reanswered",
                                       !.left = ruTasks[ruReceipt.task].resume],
                    RuBackToLoop)
          /\ UNCHANGED <<ruQuar, ruReceipt>>
    /\ UNCHANGED <<ruLocal, ruDone, ruOps>>

RuResumeAnswered ==
    /\ RuAt("reanswered")
    /\ \/ /\ ruW.left = 0 /\ RuBackToLoop
          /\ UNCHANGED <<ruQuar, ruReceipt>>
       \/ /\ ruW.left > 0 /\ RuDeadlineExpired /\ RuQuarantine
       \/ /\ ruW.left > 0 /\ ~RuDeadlineExpired /\ RuGoto("rescheduling")
          /\ UNCHANGED <<ruQuar, ruReceipt>>
    /\ UNCHANGED <<ruTasks, ruLocal, ruDone, ruOps, ruLate, ruFaults>>

RuResumeScheduled ==
    /\ RuAt("rescheduling")
    /\ RuSchedule(ruReceipt.op, RuReceiptAct, RuBackToLoop)
    /\ UNCHANGED <<ruTasks, ruReceipt, ruQuar, ruDone, ruOps, ruLate>>

\* the answer of a terminal task must say what the local updater says
RuResumeReport ==
    LET matches == IF ruW.rep.kind = "succeeded"
                   THEN ruW.resp.kind = "succeeded" /\ ruW.resp.op = ruW.rep.op
                   ELSE ruW.resp.kind = "failed" /\ ruW.resp.code = ruW.rep.code IN
    /\ RuAt("reporting")
    /\ \/ /\ RuDeadlineExpired \/ (ruW.term /\ ~matches)
          /\ RuQuarantine /\ UNCHANGED <<ruTasks, ruLate, ruFaults>>
       \/ /\ ~RuDeadlineExpired /\ ruW.term /\ matches
          /\ RuBackToLoop /\ ruReceipt' = RuNoReceipt
          /\ UNCHANGED <<ruTasks, ruQuar, ruLate, ruFaults>>
       \/ /\ ~RuDeadlineExpired /\ ~ruW.term
          /\ RuSend(ruReceipt.task, ruReceipt.worker, ruReceipt.token, ruW.rep,
                    RuBackToLoop /\ ruReceipt' = RuNoReceipt,
                    RuBackToLoop /\ UNCHANGED ruReceipt)
          /\ UNCHANGED ruQuar
    /\ UNCHANGED <<ruLocal, ruDone, ruOps>>

-----------------------------------------------------------------------------
(* The local updater, in the steps the worker can observe, and the         *)
(* operator's commands.                                                    *)

\* the status and the completed journal, which nobody reads while the
\* marker is there, are one step; the removal of the marker is another
RuHelper ==
    /\ ruLocal.active
    /\ \/ /\ ruLocal.st = "scheduled"
          /\ ruLocal' = [ruLocal EXCEPT !.st = "installing"]
          /\ UNCHANGED <<ruDone, ruFaults>>
       \/ /\ ruLocal.st = "installing"
          /\ ruDone' = ruDone \cup {ruLocal.op}
          /\ ruLocal' = [ruLocal EXCEPT !.st =
                IF ruLocal.act = "rollback" THEN "rolled_back" ELSE "succeeded"]
          /\ UNCHANGED ruFaults
       \/ /\ ruLocal.op \in ruDone
          /\ ruLocal' = [ruLocal EXCEPT !.active = FALSE]
          /\ UNCHANGED <<ruDone, ruFaults>>
       \/ /\ ruLocal.st \in {"scheduled", "installing"} /\ RuFault
          /\ ruLocal' \in {[ruLocal EXCEPT !.st = "failed", !.active = FALSE],
                           [ruLocal EXCEPT !.st = "rolled_back", !.active = FALSE],
                           [ruLocal EXCEPT !.st = "failed"]}
          /\ UNCHANGED ruDone
    /\ UNCHANGED <<ruTasks, ruW, ruReceipt, ruQuar, ruOps, ruLate>>

\* clear_remote_update_quarantine_record
RuClearQuarantine ==
    /\ ruQuar /\ ~ruLocal.active
    /\ ruLocal.st \notin {"scheduled", "installing", "recovery_required"}
    /\ ruQuar' = FALSE
    /\ UNCHANGED <<ruTasks, ruW, ruReceipt, ruLocal, ruDone, ruOps, ruLate, ruFaults>>

RuWorkerStep ==
    \/ (~ruPg /\ RuClaim) \/ RuClaimPg \/ RuReportStarted \/ RuCheckQuarantine \/ RuExecuteAction
    \/ RuReportOutcome \/ RuPrepareRestart \/ RuReportAwaiting \/ RuRestartAnswered
    \/ RuRestartScheduled
    \/ RuResumeReconcile \/ RuResumeDecide \/ RuResumePlan \/ RuResumeAnswered
    \/ RuResumeScheduled \/ RuResumeReport

RuBackend == UNCHANGED <<ruLead, ruPg>>

RuServerSweep == ((~ruPg /\ RuSweep) \/ RuSweepPg) /\ RuBackend
RuTime == RuTick /\ RuBackend
RuWorker == (RuWorkerStep \/ RuWorkerStart) /\ RuBackend

RuNext ==
    \/ \E a \in RuActions : ((~ruPg /\ RuCreate(a)) \/ RuCreatePg(a)) /\ RuBackend
    \/ \E i \in 1..RuMaxTasks : ((~ruPg /\ RuCancel(i)) \/ RuCancelPg(i)) /\ RuBackend
    \/ RuServerSweep \/ RuTime \/ RuLeaderLost \/ RuLeaderBack
    \/ RuWorker
    \/ (RuLateReport \/ RuCrash \/ RuRenew \/ RuHelper \/ RuClearQuarantine) /\ RuBackend

RuSpec == RuInit /\ [][RuNext]_ruVars

-----------------------------------------------------------------------------
\* A task that asks for an installation is reported as succeeded only for an
\* operation the local updater really completed, never on the status an
\* earlier operation left behind (remote_update.rs, resume_pending_restart).
RuSucceededWasInstalled ==
    \A i \in DOMAIN ruTasks :
        ruTasks[i].st = "succeeded" /\ RuRequiresRestart(ruTasks[i].act)
            => ruTasks[i].result \in ruDone

\* The client decides to start an installation only while the server has not
\* closed the task on its own, because the lease ran out or the task was
\* cancelled in the queue: the deadlines in the receipt and in the binding
\* see to it.  The decision is the last look at the clock; the server may
\* still close the task before the local updater has written its marker.
RuDecidedWhileOpen ==
    [][ruW.pc # ruW'.pc /\ ruW'.pc \in {"scheduling", "rescheduling"}
         => LET t == ruTasks[ruReceipt.task] IN
            RuTerminal(t) => t.proof # RuNoProof]_ruVars

\* Nothing of a remote update stays open for good, whatever was lost and
\* whoever died: the receipt that keeps the client from claiming is removed
\* after the report or moved to the quarantine, and every task ends.
RuSettles ==
    /\ []<>(ruReceipt.op = 0)
    /\ \A i \in 1..RuMaxTasks :
          i \in DOMAIN ruTasks ~> (i \in DOMAIN ruTasks /\ RuTerminal(ruTasks[i]))

(***************************************************************************)
(* The files behind RemoteUpdate's receipt and quarantine: two directories *)
(* of create-new files, each published through a temporary (write, link,   *)
(* unlink) that a killed process may leave half done, and the recovery     *)
(* that every access performs (linklake-update lib.rs, durable.rs).        *)
(*                                                                         *)
(* A file's content is the number of a receipt, 0 when the file does not   *)
(* exist and RfTorn when the process died before the bytes were complete.  *)
(* The identities of one installation share the directories; a lock in the *)
(* process makes their workers take turns.                                 *)
(***************************************************************************)
CONSTANTS
    RfClients,      \* cloud identities of this installation
    RfMaxReceipts,  \* bound on the receipts written
    RfMaxKills      \* bound on kills of the process

ASSUME RfAssumption ==
    /\ RfClients # {} /\ IsFiniteSet(RfClients)
    /\ RfMaxReceipts \in Nat /\ RfMaxKills \in Nat

RfTorn == RfMaxReceipts + 1

VARIABLES
    rfReceipt,  \* remote-resume-<client>.json
    rfTmp,      \* its temporary: [data, old], old once five seconds passed
    rfRecord,   \* remote-quarantine-<id>.json by receipt number
    rfRecTmp,   \* the temporary of a record
    rfProc,     \* the process: [pc, c, r]
    rfOwed,     \* receipts published and neither reported nor cleared
    rfCount, rfKills

rfVars == <<rfReceipt, rfTmp, rfRecord, rfRecTmp, rfProc, rfOwed, rfCount, rfKills>>

RfIds == 1..RfTorn
RfNone == [data |-> 0, old |-> FALSE]
RfIdle == [pc |-> "idle", c |-> CHOOSE c \in RfClients : TRUE, r |-> 0]
RfFresh(data) == [data |-> data, old |-> FALSE]

RfInit ==
    /\ rfReceipt = [c \in RfClients |-> 0]
    /\ rfTmp = [c \in RfClients |-> RfNone]
    /\ rfRecord = [i \in RfIds |-> 0]
    /\ rfRecTmp = [i \in RfIds |-> RfNone]
    /\ rfProc = RfIdle
    /\ rfOwed = {} /\ rfCount = 0 /\ rfKills = 0

\* a temporary is settled when it is gone, or when it is old enough for the
\* recovery that opens the path and does not contradict the target
RfRecoverable(tmp, target) ==
    tmp.data # 0 /\ tmp.old /\ (target = 0 \/ target = tmp.data)

\* remote_update_resume_path: recover_remote_resume_temporaries
RfRecoverResume(c) ==
    /\ rfProc.pc = "idle"
    /\ RfRecoverable(rfTmp[c], rfReceipt[c])
    /\ rfReceipt' = [rfReceipt EXCEPT ![c] = rfTmp[c].data]
    /\ rfTmp' = [rfTmp EXCEPT ![c] = RfNone]
    /\ rfOwed' = (rfOwed \cup {rfTmp[c].data}) \ {RfTorn}
    /\ UNCHANGED <<rfRecord, rfRecTmp, rfProc, rfCount, rfKills>>

\* remote_update_quarantine_directory: recover_remote_quarantine_temporaries
RfRecoverQuarantine(i) ==
    /\ rfProc.pc = "idle"
    /\ RfRecoverable(rfRecTmp[i], rfRecord[i])
    /\ rfRecord' = [rfRecord EXCEPT ![i] = rfRecTmp[i].data]
    /\ rfRecTmp' = [rfRecTmp EXCEPT ![i] = RfNone]
    /\ UNCHANGED <<rfReceipt, rfTmp, rfProc, rfOwed, rfCount, rfKills>>

\* five seconds pass over whatever a killed process left
RfAge ==
    /\ rfProc.pc = "idle"
    /\ rfTmp' = [c \in RfClients |-> [rfTmp[c] EXCEPT !.old = rfTmp[c].data # 0]]
    /\ rfRecTmp' = [i \in RfIds |-> [rfRecTmp[i] EXCEPT !.old = rfRecTmp[i].data # 0]]
    /\ UNCHANGED <<rfReceipt, rfRecord, rfProc, rfOwed, rfCount, rfKills>>

\* any_remote_update_resume_receipt_exists
RfAnyReceipt == \E c \in RfClients : rfReceipt[c] # 0 \/ rfTmp[c].data # 0

\* any_remote_update_quarantine_exists; an unreadable record is an error, which
\* keeps the worker from claiming as well
RfAnyQuarantine == \E i \in RfIds : rfRecord[i] # 0 \/ rfRecTmp[i].data # 0

\* the worker has claimed a task and writes its receipt:
\* write_durable_bytes_create_new, one file operation per step
RfCreateReceipt(c) ==
    /\ rfProc.pc = "idle"
    /\ ~RfAnyReceipt /\ ~RfAnyQuarantine
    /\ rfCount < RfMaxReceipts
    /\ rfReceipt[c] = 0
    /\ rfCount' = rfCount + 1
    /\ rfTmp' = [rfTmp EXCEPT ![c] = RfFresh(RfTorn)]
    /\ rfProc' = [pc |-> "temp", c |-> c, r |-> rfCount + 1]
    /\ UNCHANGED <<rfReceipt, rfRecord, rfRecTmp, rfOwed, rfKills>>

RfFillReceipt ==
    /\ rfProc.pc = "temp"
    /\ rfTmp' = [rfTmp EXCEPT ![rfProc.c] = RfFresh(rfProc.r)]
    /\ rfProc' = [rfProc EXCEPT !.pc = "filled"]
    /\ UNCHANGED <<rfReceipt, rfRecord, rfRecTmp, rfOwed, rfCount, rfKills>>

RfLinkReceipt ==
    /\ rfProc.pc = "filled"
    /\ rfReceipt[rfProc.c] = 0
    /\ rfReceipt' = [rfReceipt EXCEPT ![rfProc.c] = rfProc.r]
    /\ rfOwed' = rfOwed \cup {rfProc.r}
    /\ rfProc' = [rfProc EXCEPT !.pc = "linked"]
    /\ UNCHANGED <<rfTmp, rfRecord, rfRecTmp, rfCount, rfKills>>

RfUnlinkReceiptTmp ==
    /\ rfProc.pc = "linked"
    /\ rfTmp' = [rfTmp EXCEPT ![rfProc.c] = RfNone]
    /\ rfProc' = RfIdle
    /\ UNCHANGED <<rfReceipt, rfRecord, rfRecTmp, rfOwed, rfCount, rfKills>>

\* the task was reported: remove_remote_update_resume_receipt
RfReported(c) ==
    /\ rfProc.pc = "idle"
    /\ rfReceipt[c] \notin {0, RfTorn} /\ rfTmp[c].data = 0
    /\ rfOwed' = rfOwed \ {rfReceipt[c]}
    /\ rfReceipt' = [rfReceipt EXCEPT ![c] = 0]
    /\ UNCHANGED <<rfTmp, rfRecord, rfRecTmp, rfProc, rfCount, rfKills>>

\* mutant: the receipt is removed before its record is on disk
RfQuarantineRemovesFirst(c) ==
    /\ rfProc.pc = "idle" /\ rfReceipt[c] # 0 /\ rfTmp[c].data = 0
    /\ LET i == rfReceipt[c] IN
       /\ rfRecTmp[i].data = 0 /\ rfRecord[i] = 0
       /\ rfRecTmp' = [rfRecTmp EXCEPT ![i] = RfFresh(RfTorn)]
       /\ rfProc' = [pc |-> "record", c |-> c, r |-> i]
    /\ rfReceipt' = [rfReceipt EXCEPT ![c] = 0]
    /\ UNCHANGED <<rfTmp, rfRecord, rfOwed, rfCount, rfKills>>

\* quarantine_remote_update_resume_receipt: the record first, unless an
\* earlier attempt published it
RfQuarantine(c) ==
    /\ rfProc.pc = "idle" /\ rfReceipt[c] # 0 /\ rfTmp[c].data = 0
    /\ LET i == rfReceipt[c] IN
       /\ rfRecTmp[i].data = 0
       /\ \/ /\ rfRecord[i] = 0
             /\ rfRecTmp' = [rfRecTmp EXCEPT ![i] = RfFresh(RfTorn)]
             /\ rfProc' = [pc |-> "record", c |-> c, r |-> i]
          \/ /\ rfRecord[i] = i
             /\ rfProc' = [pc |-> "recorded", c |-> c, r |-> i]
             /\ UNCHANGED rfRecTmp
    /\ UNCHANGED <<rfReceipt, rfTmp, rfRecord, rfOwed, rfCount, rfKills>>

RfFillRecord ==
    /\ rfProc.pc = "record"
    /\ rfRecTmp' = [rfRecTmp EXCEPT ![rfProc.r] = RfFresh(rfProc.r)]
    /\ rfProc' = [rfProc EXCEPT !.pc = "record_filled"]
    /\ UNCHANGED <<rfReceipt, rfTmp, rfRecord, rfOwed, rfCount, rfKills>>

RfLinkRecord ==
    /\ rfProc.pc = "record_filled"
    /\ rfRecord' = [rfRecord EXCEPT ![rfProc.r] = rfProc.r]
    /\ rfProc' = [rfProc EXCEPT !.pc = "record_linked"]
    /\ UNCHANGED <<rfReceipt, rfTmp, rfRecTmp, rfOwed, rfCount, rfKills>>

RfUnlinkRecordTmp ==
    /\ rfProc.pc = "record_linked"
    /\ rfRecTmp' = [rfRecTmp EXCEPT ![rfProc.r] = RfNone]
    /\ rfProc' = [rfProc EXCEPT !.pc = "recorded"]
    /\ UNCHANGED <<rfReceipt, rfTmp, rfRecord, rfOwed, rfCount, rfKills>>

RfRemoveReceipt ==
    /\ rfProc.pc = "recorded"
    /\ rfReceipt' = [rfReceipt EXCEPT ![rfProc.c] = 0]
    /\ rfProc' = RfIdle
    /\ UNCHANGED <<rfTmp, rfRecord, rfRecTmp, rfOwed, rfCount, rfKills>>

\* clear_remote_update_quarantine_record reads the record it removes
RfClearRecord(i) ==
    /\ rfProc.pc = "idle"
    /\ rfRecord[i] = i /\ rfRecTmp[i].data = 0
    /\ rfRecord' = [rfRecord EXCEPT ![i] = 0]
    /\ rfOwed' = rfOwed \ {i}
    /\ UNCHANGED <<rfReceipt, rfTmp, rfRecTmp, rfProc, rfCount, rfKills>>

RfKill ==
    /\ rfProc.pc # "idle" /\ rfKills < RfMaxKills
    /\ rfProc' = RfIdle /\ rfKills' = rfKills + 1
    /\ UNCHANGED <<rfReceipt, rfTmp, rfRecord, rfRecTmp, rfOwed, rfCount>>

RfNext ==
    \/ \E c \in RfClients : \/ RfRecoverResume(c) \/ RfCreateReceipt(c)
                            \/ RfReported(c) \/ RfQuarantine(c)
    \/ RfFillReceipt \/ RfLinkReceipt \/ RfUnlinkReceiptTmp
    \/ RfFillRecord \/ RfLinkRecord \/ RfUnlinkRecordTmp \/ RfRemoveReceipt
    \/ \E i \in RfIds : RfRecoverQuarantine(i) \/ RfClearRecord(i)
    \/ RfAge \/ RfKill

RfSpec == RfInit /\ [][RfNext]_rfVars

-----------------------------------------------------------------------------
\* The evidence of an unfinished update is never lost: a receipt that was
\* published and neither reported nor cleared is still there, or is
\* complete in the quarantine, wherever the process was killed.
RfEvidenceKept ==
    \A r \in rfOwed :
        (\E c \in RfClients : rfReceipt[c] = r) \/ rfRecord[r] = r

\* No identity claims a task while another identity's receipt, or what a
\* killed process left of one, is unresolved.
RfOneReceipt ==
    \A c, d \in RfClients :
        /\ rfReceipt[c] # 0 \/ rfTmp[c].data # 0
        /\ rfReceipt[d] # 0 \/ rfTmp[d].data # 0
        => c = d

\* Receipts are neither lost nor held by two identities at once.
RfReceiptsSafe == RfEvidenceKept /\ RfOneReceipt
=============================================================================
