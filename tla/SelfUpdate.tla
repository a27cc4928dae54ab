---------------------------- MODULE SelfUpdate ------------------------------
(***************************************************************************)
(* Helpers that replace what is installed: the executable of a client or a *)
(* server (Su) and the directory of the Manager application (Mg).          *)
(***************************************************************************)
EXTENDS Naturals, Sequences, FiniteSets

(***************************************************************************)
(* linklake-update: the crash-safe replacement of an installed executable  *)
(* by a detached helper process, for the client (executable only) and the  *)
(* server (executable and SQLite database).  A scheduler writes a journal  *)
(* and an active marker, a helper takes the update lock and walks through  *)
(* stop, backup, preflight, replace, handoff and completion, and `update   *)
(* recover` finishes what a dead helper left behind.                       *)
(*                                                                         *)
(* A version is a number and the schema a server migrates its database to  *)
(* is the number of its version.  Digests, paths and HMACs are abstracted  *)
(* to the identity of the file they bind.                                  *)
(***************************************************************************)
CONSTANTS
    SuProducts,     \* products an instance may be about: "client", "server"
    SuVersions,     \* released versions, numbers greater than 0
    SuMaxOps,       \* bound on the operations scheduled
    SuMaxWrites,    \* bound on the writes the server accepts
    SuMaxFaults,    \* bound on failing steps, kills and reboots
    SuRecoverRaces  \* TRUE: recover may run while a spawned helper waits

ASSUME SuAssumption ==
    /\ SuProducts \subseteq {"client", "server"}
    /\ SuVersions \subseteq Nat \ {0} /\ SuVersions # {}
    /\ SuMaxOps \in Nat /\ SuMaxWrites \in Nat /\ SuMaxFaults \in Nat
    /\ SuRecoverRaces \in BOOLEAN

VARIABLES
    suProduct,  \* the product this state directory belongs to
    suAuto,     \* the service starts at boot whatever active.json says
    suBin,      \* version at the install path, 0 while the file is missing
    suDb,       \* [schema, writes] of linklake.sqlite3
    suSvc,      \* version of the running service, 0 when stopped
    suOps,      \* the operations scheduled so far: plan.json of each
    suJournal,  \* journal.json of each operation: [stage, backup]
    suBackups,  \* contents of each operation's backup directory
    suActive,   \* operation named by active.json, 0 when there is none
    suStatus,   \* status.json: [state, op]
    suReady,    \* operation whose readiness receipt is published, or 0
    suSpawned,  \* helpers that do not hold the lock yet: [op, valid]
    suProc,     \* the holder of the update lock: [who, op, pc, held]
    suAccepted, \* writes accepted by a candidate of an unfinished update
    suConsent,  \* the operator has confirmed a loss of data
    suFaults    \* faults so far

suVars == <<suProduct, suAuto, suBin, suDb, suSvc, suOps, suJournal, suBackups,
            suActive, suStatus, suReady, suSpawned, suProc, suAccepted,
            suConsent, suFaults>>

\* held: the version a rename of a restore has moved aside
SuProcess(who, o, pc) == [who |-> who, op |-> o, pc |-> pc, held |-> 0]
SuNobody == SuProcess("none", 0, "idle")
suSite == <<suProduct, suAuto>>
SuNoBackup == [bin |-> 0, db |-> [schema |-> 0, writes |-> {}]]

SuHandoffStage(stage) ==
    stage \in {"candidate_starting", "candidate_started", "candidate_ready"}

SuTerminalStage(stage) ==
    stage \in {"completed", "rolled_back", "recovered",
               "failed_before_replacement", "helper_spawn_failed"}

SuOp == suOps[suProc.op]
SuStageOf(o) == suJournal[o].stage
SuLockFree == suProc = SuNobody

\* stage changes only; the backup directory is carried along
SuWriteJournal(o, stage, backup) ==
    suJournal' = [suJournal EXCEPT ![o] = [stage |-> stage, backup |-> backup]]

SuWriteStatus(state, o) == suStatus' = [state |-> state, op |-> o]

SuAt(who, pc) == suProc.who \in who /\ suProc.pc = pc
SuGoto(pc) == suProc' = [suProc EXCEPT !.pc = pc]
SuRelease == suProc' = SuNobody

\* a step of the code that may fail spends one fault
SuFault == suFaults < SuMaxFaults /\ suFaults' = suFaults + 1

SuInit ==
    /\ suProduct \in SuProducts
    /\ suAuto \in IF suProduct = "client" THEN {TRUE} ELSE BOOLEAN
    /\ suBin = 1
    /\ suDb = [schema |-> 1, writes |-> {}]
    /\ suSvc \in {0, 1}
    /\ suOps = <<>> /\ suJournal = <<>> /\ suBackups = <<>>
    /\ suActive = 0
    /\ suStatus = [state |-> "idle", op |-> 0]
    /\ suReady = 0
    /\ suSpawned = {}
    /\ suProc = SuNobody
    /\ suAccepted = {}
    /\ suConsent = FALSE
    /\ suFaults = 0

(***************************************************************************)
(* Scheduling (schedule_update under the update lock).                     *)
(***************************************************************************)
\* the newest backup whose executable differs from the installed one
SuRollbackBackups ==
    {o \in 1..Len(suOps) : suBackups[o].bin \notin {0, suBin}}

SuLatestRollbackBackup ==
    CHOOSE o \in SuRollbackBackups : \A p \in SuRollbackBackups : p <= o

\* writes plan, journal and marker, in this order, holding the lock
SuSchedule(kind, to, snap, restore) ==
    /\ SuLockFree
    /\ suActive = 0
    /\ suBin # 0
    /\ Len(suOps) < SuMaxOps
    /\ suOps' = Append(suOps, [kind |-> kind, from |-> suBin, to |-> to,
                               running |-> suSvc # 0, snap |-> snap,
                               restore |-> restore])
    /\ suJournal' = Append(suJournal, [stage |-> "scheduled", backup |-> FALSE])
    /\ suBackups' = Append(suBackups, SuNoBackup)
    /\ suActive' = Len(suOps) + 1
    /\ suProc' = SuProcess("scheduler", Len(suOps) + 1, "spawn")
    /\ UNCHANGED <<suSite, suBin, suDb, suSvc, suStatus, suReady, suSpawned,
                   suAccepted, suFaults>>

\* apply / server_apply: a signed release newer than the installed one
SuApply ==
    /\ \E v \in SuVersions : v > suBin /\ SuSchedule("apply", v, 0, FALSE)
    /\ UNCHANGED suConsent

\* rollback of a client: the executable of the newest usable backup
SuRollback ==
    /\ suProduct = "client"
    /\ SuRollbackBackups # {}
    /\ SuSchedule("rollback", suBackups[SuLatestRollbackBackup].bin,
                  SuLatestRollbackBackup, FALSE)
    /\ UNCHANGED suConsent

\* authorize_manual_database_rollback: same schema and ledger needs no
\* database restore; crossing the boundary needs both confirmations
SuBinaryOnly(snap) == suDb.schema = suBackups[snap].db.schema

SuServerRollback ==
    /\ suProduct = "server"
    /\ SuRollbackBackups # {}
    /\ LET snap == SuLatestRollbackBackup
           restore == ~SuBinaryOnly(snap)
       IN /\ SuSchedule("rollback", suBackups[snap].bin, snap, restore)
          /\ suConsent' = (suConsent \/ restore)

\* the rest of schedule_update: the helper is started, or preparing it
\* fails and ActiveMarkerGuard removes the marker, or spawning it fails and
\* the failure is recorded before the marker is removed
SuSpawn ==
    /\ SuAt({"scheduler"}, "spawn")
    /\ \/ /\ SuWriteStatus("scheduled", suProc.op)
          /\ suSpawned' = suSpawned \cup {[op |-> suProc.op, valid |-> FALSE]}
          /\ SuRelease
          /\ UNCHANGED <<suActive, suJournal, suFaults>>
       \/ /\ SuFault
          /\ suActive' = 0
          /\ SuRelease
          /\ UNCHANGED <<suStatus, suSpawned, suJournal>>
       \/ /\ SuFault
          /\ SuWriteStatus("failed", suProc.op)
          /\ SuWriteJournal(suProc.op, "helper_spawn_failed", FALSE)
          /\ SuGoto("clear")
          /\ UNCHANGED <<suActive, suSpawned>>
    /\ UNCHANGED <<suSite, suBin, suDb, suSvc, suOps, suBackups, suReady,
                   suAccepted, suConsent>>

(***************************************************************************)
(* The helper before it holds the lock (run_helper).                       *)
(***************************************************************************)
SuValidate(h) ==
    /\ h \in suSpawned /\ ~h.valid
    /\ IF suBin = suOps[h.op].from /\ suActive = h.op
       THEN /\ suSpawned' = (suSpawned \ {h}) \cup {[h EXCEPT !.valid = TRUE]}
            /\ UNCHANGED suStatus
       ELSE /\ suSpawned' = suSpawned \ {h}
            /\ SuWriteStatus("failed", h.op)
    /\ UNCHANGED <<suSite, suBin, suDb, suSvc, suOps, suJournal, suBackups,
                   suActive, suReady, suProc, suAccepted, suConsent, suFaults>>

\* the lock is tried once; a helper that does not get it dies silently
SuTakeLock(h) ==
    /\ h \in suSpawned /\ h.valid
    /\ suSpawned' = suSpawned \ {h}
    /\ IF SuLockFree
       THEN /\ suProc' = SuProcess("helper", h.op, "started")
            /\ SuWriteJournal(h.op, "helper_started", FALSE)
            /\ SuWriteStatus("installing", h.op)
       ELSE UNCHANGED <<suProc, suJournal, suStatus>>
    /\ UNCHANGED <<suSite, suBin, suDb, suSvc, suOps, suBackups, suActive,
                   suReady, suAccepted, suConsent, suFaults>>

(***************************************************************************)
(* execute_helper_inner, one step per durable effect.                      *)
(***************************************************************************)
\* clear_active_marker refuses a marker of another operation
SuClearMarker(o) == suActive' = IF suActive = o THEN 0 ELSE suActive

\* "the update failed before replacement"
SuFailBeforeReplacement ==
    /\ SuFault
    /\ SuWriteStatus("failed", suProc.op)
    /\ SuWriteJournal(suProc.op, "failed_before_replacement", FALSE)
    /\ SuClearMarker(suProc.op)
    /\ SuRelease

SuStopService ==
    /\ SuAt({"helper"}, "started")
    /\ \/ /\ SuOp.running \/ suSvc = 0
          /\ suSvc' = 0
          /\ SuWriteJournal(suProc.op, "service_stopped", FALSE)
          /\ SuGoto("stopped")
          /\ UNCHANGED <<suStatus, suActive, suFaults>>
       \/ SuFailBeforeReplacement /\ UNCHANGED suSvc
    /\ UNCHANGED <<suSite, suBin, suDb, suOps, suBackups, suReady,
                   suSpawned, suAccepted, suConsent>>

\* mutant: the journal forgets to name the backup directory
SuCreateBackupUnnamed ==
    /\ SuAt({"helper"}, "stopped")
    /\ suBackups' = [suBackups EXCEPT ![suProc.op] = [bin |-> suBin, db |-> suDb]]
    /\ SuWriteJournal(suProc.op, "backup_created", FALSE)
    /\ SuGoto("backed")
    /\ UNCHANGED <<suSite, suBin, suDb, suSvc, suOps, suActive, suStatus,
                   suReady, suSpawned, suAccepted, suConsent, suFaults>>

\* create_backup copies the executable and, for a server, snapshots the
\* database; when it fails the service is restarted
SuCreateBackup ==
    /\ SuAt({"helper"}, "stopped")
    /\ \/ /\ suBackups' = [suBackups EXCEPT ![suProc.op] =
                              [bin |-> suBin, db |-> suDb]]
          /\ SuWriteJournal(suProc.op, "backup_created", TRUE)
          /\ SuGoto("backed")
          /\ UNCHANGED <<suSvc, suStatus, suActive, suFaults>>
       \/ /\ SuFailBeforeReplacement
          /\ suSvc' = IF SuOp.running THEN suBin ELSE 0
          /\ UNCHANGED suBackups
    /\ UNCHANGED <<suSite, suBin, suDb, suOps, suReady, suSpawned,
                   suAccepted, suConsent>>

SuFailing == SuFault /\ SuGoto("failing")

\* prepare_server_database_transition: an apply rehearses the migration
\* on a copy; a rollback that crosses a schema restores the database now
SuPrepareDatabase ==
    /\ SuAt({"helper"}, "backed")
    /\ \/ /\ SuGoto("prepared")
          /\ CASE suProduct = "server" /\ SuOp.kind = "apply" ->
                    /\ SuWriteJournal(suProc.op, "database_preflighted", TRUE)
                    /\ UNCHANGED suDb
               [] suProduct = "server" /\ SuOp.restore ->
                    /\ suDb' = suBackups[SuOp.snap].db
                    /\ SuWriteJournal(suProc.op,
                          "database_restored_for_manual_rollback", TRUE)
               [] OTHER -> UNCHANGED <<suDb, suJournal>>
          /\ UNCHANGED suFaults
       \/ SuFailing /\ UNCHANGED <<suDb, suJournal>>
    /\ UNCHANGED <<suSite, suBin, suSvc, suOps, suBackups, suActive,
                   suStatus, suReady, suSpawned, suAccepted, suConsent>>

\* the two renames of atomic_replace_with_retry; between them the install
\* path is empty, and a failing second rename moves the old file back
SuReplace ==
    /\ \/ SuAt({"helper"}, "prepared") /\ suBin' = 0 /\ SuGoto("moved")
          /\ UNCHANGED suFaults
       \/ SuAt({"helper"}, "prepared") /\ SuFailing /\ UNCHANGED suBin
       \/ SuAt({"helper"}, "moved") /\ suBin' = SuOp.to /\ SuGoto("replaced")
          /\ UNCHANGED suFaults
       \/ SuAt({"helper"}, "moved") /\ suBin' = SuOp.from /\ SuFailing
    /\ UNCHANGED <<suSite, suDb, suSvc, suOps, suJournal, suBackups,
                   suActive, suStatus, suReady, suSpawned, suAccepted,
                   suConsent>>

SuHandoffRequired == suProduct = "server" /\ SuOp.running

\* without a handoff the service, if it ran, is simply started again
SuRestartService ==
    /\ SuAt({"helper"}, "replaced") /\ ~SuHandoffRequired
    /\ \/ /\ suSvc' = IF SuOp.running THEN suBin ELSE 0
          /\ SuGoto("installed")
          /\ UNCHANGED suFaults
       \/ SuFailing /\ UNCHANGED suSvc
    /\ UNCHANGED <<suSite, suBin, suDb, suOps, suJournal, suBackups,
                   suActive, suStatus, suReady, suSpawned, suAccepted,
                   suConsent>>

\* the readiness request and the uncertain stage precede the start; before
\* them the installed executable is verified
SuPrepareHandoff ==
    /\ SuAt({"helper"}, "replaced") /\ SuHandoffRequired
    /\ \/ /\ suReady' = 0
          /\ SuWriteJournal(suProc.op, "candidate_starting", TRUE)
          /\ SuGoto("handoff")
          /\ UNCHANGED suFaults
       \/ SuFailing /\ UNCHANGED <<suReady, suJournal>>
    /\ UNCHANGED <<suSite, suBin, suDb, suSvc, suOps, suBackups, suActive,
                   suStatus, suSpawned, suAccepted, suConsent>>

\* a starting server migrates the database forward, never back
SuMigrated ==
    [suDb EXCEPT !.schema = IF suBin > @ THEN suBin ELSE @]

\* a started candidate has migrated the database, even when the start is
\* then judged unstable
SuStartCandidate ==
    /\ SuAt({"helper"}, "handoff")
    /\ suSvc' = suBin
    /\ suDb' = SuMigrated
    /\ \/ /\ SuWriteJournal(suProc.op, "candidate_started", TRUE)
          /\ SuGoto("candidate")
          /\ UNCHANGED suFaults
       \/ SuFailing /\ UNCHANGED suJournal
    /\ UNCHANGED <<suSite, suBin, suOps, suBackups, suActive, suStatus,
                   suReady, suSpawned, suAccepted, suConsent>>

SuAwaitReadiness ==
    /\ SuAt({"helper"}, "candidate")
    /\ \/ /\ suReady = suProc.op
          /\ SuWriteJournal(suProc.op, "candidate_ready", TRUE)
          /\ SuGoto("installed")
          /\ UNCHANGED suFaults
       \/ SuFailing /\ UNCHANGED suJournal
    /\ UNCHANGED <<suSite, suBin, suDb, suSvc, suOps, suBackups, suActive,
                   suStatus, suReady, suSpawned, suAccepted, suConsent>>

\* publish_server_update_readiness, when a request waits
SuPublishReadiness ==
    /\ suProduct = "server" /\ suSvc # 0
    /\ \E o \in 1..Len(suOps) :
          /\ SuHandoffStage(SuStageOf(o)) /\ suSvc = suOps[o].to
          /\ suReady # o
          /\ suReady' = o
    /\ UNCHANGED <<suSite, suBin, suDb, suSvc, suOps, suJournal, suBackups,
                   suActive, suStatus, suSpawned, suProc, suAccepted,
                   suConsent, suFaults>>

\* status, journal and marker of a finished update, in this order
SuComplete ==
    /\ \/ /\ SuAt({"helper"}, "installed")
          /\ SuWriteStatus(IF SuOp.kind = "rollback" THEN "rolled_back"
                                                     ELSE "succeeded",
                           suProc.op)
          /\ SuGoto("reported")
          /\ UNCHANGED <<suJournal, suReady, suActive>>
       \/ /\ SuAt({"helper"}, "reported")
          /\ SuWriteJournal(suProc.op, "completed", TRUE)
          /\ suReady' = 0
          /\ SuGoto("clear")
          /\ UNCHANGED <<suStatus, suActive>>
    /\ UNCHANGED <<suSite, suBin, suDb, suSvc, suOps, suBackups, suSpawned,
                   suAccepted, suConsent, suFaults>>

\* clear_active_marker, the last step of a helper, of a recovery and of a
\* scheduler whose helper did not start
SuClearActiveMarker ==
    /\ SuAt({"scheduler", "helper", "recover"}, "clear")
    /\ SuClearMarker(suProc.op)
    /\ SuRelease
    /\ UNCHANGED <<suSite, suBin, suDb, suSvc, suOps, suJournal, suBackups,
                   suStatus, suReady, suSpawned, suAccepted, suConsent,
                   suFaults>>

(***************************************************************************)
(* Failure after the backup exists.                                        *)
(***************************************************************************)
\* server_handoff_failure_route: once the candidate may have started there
\* is no automatic rollback; it is stopped and the marker stays
SuFailureRoute ==
    /\ SuAt({"helper"}, "failing")
    /\ IF suProduct = "server" /\ SuHandoffStage(SuStageOf(suProc.op))
       THEN \/ /\ suSvc' = 0
               /\ SuWriteStatus("failed", suProc.op)
               /\ SuWriteJournal(suProc.op, "recovery_required", TRUE)
               /\ SuRelease
               /\ UNCHANGED suFaults
            \/ /\ SuFault
               /\ SuRelease
               /\ UNCHANGED <<suSvc, suStatus, suJournal>>
       ELSE /\ SuGoto("restore")
            /\ UNCHANGED <<suSvc, suStatus, suJournal, suFaults>>
    /\ UNCHANGED <<suSite, suBin, suDb, suOps, suBackups, suActive, suReady,
                   suSpawned, suAccepted, suConsent>>

\* both the helper and server recovery record a failed restore; the
\* recovery of a client only returns the error
SuRestoreFails ==
    /\ SuFault
    /\ SuRelease
    /\ IF suProc.who = "recover" /\ suProduct = "client"
       THEN UNCHANGED <<suStatus, suJournal>>
       ELSE /\ SuWriteStatus("failed", suProc.op)
            /\ SuWriteJournal(suProc.op, "recovery_required", TRUE)

\* mutant: the database is left as the candidate migrated it
SuRestoreDatabaseSkipped ==
    /\ SuAt({"helper", "recover"}, "restore")
    /\ suSvc' = 0
    /\ suReady' = 0
    /\ SuGoto("restore_bin")
    /\ UNCHANGED <<suDb, suJournal, suStatus, suFaults>>
    /\ UNCHANGED <<suSite, suBin, suOps, suBackups, suActive, suSpawned,
                   suAccepted, suConsent>>

\* restore_after_failure, first half: the service is stopped and the
\* database restored before the executable
SuRestoreDatabase ==
    /\ SuAt({"helper", "recover"}, "restore")
    /\ \/ /\ suSvc' = 0
          /\ suReady' = 0
          /\ SuGoto("restore_bin")
          /\ IF suProduct = "server"
             THEN /\ suDb' = suBackups[suProc.op].db
                  /\ SuWriteJournal(suProc.op,
                                    "database_restored_for_rollback", TRUE)
             ELSE UNCHANGED <<suDb, suJournal>>
          /\ UNCHANGED <<suStatus, suFaults>>
       \/ SuRestoreFails /\ UNCHANGED <<suSvc, suReady, suDb>>
    /\ UNCHANGED <<suSite, suBin, suOps, suBackups, suActive, suSpawned,
                   suAccepted, suConsent>>

\* second half: the two renames of atomic_restore_with_retry, which allows
\* the install path to be empty and moves back what it moved aside when the
\* second rename fails
SuRestoreBinary ==
    /\ \/ /\ SuAt({"helper", "recover"}, "restore_bin")
          /\ suBin' = 0
          /\ suProc' = [suProc EXCEPT !.pc = "restore_moved", !.held = suBin]
          /\ UNCHANGED <<suStatus, suJournal, suFaults>>
       \/ /\ SuAt({"helper", "recover"}, "restore_bin")
          /\ SuRestoreFails /\ UNCHANGED suBin
       \/ /\ SuAt({"helper", "recover"}, "restore_moved")
          /\ suBin' = SuOp.from
          /\ SuGoto("restore_start")
          /\ UNCHANGED <<suStatus, suJournal, suFaults>>
       \/ /\ SuAt({"helper", "recover"}, "restore_moved")
          /\ SuRestoreFails /\ suBin' = suProc.held
    /\ UNCHANGED <<suSite, suDb, suSvc, suOps, suBackups, suActive, suReady,
                   suSpawned, suAccepted, suConsent>>

\* restart_service_after_update, if the service ran before
SuRestoreService ==
    /\ SuAt({"helper", "recover"}, "restore_start")
    /\ \/ /\ suSvc' = IF SuOp.running THEN SuOp.from ELSE 0
          /\ SuGoto("restored")
          /\ UNCHANGED <<suStatus, suJournal, suFaults>>
       \/ SuRestoreFails /\ UNCHANGED suSvc
    /\ UNCHANGED <<suSite, suBin, suDb, suOps, suBackups, suActive, suReady,
                   suSpawned, suAccepted, suConsent>>

SuRestored ==
    /\ SuAt({"helper", "recover"}, "restored")
    /\ SuWriteStatus("rolled_back", suProc.op)
    /\ SuWriteJournal(suProc.op,
          IF suProc.who = "helper" THEN "rolled_back" ELSE "recovered", TRUE)
    /\ SuGoto("clear")
    /\ UNCHANGED <<suSite, suBin, suDb, suSvc, suOps, suBackups, suActive,
                   suReady, suSpawned, suAccepted, suConsent, suFaults>>

(***************************************************************************)
(* update recover.                                                         *)
(***************************************************************************)
SuRecoverAllowed ==
    /\ SuLockFree
    /\ suActive # 0
    /\ SuRecoverRaces \/ suSpawned = {}

SuBeginRecover(pc) ==
    suProc' = SuProcess("recover", suActive, pc)

\* recover, for the client: which stages are finished, rolled back,
\* untouched or restored from the bound backup
SuRecover ==
    /\ suProduct = "client"
    /\ SuRecoverAllowed
    /\ LET o == suOps[suActive]
           j == suJournal[suActive]
       IN \/ /\ j.stage = "completed" /\ suBin = o.to
             /\ SuBeginRecover("clear")
             /\ UNCHANGED <<suSvc, suStatus, suJournal>>
          \/ /\ j.stage \in {"rolled_back", "failed_before_replacement",
                             "recovered"}
             /\ suBin = o.from
             /\ SuBeginRecover("clear")
             /\ UNCHANGED <<suSvc, suStatus, suJournal>>
          \/ /\ j.stage \in {"scheduled", "helper_started", "service_stopped"}
             /\ ~j.backup
             /\ suBin = o.from
             /\ suSvc' = IF o.running THEN suBin ELSE suSvc
             /\ SuWriteStatus("rolled_back", suActive)
             /\ SuWriteJournal(suActive, "recovered", FALSE)
             /\ SuBeginRecover("clear")
          \/ /\ j.stage \in {"backup_created", "recovery_required"}
             /\ j.backup
             /\ SuBeginRecover("restore")
             /\ UNCHANGED <<suSvc, suStatus, suJournal>>
    /\ UNCHANGED <<suSite, suBin, suDb, suOps, suBackups, suActive, suReady,
                   suSpawned, suAccepted, suConsent, suFaults>>

\* server_recover: a stage after the candidate handoff needs the consent
\* of the operator, everything else is recovered without asking; the plan's
\* target must be the installed executable, so an empty path is refused
SuServerRecover(consent) ==
    /\ suProduct = "server"
    /\ SuRecoverAllowed
    /\ suBin # 0
    /\ LET o == suOps[suActive]
           j == suJournal[suActive]
           uncertain == SuHandoffStage(j.stage) \/ j.stage = "recovery_required"
       IN /\ uncertain => consent
          /\ suConsent' = (suConsent \/ (uncertain /\ consent))
          /\ \/ /\ SuTerminalStage(j.stage)
                /\ suReady' = 0
                /\ SuBeginRecover("clear")
                /\ UNCHANGED <<suStatus, suJournal>>
             \/ /\ ~SuTerminalStage(j.stage) /\ ~j.backup
                /\ suBin = o.from
                /\ SuWriteStatus("failed", suActive)
                /\ SuWriteJournal(suActive, "failed_before_replacement", FALSE)
                /\ SuBeginRecover("clear")
                /\ UNCHANGED suReady
             \/ /\ ~SuTerminalStage(j.stage) /\ j.backup
                /\ SuBeginRecover("restore")
                /\ UNCHANGED <<suStatus, suJournal, suReady>>
    /\ UNCHANGED <<suSite, suBin, suDb, suSvc, suOps, suBackups, suActive,
                   suSpawned, suAccepted, suFaults>>

(***************************************************************************)
(* The environment: the running server, kills, reboots, the service        *)
(* manager.                                                                *)
(***************************************************************************)
\* the running server commits a write; suAccepted records the ones a
\* candidate, the target of an unfinished operation, has accepted
SuServerWrite ==
    /\ suProduct = "server" /\ suSvc # 0
    /\ LET n == Cardinality(suDb.writes \cup suAccepted) + 1
       IN /\ n <= SuMaxWrites
          /\ n \notin suDb.writes \cup suAccepted
          /\ suDb' = [suDb EXCEPT !.writes = @ \cup {n}]
          /\ suAccepted' = IF suActive # 0 /\ suSvc = suOps[suActive].to
                           THEN suAccepted \cup {n} ELSE suAccepted
    /\ UNCHANGED <<suSite, suBin, suSvc, suOps, suJournal, suBackups,
                   suActive, suStatus, suReady, suSpawned, suProc, suConsent,
                   suFaults>>

\* the lock holder, or a helper about to take the lock, is killed
SuKill ==
    /\ SuFault
    /\ \/ ~SuLockFree /\ SuRelease /\ UNCHANGED suSpawned
       \/ \E h \in suSpawned : suSpawned' = suSpawned \ {h} /\ UNCHANGED suProc
    /\ UNCHANGED <<suSite, suBin, suDb, suSvc, suOps, suJournal, suBackups,
                   suActive, suStatus, suReady, suAccepted, suConsent>>

\* at boot an automatic service starts at once: the Windows service and the
\* client's units do not look at the marker
SuReboot ==
    /\ SuFault
    /\ SuRelease
    /\ suSpawned' = {}
    /\ suSvc' = IF suAuto THEN suBin ELSE 0
    /\ suDb' = IF suAuto /\ suProduct = "server" THEN SuMigrated ELSE suDb
    /\ UNCHANGED <<suSite, suBin, suOps, suJournal, suBackups, suActive,
                   suStatus, suReady, suAccepted, suConsent>>

\* the systemd unit of the server requires linklake-update-resume, which
\* succeeds only once no marker is left; an operator starts any service so
SuServiceStart ==
    /\ suSvc = 0 /\ suActive = 0 /\ SuLockFree /\ suBin # 0
    /\ suSvc' = suBin
    /\ suDb' = IF suProduct = "server" THEN SuMigrated ELSE suDb
    /\ UNCHANGED <<suSite, suBin, suOps, suJournal, suBackups, suActive,
                   suStatus, suReady, suSpawned, suProc, suAccepted,
                   suConsent, suFaults>>

SuHelperStep ==
    \/ SuSpawn
    \/ \E h \in suSpawned : SuValidate(h) \/ SuTakeLock(h)
    \/ SuStopService \/ SuCreateBackup \/ SuPrepareDatabase \/ SuReplace
    \/ SuRestartService \/ SuPrepareHandoff \/ SuStartCandidate
    \/ SuAwaitReadiness \/ SuComplete \/ SuClearActiveMarker
    \/ SuFailureRoute \/ SuRestoreDatabase \/ SuRestoreBinary \/ SuRestoreService
    \/ SuRestored

SuOperatorRecovers == SuRecover \/ \E c \in BOOLEAN : SuServerRecover(c)

SuNext ==
    \/ SuApply \/ SuRollback \/ SuServerRollback
    \/ SuHelperStep \/ SuPublishReadiness
    \/ SuOperatorRecovers
    \/ SuServerWrite \/ SuKill \/ SuReboot \/ SuServiceStart

SuSpec == SuInit /\ [][SuNext]_suVars

\* processes that live keep running, the operator keeps running recover
SuFairness ==
    /\ WF_suVars(SuHelperStep)
    /\ WF_suVars(SuPublishReadiness)
    /\ WF_suVars(SuOperatorRecovers)

-----------------------------------------------------------------------------
(***************************************************************************)
(* Properties.                                                             *)
(***************************************************************************)
\* Where the service waits for the recovery of an update (systemd), a write
\* a candidate server accepted before its update was finished is never
\* discarded unless the operator confirmed the loss of data: neither the
\* automatic rollback nor `update recover` restores an older snapshot over
\* it.  It is not so for a service that starts at boot by itself: a
\* candidate started by a reboot before the journal says candidate_starting
\* is rolled back without a question.
SuCandidateWritesKept ==
    (suProduct = "server" /\ ~suAuto) =>
        (suAccepted \subseteq suDb.writes \/ suConsent)

\* Whenever no marker is left and nobody holds the lock, the install path
\* holds an executable, and a server's database is not of a newer schema
\* than the executable can open: every path through failures, kills and
\* reboots restores or completes the executable and the database together.
SuBinaryOpensDatabase ==
    (suActive = 0 /\ SuLockFree) =>
        /\ suBin # 0
        /\ suProduct = "server" => suDb.schema <= suBin

\* The two states recovery refuses for good: a client killed between the
\* record of a helper that did not start and the removal of its marker, and
\* a server killed between the two renames of its executable.
SuRecoveryRefuses ==
    /\ suActive # 0 /\ SuLockFree
    /\ \/ suProduct = "client" /\ SuStageOf(suActive) = "helper_spawn_failed"
       \/ suProduct = "server" /\ suBin = 0

\* Every marker is eventually cleared, if helpers keep running and the
\* operator keeps running `update recover` with their consent: no crash
\* leaves a stage that recovery refuses forever, but for the two above.
SuMarkerCleared == []<>(suActive = 0 \/ SuRecoveryRefuses)

(***************************************************************************)
(* linklake-update/manager.rs: replacing the Manager application, a whole  *)
(* directory, by a helper that waits for the Manager process to exit.      *)
(* There is no lock and no journal: several helpers may run at once, and   *)
(* each relies on the digests of the directory trees, here on versions.    *)
(***************************************************************************)
CONSTANTS
    MgVersions,   \* released versions, numbers greater than 0
    MgMaxOps,     \* bound on the operations scheduled
    MgMaxFaults   \* bound on failing steps and kills

ASSUME MgAssumption ==
    MgVersions \subseteq Nat \ {0} /\ MgMaxOps \in Nat /\ MgMaxFaults \in Nat

VARIABLES
    mgDir,      \* version in the install directory, 0 while it is missing
    mgAlive,    \* the Manager process that scheduled updates is running
    mgStaged,   \* newest staged update: [from, to], to = 0 for none
    mgTrees,    \* versions whose staged directory is complete
    mgOps,      \* plans: [kind, from, to]
    mgPc,       \* progress of each plan's helper
    mgKept,     \* version in each plan's backup directory, 0 for none
    mgMeta,     \* plan whose backup manager-backup.json names, 0 for none
    mgStatus,   \* manager-status.json: [state, op]
    mgFaults

mgVars == <<mgDir, mgAlive, mgStaged, mgTrees, mgOps, mgPc, mgKept, mgMeta,
            mgStatus, mgFaults>>

MgFault == mgFaults < MgMaxFaults /\ mgFaults' = mgFaults + 1
MgWriteStatus(state, o) == mgStatus' = [state |-> state, op |-> o]
MgGoto(o, pc) == mgPc' = [mgPc EXCEPT ![o] = pc]
MgPlan(o) == mgOps[o]
MgAt(o, pc) == o \in 1..Len(mgOps) /\ mgPc[o] = pc

\* the tree a plan installs, gone while a repeated download replaces it and
\* when a rollback's backup was moved away
MgStagedTree(o) ==
    IF MgPlan(o).kind = "rollback" THEN mgKept[MgPlan(o).src]
    ELSE IF MgPlan(o).to \in mgTrees THEN MgPlan(o).to ELSE 0

MgInit ==
    /\ mgDir = 1 /\ mgAlive = TRUE
    /\ mgStaged = [from |-> 0, to |-> 0] /\ mgTrees = {}
    /\ mgOps = <<>> /\ mgPc = <<>> /\ mgKept = <<>>
    /\ mgMeta = 0
    /\ mgStatus = [state |-> "idle", op |-> 0]
    /\ mgFaults = 0

\* extract_manager_package removes the directory of an earlier download of
\* the version
MgRemoveStaged ==
    /\ mgAlive /\ mgDir # 0
    /\ \E v \in mgTrees : v > mgDir /\ mgTrees' = mgTrees \ {v}
    /\ UNCHANGED <<mgDir, mgAlive, mgStaged, mgOps, mgPc, mgKept, mgMeta,
                   mgStatus, mgFaults>>

\* ... and puts the new one in its place, which manager-staged.json records
MgDownload ==
    /\ mgAlive /\ mgDir # 0
    /\ \E v \in MgVersions \ mgTrees :
          /\ v > mgDir
          /\ mgTrees' = mgTrees \cup {v}
          /\ mgStaged' = [from |-> mgDir, to |-> v]
    /\ UNCHANGED <<mgDir, mgAlive, mgOps, mgPc, mgKept, mgMeta, mgStatus,
                   mgFaults>>

\* plan, helper copy and status; the helper starts or its start fails
MgSchedule(kind, from, to, src) ==
    /\ mgAlive
    /\ mgDir # 0 /\ mgDir = from
    /\ Len(mgOps) < MgMaxOps
    /\ mgOps' = Append(mgOps, [kind |-> kind, from |-> from, to |-> to,
                               src |-> src])
    /\ mgKept' = Append(mgKept, 0)
    /\ \/ /\ mgPc' = Append(mgPc, "spawned")
          /\ MgWriteStatus("scheduled", Len(mgOps) + 1)
          /\ UNCHANGED mgFaults
       \/ /\ MgFault
          /\ mgPc' = Append(mgPc, "dead")
          /\ MgWriteStatus("failed", Len(mgOps) + 1)
    /\ UNCHANGED <<mgDir, mgAlive, mgStaged, mgTrees, mgMeta>>

MgApply ==
    mgStaged.to \in mgTrees /\ MgSchedule("apply", mgStaged.from, mgStaged.to, 0)

MgRollback ==
    /\ mgMeta # 0
    /\ mgKept[mgMeta] # 0
    /\ MgSchedule("rollback", mgDir, mgKept[mgMeta], mgMeta)

MgTreesUnchanged(o) ==
    mgDir = MgPlan(o).from /\ MgStagedTree(o) = MgPlan(o).to

\* write_manager_failure_if_pending keeps a terminal status
MgFailIfPending(o) ==
    IF mgStatus.state \in {"failed", "rolled_back", "succeeded"}
    THEN UNCHANGED mgStatus
    ELSE MgWriteStatus("failed", o)

MgValidatePlan(o) ==
    /\ MgAt(o, "spawned")
    /\ IF MgTreesUnchanged(o)
       THEN MgWriteStatus("waiting_for_exit", o) /\ MgGoto(o, "waiting")
       ELSE MgWriteStatus("failed", o) /\ MgGoto(o, "dead")
    /\ UNCHANGED <<mgDir, mgAlive, mgStaged, mgTrees, mgOps, mgKept, mgMeta, mgFaults>>

MgManagerExits ==
    /\ mgAlive /\ mgAlive' = FALSE
    /\ UNCHANGED <<mgDir, mgStaged, mgTrees, mgOps, mgPc, mgKept, mgMeta, mgStatus,
                   mgFaults>>

\* the user starts the Manager again, when there is one and no helper that
\* waited for the earlier process is left
MgManagerStarts ==
    /\ ~mgAlive /\ mgDir # 0 /\ mgAlive' = TRUE
    /\ \A o \in 1..Len(mgOps) : mgPc[o] = "dead"
    /\ UNCHANGED <<mgDir, mgStaged, mgTrees, mgOps, mgPc, mgKept, mgMeta, mgStatus,
                   mgFaults>>

MgExitTimeout(o) ==
    /\ MgAt(o, "waiting") /\ mgAlive
    /\ MgFault
    /\ MgWriteStatus("failed", o) /\ MgGoto(o, "dead")
    /\ UNCHANGED <<mgDir, mgAlive, mgStaged, mgTrees, mgOps, mgKept, mgMeta>>

\* execute_manager_plan up to the verified copy beside the installation
MgPrepareIncoming(o) ==
    /\ MgAt(o, "waiting") /\ ~mgAlive
    /\ IF MgTreesUnchanged(o)
       THEN MgWriteStatus("installing", o) /\ MgGoto(o, "incoming")
       ELSE MgFailIfPending(o) /\ MgGoto(o, "dead")
    /\ UNCHANGED <<mgDir, mgAlive, mgStaged, mgTrees, mgOps, mgKept, mgMeta, mgFaults>>

\* the rename of the installation to the backup name; it is retried until
\* a deadline, so it fails only when the directory stays missing or busy
MgMoveAway(o) ==
    /\ MgAt(o, "incoming")
    /\ \/ /\ mgDir # 0
          /\ mgKept' = [mgKept EXCEPT ![o] = mgDir]
          /\ mgDir' = 0
          /\ MgGoto(o, "moved")
          /\ UNCHANGED <<mgStatus, mgFaults>>
       \/ /\ MgFault
          /\ MgWriteStatus("failed", o) /\ MgGoto(o, "dead")
          /\ UNCHANGED <<mgDir, mgKept>>
    /\ UNCHANGED <<mgAlive, mgStaged, mgTrees, mgOps, mgMeta>>

\* the rename of the copy into place; when it fails the backup moves back,
\* which a directory put there by another helper prevents
MgMoveIn(o) ==
    /\ MgAt(o, "moved")
    /\ \/ /\ mgDir = 0 /\ mgDir' = MgPlan(o).to
          /\ MgGoto(o, "switched")
          /\ UNCHANGED <<mgKept, mgStatus, mgFaults>>
       \/ /\ mgDir = 0 /\ MgFault
          /\ mgDir' = mgKept[o]
          /\ mgKept' = [mgKept EXCEPT ![o] = 0]
          /\ MgWriteStatus("rolled_back", o) /\ MgGoto(o, "dead")
       \/ /\ mgDir # 0
          /\ MgWriteStatus("failed", o) /\ MgGoto(o, "dead")
          /\ UNCHANGED <<mgDir, mgKept, mgFaults>>
    /\ UNCHANGED <<mgAlive, mgStaged, mgTrees, mgOps, mgMeta>>

\* the installed tree is verified and the backup recorded, or the backup
\* is restored in its place (restore_manager_directory)
MgVerify(o) ==
    /\ MgAt(o, "switched")
    /\ \/ /\ mgDir = MgPlan(o).to
          /\ IF mgKept[o] = MgPlan(o).from
             THEN mgMeta' = o /\ MgGoto(o, "recorded") /\ UNCHANGED mgStatus
             ELSE MgFailIfPending(o) /\ MgGoto(o, "dead") /\ UNCHANGED mgMeta
          /\ UNCHANGED <<mgDir, mgKept, mgFaults>>
       \/ /\ mgDir # MgPlan(o).to \/ mgFaults < MgMaxFaults
          /\ mgFaults' = IF mgDir = MgPlan(o).to THEN mgFaults + 1 ELSE mgFaults
          /\ mgDir' = mgKept[o]
          /\ mgKept' = [mgKept EXCEPT ![o] = 0]
          /\ MgWriteStatus("rolled_back", o) /\ MgGoto(o, "dead")
          /\ UNCHANGED mgMeta
    /\ UNCHANGED <<mgAlive, mgStaged, mgTrees, mgOps>>

MgReport(o) ==
    /\ MgAt(o, "recorded")
    /\ MgWriteStatus(IF MgPlan(o).kind = "rollback" THEN "rolled_back"
                                                    ELSE "succeeded", o)
    /\ MgGoto(o, "dead")
    /\ UNCHANGED <<mgDir, mgAlive, mgStaged, mgTrees, mgOps, mgKept, mgMeta, mgFaults>>

MgKill(o) ==
    /\ o \in 1..Len(mgOps) /\ mgPc[o] # "dead"
    /\ MgFault
    /\ MgGoto(o, "dead")
    /\ UNCHANGED <<mgDir, mgAlive, mgStaged, mgTrees, mgOps, mgKept, mgMeta, mgStatus>>

MgHelperStep(o) ==
    \/ MgValidatePlan(o) \/ MgExitTimeout(o) \/ MgPrepareIncoming(o)
    \/ MgMoveAway(o) \/ MgMoveIn(o) \/ MgVerify(o) \/ MgReport(o)

MgNext ==
    \/ MgRemoveStaged \/ MgDownload \/ MgApply \/ MgRollback
    \/ MgManagerExits \/ MgManagerStarts
    \/ \E o \in 1..MgMaxOps : MgHelperStep(o) \/ MgKill(o)

MgSpec == MgInit /\ [][MgNext]_mgVars

-----------------------------------------------------------------------------
\* The Manager is never lost: while its install directory is missing, some
\* helper's backup directory still holds a complete Manager, whatever two
\* helpers and a kill between their renames do.
MgManagerNeverLost ==
    mgDir = 0 => \E o \in 1..Len(mgOps) : mgKept[o] # 0
=============================================================================
