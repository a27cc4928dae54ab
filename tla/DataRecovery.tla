---------------------------- MODULE DataRecovery ----------------------------
(***************************************************************************)
(* Restoring the data directory: the restore journal with its renames, the *)
(* recovery that a later start or restore performs, backups that run       *)
(* meanwhile, and the startup migration of the database, which has a       *)
(* marker and a snapshot of its own.  A process may be killed between any  *)
(* two renames and any rename may fail.                                    *)
(* Sources: disaster_recovery.rs, database_migrations.rs, database.rs,     *)
(* database_tools.rs and the start of run_server in main.rs.               *)
(*                                                                         *)
(* Every managed item carries the number of the state it belongs to, 0     *)
(* when it is absent.  "wal" stands for the two sidecars of the database.  *)
(***************************************************************************)
EXTENDS Naturals, Sequences, FiniteSets

CONSTANTS
    RsMaxRestores, RsMaxFaults, RsMaxBackups

ASSUME RsAssumption == {RsMaxRestores, RsMaxFaults, RsMaxBackups} \subseteq Nat

VARIABLES
    rsDir,      \* the data directory: items, and the schema of the database
    rsPre,      \* the preserved directory of the journal's restore
    rsStage,    \* its staging directory
    rsJournal,  \* [mark, manage, acme, cert]; mark is none, torn, prepared, ...
    rsMarker,   \* startup migration marker: state of its snapshot, 0 for none
    rsWho,      \* holder of the process lock and of the maintenance lock
    rsTodo,     \* what the holder still has to do
    rsSrv,      \* the server: down, migrated (first lock released) or up
    rsBackup,   \* [on, db, acme, cert]: a backup in progress or finished
    rsWant,     \* history: what the last decided restore left
    rsOver,     \* history: a restore was applied over a pending migration
    rsOutcome, rsRestores, rsFaults, rsBackups

rsVars == <<rsDir, rsPre, rsStage, rsJournal, rsMarker, rsWho, rsTodo, rsSrv, rsBackup,
            rsWant, rsOver, rsOutcome, rsRestores, rsFaults, rsBackups>>

\* archives offered: a full one, one without certificates and one whose
\* manifest is damaged; bad names the check that finds it
RsPayload(n, cert, full, bad) ==
    [db |-> n, acme |-> 0, cert |-> cert, full |-> full, bad |-> bad]
RsPayloads ==
    {RsPayload(2, 2, TRUE, "none"), RsPayload(3, 0, FALSE, "none"),
     RsPayload(4, 4, TRUE, "manifest")}

RsItems == {"db", "wal", "acme", "cert"}
RsOld == 1       \* the database schema of an earlier release
RsHalf == 2      \* the versioned migrations are applied, the catalogs are not
RsCurrent == 3
RsEmpty == [db |-> 0, wal |-> 0, acme |-> 0, cert |-> 0, schema |-> 0]
RsNoJournal == [mark |-> "none", manage |-> FALSE, acme |-> FALSE, cert |-> FALSE]

RsInit ==
    /\ \E s \in {RsOld, RsCurrent}, w \in {0, 1} :
          rsDir = [db |-> 1, wal |-> w, acme |-> 1, cert |-> 0, schema |-> s]
    /\ rsPre = RsEmpty /\ rsStage = RsEmpty /\ rsJournal = RsNoJournal
    /\ rsMarker = 0 /\ rsWho = "none" /\ rsTodo = <<>> /\ rsSrv = "down"
    /\ rsBackup = [on |-> "none", db |-> 0, acme |-> 0, cert |-> 0]
    /\ rsWant = [db |-> 1, acme |-> 1, cert |-> 0]
    /\ rsOver = FALSE /\ rsOutcome = "none"
    /\ rsRestores = 0 /\ rsFaults = 0 /\ rsBackups = 0

RsFault == rsFaults < RsMaxFaults /\ rsFaults' = rsFaults + 1
RsThen(ops) == rsTodo' = Tail(rsTodo) \o ops
RsExists(dir, i) == dir[i] # 0
RsSchemaAfter(d, i, from) == IF i = "db" THEN from.schema ELSE d.schema

\* the renames of apply_validated_payload, in their order
RsPreserve(manage) ==
    <<<<"preserve", "db">>, <<"preserve", "wal">>>> \o
    (IF manage THEN <<<<"preserve", "acme">>, <<"preserve", "cert">>>> ELSE <<>>)

RsInstall(manage) ==
    <<<<"install", "db">>>> \o
    (IF manage THEN <<<<"install", "acme">>, <<"install", "cert">>>> ELSE <<>>) \o
    <<<<"validate", "db">>, <<"commit", "db">>>>

\* rollback_prepared_restore: every item in two renames
RsRollback(manage) ==
    <<<<"unstage", "db">>, <<"unpreserve", "db">>, <<"unpreserve", "wal">>>> \o
    (IF manage THEN <<<<"unstage", "acme">>, <<"unpreserve", "acme">>,
                      <<"unstage", "cert">>, <<"unpreserve", "cert">>>> ELSE <<>>)

RsFinishRollback == <<<<"mark", "db">>, <<"clean", "db">>, <<"unjournal", "db">>>>

\* recover_interrupted_restore: what the journal on disk asks for
RsRecovery ==
    CASE rsJournal.mark = "none" -> <<>>
      [] rsJournal.mark \in {"prepared", "torn"} ->
            RsRollback(rsJournal.manage) \o RsFinishRollback
      [] rsJournal.mark = "committed" -> <<<<"verify", "db">>, <<"unjournal", "db">>>>
      [] rsJournal.mark = "rolled_back" -> <<<<"clean", "db">>, <<"unjournal", "db">>>>

-----------------------------------------------------------------------------
(* The restore command.                                                    *)

\* an archive is decrypted, unpacked and compared with its manifest, a plain
\* database is copied; either is migrated in the staging directory
RsReading(p) ==
    (IF p.full THEN <<<<"decrypt", p>>, <<"extract", p>>, <<"manifest", p>>>>
               ELSE <<<<"copy", p>>>>) \o <<<<"candidate", p>>, <<"stage", p>>>>

\* acquire_offline_data_directory and acquire_restore_maintenance, then the
\* recovery of an earlier restore, then the new one
RsRestore(p) ==
    /\ rsWho = "none" /\ rsSrv # "up" /\ rsBackup.on # "running"
    /\ rsRestores < RsMaxRestores /\ rsRestores' = rsRestores + 1
    /\ rsWho' = "restore" /\ rsTodo' = RsRecovery \o RsReading(p)
    /\ rsOutcome' = "none" /\ rsBackup' = [rsBackup EXCEPT !.on = "none"]
    /\ UNCHANGED <<rsDir, rsPre, rsStage, rsJournal, rsMarker, rsSrv, rsWant, rsOver,
                   rsFaults, rsBackups>>

\* one check of the payload; the restore is refused before anything is moved
RsCheck(name, p) ==
    /\ rsTodo # <<>> /\ Head(rsTodo) = <<name, p>>
    /\ IF p.bad = name THEN rsTodo' = <<>> /\ rsWho' = "none" /\ rsOutcome' = "refused"
                       ELSE RsThen(<<>>) /\ UNCHANGED <<rsWho, rsOutcome>>
    /\ UNCHANGED <<rsDir, rsPre, rsStage, rsJournal, rsMarker, rsSrv, rsBackup, rsWant,
                   rsOver, rsRestores, rsFaults, rsBackups>>

RsDecrypt(p) == RsCheck("decrypt", p)
RsExtract(p) == RsCheck("extract", p)
RsManifest(p) == RsCheck("manifest", p)
RsCopyDatabase(p) == RsCheck("copy", p)
RsCandidate(p) == RsCheck("candidate", p)

\* the payload is unpacked, validated and migrated; then the journal is
\* created and the renames begin
RsStage(p) ==
    /\ rsTodo # <<>> /\ Head(rsTodo) = <<"stage", p>>
    /\ rsStage' = [db |-> p.db, wal |-> 0, acme |-> IF p.full THEN p.acme ELSE 0,
                   cert |-> IF p.full THEN p.cert ELSE 0, schema |-> RsHalf]
    /\ rsPre' = RsEmpty
    /\ rsJournal' = [mark |-> "prepared", manage |-> p.full,
                     acme |-> p.full /\ RsExists(p, "acme"), cert |-> p.full /\ RsExists(p, "cert")]
    /\ RsThen(RsPreserve(p.full) \o RsInstall(p.full))
    /\ rsOver' = (rsOver \/ rsMarker # 0)
    /\ UNCHANGED <<rsDir, rsMarker, rsWho, rsSrv, rsBackup, rsWant, rsOutcome, rsRestores,
                   rsFaults, rsBackups>>

RsOp(name, i) == rsTodo # <<>> /\ Head(rsTodo) = <<name, i>>

RsPreserveItem(i) ==
    /\ RsOp("preserve", i)
    /\ rsPre' = [rsPre EXCEPT ![i] = rsDir[i], !.schema = RsSchemaAfter(rsPre, i, rsDir)]
    /\ rsDir' = [rsDir EXCEPT ![i] = 0]
    /\ RsThen(<<>>)
    /\ UNCHANGED <<rsStage, rsJournal, rsMarker, rsWho, rsSrv, rsBackup, rsWant, rsOver,
                   rsOutcome, rsRestores, rsFaults, rsBackups>>

RsInstallItem(i) ==
    /\ RsOp("install", i)
    /\ rsDir' = [rsDir EXCEPT ![i] = rsStage[i], !.schema = RsSchemaAfter(rsDir, i, rsStage)]
    /\ rsStage' = [rsStage EXCEPT ![i] = 0]
    /\ RsThen(<<>>)
    /\ UNCHANGED <<rsPre, rsJournal, rsMarker, rsWho, rsSrv, rsBackup, rsWant, rsOver,
                   rsOutcome, rsRestores, rsFaults, rsBackups>>

\* validate_database and sync_restored_state
RsValidate ==
    /\ RsOp("validate", "db") /\ RsThen(<<>>)
    /\ UNCHANGED <<rsDir, rsPre, rsStage, rsJournal, rsMarker, rsWho, rsSrv, rsBackup,
                   rsWant, rsOver, rsOutcome, rsRestores, rsFaults, rsBackups>>

\* the commit marker decides: from now on the restored state is the one
RsDecide ==
    rsWant' = [db |-> rsDir.db, acme |-> rsDir.acme, cert |-> rsDir.cert]

\* commit_restore_journal; the report may be lost after the marker is durable
RsCommit ==
    /\ RsOp("commit", "db")
    /\ rsJournal' = [rsJournal EXCEPT !.mark = "committed"]
    /\ RsDecide
    /\ \/ rsOutcome' = "restored" /\ UNCHANGED rsFaults
       \/ rsOutcome' = "uncertain" /\ RsFault
    /\ rsStage' = RsEmpty /\ rsWho' = "none" /\ rsTodo' = <<>>
    /\ UNCHANGED <<rsDir, rsPre, rsMarker, rsSrv, rsBackup, rsOver, rsRestores, rsBackups>>

\* a marker that is only partly written reads as prepared
RsMaybeTorn ==
    IF Head(rsTodo)[1] \in {"commit", "mark"} THEN [rsJournal EXCEPT !.mark = "torn"]
                                              ELSE rsJournal

\* a rename or the validation fails and the restore rolls back
RsFailApply ==
    /\ rsWho = "restore" /\ rsTodo # <<>> /\ RsFault
    /\ Head(rsTodo)[1] \in {"preserve", "install", "validate"}
    /\ rsTodo' = RsRollback(rsJournal.manage) \o RsFinishRollback
    /\ rsOutcome' = "failing"
    /\ UNCHANGED <<rsDir, rsPre, rsStage, rsJournal, rsMarker, rsWho, rsSrv, rsBackup, rsWant,
                   rsOver, rsRestores, rsBackups>>

\* a rollback, a recovery or a migration step fails, or the process is killed:
\* what is on disk stays for the next start
RsStop ==
    /\ rsWho # "none" /\ RsFault
    /\ rsJournal' = IF rsTodo = <<>> THEN rsJournal ELSE RsMaybeTorn
    /\ rsWho' = "none" /\ rsTodo' = <<>> /\ rsOutcome' = "none"
    /\ rsSrv' = IF rsWho = "server" THEN "down" ELSE rsSrv
    /\ UNCHANGED <<rsDir, rsPre, rsStage, rsMarker, rsBackup, rsWant, rsOver, rsRestores,
                   rsBackups>>

-----------------------------------------------------------------------------
(* Rollback and recovery.                                                  *)

RsExpected(i) == i = "db" \/ (i = "acme" /\ rsJournal.acme) \/ (i = "cert" /\ rsJournal.cert)

\* mutant: the second pass of an interrupted rollback takes the old database
\* for the installed one
RsUnstageTwice(i) ==
    /\ RsOp("unstage", i)
    /\ IF RsExists(rsDir, i) /\ RsExpected(i)
       THEN /\ rsStage' = [rsStage EXCEPT ![i] = rsDir[i],
                                          !.schema = RsSchemaAfter(rsStage, i, rsDir)]
            /\ rsDir' = [rsDir EXCEPT ![i] = 0]
       ELSE UNCHANGED <<rsStage, rsDir>>
    /\ RsThen(<<>>)
    /\ UNCHANGED <<rsPre, rsJournal, rsMarker, rsWho, rsSrv, rsBackup, rsWant, rsOver,
                   rsOutcome, rsRestores, rsFaults, rsBackups>>

\* rollback_installable_item, first rename: what was installed goes back to
\* the staging directory
RsUnstage(i) ==
    /\ RsOp("unstage", i)
    /\ LET moves == /\ RsExists(rsDir, i) /\ ~RsExists(rsStage, i) /\ RsExpected(i)
       IN IF moves
          THEN /\ rsStage' = [rsStage EXCEPT ![i] = rsDir[i],
                                             !.schema = RsSchemaAfter(rsStage, i, rsDir)]
               /\ rsDir' = [rsDir EXCEPT ![i] = 0]
          ELSE UNCHANGED <<rsStage, rsDir>>
    /\ RsThen(<<>>)
    /\ UNCHANGED <<rsPre, rsJournal, rsMarker, rsWho, rsSrv, rsBackup, rsWant, rsOver,
                   rsOutcome, rsRestores, rsFaults, rsBackups>>

\* the preserved item returns, unless something is in its place
RsUnpreserve(i) ==
    /\ RsOp("unpreserve", i)
    /\ IF ~RsExists(rsPre, i) THEN RsThen(<<>>) /\ UNCHANGED <<rsPre, rsDir>>
       ELSE /\ ~RsExists(rsDir, i)
            /\ rsDir' = [rsDir EXCEPT ![i] = rsPre[i], !.schema = RsSchemaAfter(rsDir, i, rsPre)]
            /\ rsPre' = [rsPre EXCEPT ![i] = 0]
            /\ RsThen(<<>>)
    /\ UNCHANGED <<rsStage, rsJournal, rsMarker, rsWho, rsSrv, rsBackup, rsWant, rsOver,
                   rsOutcome, rsRestores, rsFaults, rsBackups>>

RsMarkRolledBack ==
    /\ RsOp("mark", "db")
    /\ rsJournal' = [rsJournal EXCEPT !.mark = "rolled_back"]
    /\ RsThen(<<>>)
    /\ UNCHANGED <<rsDir, rsPre, rsStage, rsMarker, rsWho, rsSrv, rsBackup, rsWant, rsOver,
                   rsOutcome, rsRestores, rsFaults, rsBackups>>

\* cleanup_rolled_back_restore refuses when preserved entries are left
RsClean ==
    /\ RsOp("clean", "db")
    /\ \A i \in RsItems : ~RsExists(rsPre, i)
    /\ rsStage' = RsEmpty
    /\ RsThen(<<>>)
    /\ UNCHANGED <<rsDir, rsPre, rsJournal, rsMarker, rsWho, rsSrv, rsBackup, rsWant,
                   rsOver, rsOutcome, rsRestores, rsFaults, rsBackups>>

\* validate_committed_restore: an absent directory must be absent
RsVerifyCommitted ==
    /\ RsOp("verify", "db")
    /\ RsExists(rsDir, "db")
    /\ rsJournal.manage => /\ RsExists(rsDir, "acme") <=> rsJournal.acme
                           /\ RsExists(rsDir, "cert") <=> rsJournal.cert
    /\ rsStage' = RsEmpty
    /\ RsThen(<<>>)
    /\ UNCHANGED <<rsDir, rsPre, rsJournal, rsMarker, rsWho, rsSrv, rsBackup, rsWant,
                   rsOver, rsOutcome, rsRestores, rsFaults, rsBackups>>

\* remove_restore_journal; a failing restore ends here
RsRemoveJournal ==
    /\ RsOp("unjournal", "db")
    /\ rsJournal' = RsNoJournal
    /\ RsThen(<<>>)
    /\ rsOutcome' = IF rsOutcome = "failing" THEN "failed" ELSE rsOutcome
    /\ rsWho' = IF Len(rsTodo) = 1 /\ rsWho = "restore" THEN "none" ELSE rsWho
    /\ UNCHANGED <<rsDir, rsPre, rsStage, rsMarker, rsSrv, rsBackup, rsWant, rsOver,
                   rsRestores, rsFaults, rsBackups>>
-----------------------------------------------------------------------------
(* The server: startup migration around the recovery of a restore.         *)

\* the marker of an interrupted startup migration is dealt with first, under
\* the process lock of an offline command
RsBoot ==
    /\ rsSrv = "down" /\ rsWho = "none"
    /\ IF rsMarker = 0 THEN rsSrv' = "migrated" /\ UNCHANGED <<rsWho, rsTodo>>
       ELSE /\ rsSrv' = "booting" /\ rsWho' = "server"
            /\ rsTodo' = <<<<"dropwal", "db">>, <<"snapshot", "db">>, <<"unmark", "db">>>>
    /\ UNCHANGED <<rsDir, rsPre, rsStage, rsJournal, rsMarker, rsBackup, rsWant, rsOver,
                   rsOutcome, rsRestores, rsFaults, rsBackups>>

\* restore_database_backup_exact: sidecars first, then one atomic replacement
RsDropWal ==
    /\ RsOp("dropwal", "db") /\ rsDir' = [rsDir EXCEPT !.wal = 0] /\ RsThen(<<>>)
    /\ UNCHANGED <<rsPre, rsStage, rsJournal, rsMarker, rsWho, rsSrv, rsBackup, rsWant,
                   rsOver, rsOutcome, rsRestores, rsFaults, rsBackups>>

RsSnapshotOver(d) == [d EXCEPT !.db = rsMarker, !.wal = 0, !.schema = RsOld]

RsRestoreSnapshot ==
    /\ RsOp("snapshot", "db") /\ rsDir' = RsSnapshotOver(rsDir) /\ RsThen(<<>>)
    /\ UNCHANGED <<rsPre, rsStage, rsJournal, rsMarker, rsWho, rsSrv, rsBackup, rsWant,
                   rsOver, rsOutcome, rsRestores, rsFaults, rsBackups>>

RsRemoveMarker ==
    /\ RsOp("unmark", "db") /\ rsMarker' = 0 /\ RsThen(<<>>)
    /\ rsWho' = "none" /\ rsSrv' = "migrated"
    /\ UNCHANGED <<rsDir, rsPre, rsStage, rsJournal, rsBackup, rsWant, rsOver, rsOutcome,
                   rsRestores, rsFaults, rsBackups>>

\* Database::open: process lock, exclusive maintenance lock, recovery; a
\* backup that is running makes the start fail
RsOpen ==
    /\ rsSrv = "migrated" /\ rsWho = "none"
    /\ IF rsBackup.on = "running" THEN rsSrv' = "down" /\ UNCHANGED <<rsWho, rsTodo>>
       ELSE /\ rsWho' = "server" /\ rsSrv' = "booting"
            /\ rsTodo' = RsRecovery \o <<<<"prepare", "db">>>>
    /\ UNCHANGED <<rsDir, rsPre, rsStage, rsJournal, rsMarker, rsBackup, rsWant, rsOver,
                   rsOutcome, rsRestores, rsFaults, rsBackups>>

\* database_migrations::prepare and the marker of finish_inner
RsPrepare ==
    /\ RsOp("prepare", "db")
    /\ RsExists(rsDir, "db") /\ rsMarker = 0
    /\ rsDir' = [rsDir EXCEPT !.wal = rsDir.db]
    /\ IF rsDir.schema = RsOld
       THEN rsMarker' = rsDir.db /\ RsThen(<<<<"migrate", "db">>, <<"catalogs", "db">>>>)
       ELSE UNCHANGED rsMarker /\ RsThen(<<<<"catalogs", "db">>>>)
    /\ UNCHANGED <<rsPre, rsStage, rsJournal, rsWho, rsSrv, rsBackup, rsWant, rsOver,
                   rsOutcome, rsRestores, rsFaults, rsBackups>>

\* the versioned migrations, one transaction; its failure removes the marker
RsMigrate ==
    /\ RsOp("migrate", "db")
    /\ \/ /\ rsDir' = [rsDir EXCEPT !.schema = RsHalf] /\ RsThen(<<>>)
          /\ UNCHANGED <<rsMarker, rsWho, rsSrv, rsFaults>>
       \/ /\ RsFault /\ rsMarker' = 0 /\ rsWho' = "none" /\ rsSrv' = "down" /\ rsTodo' = <<>>
          /\ UNCHANGED rsDir
    /\ UNCHANGED <<rsPre, rsStage, rsJournal, rsBackup, rsWant, rsOver, rsOutcome,
                   rsRestores, rsBackups>>

\* the catalogs complete the schema and the marker is removed; when they fail
\* after a migration the lock is released and the snapshot put back without it
RsCatalogs ==
    /\ RsOp("catalogs", "db")
    /\ rsTodo' = <<>>
    /\ \/ /\ rsDir' = [rsDir EXCEPT !.schema = RsCurrent] /\ rsMarker' = 0 /\ rsSrv' = "up"
          /\ UNCHANGED <<rsWho, rsFaults>>
       \/ /\ RsFault /\ rsWho' = "none"
          /\ rsSrv' = IF rsMarker # 0 THEN "rolling" ELSE "down"
          /\ UNCHANGED <<rsDir, rsMarker>>
    /\ UNCHANGED <<rsPre, rsStage, rsJournal, rsBackup, rsWant, rsOver, rsOutcome,
                   rsRestores, rsBackups>>

\* rollback_application_schema_failure
RsRollingBack ==
    /\ \/ /\ rsSrv = "rolling" /\ rsDir' = RsSnapshotOver(rsDir)
          /\ rsSrv' = "rolled" /\ UNCHANGED rsMarker
       \/ /\ rsSrv = "rolled" /\ rsMarker' = 0 /\ rsSrv' = "down" /\ UNCHANGED rsDir
    /\ UNCHANGED <<rsPre, rsStage, rsJournal, rsWho, rsTodo, rsBackup, rsWant, rsOver,
                   rsOutcome, rsRestores, rsFaults, rsBackups>>

RsShutdown ==
    /\ rsSrv = "up" /\ rsSrv' = "down" /\ rsWho' = "none"
    /\ rsDir' = [rsDir EXCEPT !.wal = 0]
    /\ UNCHANGED <<rsPre, rsStage, rsJournal, rsMarker, rsTodo, rsBackup, rsWant, rsOver,
                   rsOutcome, rsRestores, rsFaults, rsBackups>>

-----------------------------------------------------------------------------
(* Backups.                                                                *)

\* the maintenance lock is exclusive for a restore and for the recovery
RsExclusive ==
    \/ rsWho = "restore"
    \/ rsWho = "server" /\ \E k \in 1..Len(rsTodo) : rsTodo[k][1] = "prepare"

\* acquire_backup_maintenance
RsBackupAllowed ==
    /\ ~RsExclusive /\ rsBackup.on # "running" /\ RsExists(rsDir, "db")
    /\ rsJournal.mark = "none"

\* the snapshot of the database, then the directories
RsBackupStart ==
    /\ RsBackupAllowed
    /\ rsBackups < RsMaxBackups /\ rsBackups' = rsBackups + 1
    /\ rsBackup' = [on |-> "running", db |-> rsDir.db, acme |-> 0, cert |-> 0]
    /\ UNCHANGED <<rsDir, rsPre, rsStage, rsJournal, rsMarker, rsWho, rsTodo, rsSrv, rsWant,
                   rsOver, rsOutcome, rsRestores, rsFaults>>

RsBackupFinish ==
    /\ rsBackup.on = "running"
    /\ rsBackup' = [rsBackup EXCEPT !.on = "done", !.acme = rsDir.acme, !.cert = rsDir.cert]
    /\ UNCHANGED <<rsDir, rsPre, rsStage, rsJournal, rsMarker, rsWho, rsTodo, rsSrv, rsWant,
                   rsOver, rsOutcome, rsRestores, rsFaults, rsBackups>>

RsNext ==
    \/ \E p \in RsPayloads :
          \/ RsRestore(p) \/ RsDecrypt(p) \/ RsExtract(p) \/ RsManifest(p)
          \/ RsCopyDatabase(p) \/ RsCandidate(p) \/ RsStage(p)
    \/ \E i \in RsItems : RsPreserveItem(i) \/ RsInstallItem(i) \/ RsUnstage(i) \/ RsUnpreserve(i)
    \/ RsValidate \/ RsCommit \/ RsFailApply \/ RsStop
    \/ RsMarkRolledBack \/ RsClean \/ RsVerifyCommitted \/ RsRemoveJournal
    \/ RsBoot \/ RsDropWal \/ RsRestoreSnapshot \/ RsRemoveMarker \/ RsOpen
    \/ RsPrepare \/ RsMigrate \/ RsCatalogs \/ RsRollingBack \/ RsShutdown
    \/ RsBackupStart \/ RsBackupFinish

RsSpec == RsInit /\ [][RsNext]_rsVars

-----------------------------------------------------------------------------
RsHolds == rsDir.db = rsWant.db /\ rsDir.acme = rsWant.acme /\ rsDir.cert = rsWant.cert

\* A running server, and a restore that reports that the original data was
\* restored, find database, ACME state and certificates all from the state
\* that the commit marker on disk decided, and no sidecar of another
\* database, whatever renames were interrupted, failed or repeated, unless a
\* restore was applied over the marker of an interrupted migration.
RsAllOrNothing ==
    (rsSrv = "up" \/ rsOutcome = "failed") /\ ~rsOver =>
        RsHolds /\ rsDir.wal \in {0, rsDir.db}

\* A backup that finished holds one state, never a directory in the middle
\* of a restore.
RsBackupWhole ==
    rsBackup.on = "done" /\ ~rsOver =>
        [db |-> rsBackup.db, acme |-> rsBackup.acme, cert |-> rsBackup.cert] = rsWant

\* A server runs on the complete schema, and the database of a startup
\* migration that did not complete is covered by its snapshot.
RsMigrationCovered ==
    /\ rsSrv = "up" => rsDir.schema = RsCurrent
    /\ (rsDir.db = 1 /\ rsDir.schema = RsHalf /\ rsTodo = <<>> /\ ~rsOver)
          => rsMarker = 1

\* docs/deployment.md: the service's next start finishes the state whose
\* commit marker is durable.
RsCommittedStays == rsSrv = "up" => RsHolds

\* The data directory, the backups taken from it and a migration under way
\* each hold one state.
RsDataWhole == RsAllOrNothing /\ RsBackupWhole /\ RsMigrationCovered

=============================================================================
