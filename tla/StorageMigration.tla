-------------------------- MODULE StorageMigration --------------------------
(***************************************************************************)
(* The explicit move of a stopped SQLite deployment to PostgreSQL, its     *)
(* repetition, and the check that allows the way back.                     *)
(* Sources: storage_migration.rs, storage_migration_source.rs,             *)
(* storage_migration_materials.rs, maintenance_storage_guard.rs and        *)
(* run_storage_migration_command in main.rs.                               *)
(*                                                                         *)
(* A row is [table, id, ref]: ref names the row it depends on, or a state. *)
(* Usage events and the spool are kept apart, with the daily usage as a    *)
(* number, because they are the rows whose meaning the move has to keep.   *)
(***************************************************************************)
EXTENDS Naturals, FiniteSets

CONSTANTS
    SmSources,     \* sets of rows a source database may start with
    SmEvents,      \* usage events
    SmClients,     \* clients that enroll later
    SmMaxWrites, SmMaxKills

ASSUME SmAssumption == SmMaxWrites \in Nat /\ SmMaxKills \in Nat

VARIABLES
    smSrc,      \* rows of the SQLite database
    smSpool, smApplied, smUsage,   \* its usage spool, applied events, daily usage
    smTarget,   \* PostgreSQL: [rows, pending, applied, usage, terms]
    smReceipt,  \* [src, manifest] or SmNone
    smPlan,     \* plan of the command that is running, or SmNone
    smServer,   \* off, sqlite or postgres
    smHome,     \* backend the deployment is configured for
    smMarked,   \* the data directory carries the PostgreSQL marker
    smSaid,     \* result of the last command
    smAccepted, \* history: [events, rows] accepted by a server
    smWrites, smKills

smVars == <<smSrc, smSpool, smApplied, smUsage, smTarget, smReceipt, smPlan, smServer,
            smHome, smMarked, smSaid, smAccepted, smWrites, smKills>>
smSource == <<smSrc, smSpool, smApplied, smUsage>>

SmNone == [none |-> TRUE]
SmEmpty == [rows |-> {}, pending |-> {}, applied |-> {}, usage |-> 0, terms |-> 0]
SmRows(rows, table) == {r \in rows : r.table = table}
SmIds(rows, table) == {r.id : r \in SmRows(rows, table)}

SmInit ==
    /\ smSrc \in SmSources
    /\ smSpool = {} /\ smApplied = {} /\ smUsage = 0
    /\ smTarget = SmEmpty /\ smReceipt = SmNone /\ smPlan = SmNone
    /\ smServer = "off" /\ smHome = "sqlite" /\ smMarked = FALSE /\ smSaid = "none"
    /\ smAccepted = [events |-> {}, rows |-> {}] /\ smWrites = 0 /\ smKills = 0

-----------------------------------------------------------------------------
(* The source snapshot.                                                    *)

\* whatever is in progress outside the database stops the migration; the
\* files of the old DNS-01 store count as rows of dns01_records
SmPending(rows) ==
    \/ SmRows(rows, "dns01_intents") \cup SmRows(rows, "dns01_records") # {}
    \/ \E r \in SmRows(rows, "update_tasks") : r.ref \notin {"succeeded", "failed", "cancelled"}
    \/ \E r \in SmRows(rows, "fleet_dns_failovers") : r.ref = "pending"
    \/ \E r \in SmRows(rows, "alert_deliveries") : r.ref = "delivering"
    \/ \E r \in SmRows(rows, "certificate_states") : r.ref \in {"issuing", "renewing"}
    \/ \E r \in SmRows(rows, "fleet_generations") : r.ref \in {"pending", "applying"}

\* leases, probes and discovery caches are not carried over
SmRuntime == {"ha_members", "ha_leader", "job_leases", "public_port_ownership", "target_health",
              "p2p_nodes"}

SmIdentities == {"clients", "administrators", "update_tasks", "fleet_generations"}
SmPolicies == {"policies", "port_groups"}
SmHealth == {"fleet_health", "fleet_dns_failovers"}
SmObservability == {"audit_events", "alert_deliveries"}
SmCertificates == {"certificate_states", "certificate_materials"}
SmCarried == SmIdentities \cup SmPolicies \cup SmHealth \cup SmObservability \cup SmCertificates

\* the rows a policy becomes: itself and the ports it occupies
SmPolicyRows(rows) ==
    {r \in rows : r.table \in SmPolicies} \cup
    {[table |-> "tunnel_ports", id |-> r.id, ref |-> r.id] : r \in SmRows(rows, "policies")} \cup
    {[table |-> "tunnel_ports", id |-> m.id, ref |-> m.ref] : m \in SmRows(rows, "port_mappings")}

\* a port group has exactly the mappings its definition says
SmMappingsMatch(rows) ==
    \A g \in SmRows(rows, "port_groups") :
        Cardinality({m \in SmRows(rows, "port_mappings") : m.ref = g.id}) = g.ports

\* one certificate directory per identifier, and none that no route names
SmMaterialRows(rows) == {r \in rows : r.table \in SmCertificates}
SmMaterialsCovered(rows) ==
    \A m \in SmRows(rows, "certificate_materials") : m.ref \in SmIds(rows, "policies")

SmReferences(rows) ==
    /\ \A p \in SmRows(rows, "policies") \cup SmRows(rows, "port_groups") :
          p.ref \in SmIds(rows, "clients")
    /\ \A m \in SmRows(rows, "port_mappings") : m.ref \in SmIds(rows, "port_groups")

\* every table that is neither carried nor runtime state must be empty
SmUnknownEmpty(rows) ==
    {r.table : r \in rows} \subseteq SmCarried \cup SmRuntime \cup {"port_mappings"}

\* the spool is carried over as events that are not applied yet, without the
\* ones that the applied events already contain
SmTraffic ==
    [pending |-> smSpool \ smApplied, applied |-> smApplied, usage |-> smUsage]

\* digest of every table and of the usage rows
SmFingerprint == <<smSrc, smSpool, smApplied, smUsage>>

SmRefused ==
    CASE SmPending(smSrc) -> "pending_external_operations"
      [] ~SmMappingsMatch(smSrc) \/ ~SmReferences(smSrc) -> "invalid_source"
      [] ~SmMaterialsCovered(smSrc) \/ ~SmUnknownEmpty(smSrc) -> "unsupported_source_data"
      [] OTHER -> "none"

SmPlanRows ==
    {r \in smSrc : r.table \in SmCarried \ (SmPolicies \cup SmCertificates)}
    \cup SmPolicyRows(smSrc) \cup SmMaterialRows(smSrc)

\* prepare_sqlite_migration: the process lock of the data directory is held
\* from here to the end of the command
SmPrepare(rollback) ==
    /\ smServer # "sqlite" /\ smPlan = SmNone
    /\ IF SmRefused # "none" THEN smSaid' = SmRefused /\ UNCHANGED smPlan
       ELSE /\ smPlan' = [rows |-> SmPlanRows, traffic |-> SmTraffic, src |-> SmFingerprint,
                          rollback |-> rollback]
            /\ smSaid' = "planned"
    /\ smSaid' # smSaid
    /\ UNCHANGED <<smSource, smTarget, smReceipt, smServer, smHome, smMarked, smAccepted,
                   smWrites, smKills>>

-----------------------------------------------------------------------------
(* The transaction on the target.                                          *)

\* digest and row count of every table of the target but the receipts
SmManifest == smTarget

\* mutant: a second import only compares the source
SmReceiptSourceOnly == IF smReceipt = SmNone THEN "absent"
                       ELSE IF smReceipt.src # smPlan.src THEN "other" ELSE "same"

SmReceiptState ==
    IF smReceipt = SmNone THEN "absent"
    ELSE IF smReceipt.src # smPlan.src THEN "other"
    ELSE IF smReceipt.manifest # SmManifest THEN "changed" ELSE "same"

\* validate_pristine_target: nothing but the seeds of the schema
SmPristine == smTarget = SmEmpty

SmDone(said) == smPlan' = SmNone /\ smSaid' = said

SmImport ==
    /\ smPlan # SmNone /\ ~smPlan.rollback
    /\ \/ smServer = "postgres" /\ SmDone("target_in_use") /\ UNCHANGED <<smTarget, smReceipt>>
       \/ /\ smServer # "postgres"
          /\ \/ /\ SmReceiptState = "same" /\ SmDone("imported")
                /\ UNCHANGED <<smTarget, smReceipt>>
             \/ /\ \/ SmReceiptState \in {"other", "changed"}
                   \/ SmReceiptState = "absent" /\ ~SmPristine
                /\ SmDone("refused") /\ UNCHANGED <<smTarget, smReceipt>>
             \/ /\ SmReceiptState = "absent" /\ SmPristine
                /\ smTarget' = [rows |-> smPlan.rows, pending |-> smPlan.traffic.pending,
                                applied |-> smPlan.traffic.applied,
                                usage |-> smPlan.traffic.usage, terms |-> 0]
                /\ smReceipt' = [src |-> smPlan.src, manifest |-> SmManifest']
                /\ SmDone("imported")
    /\ UNCHANGED <<smSource, smServer, smHome, smMarked, smAccepted, smWrites, smKills>>

\* verify_sqlite_rollback changes nothing
SmVerifyRollback ==
    /\ smPlan # SmNone /\ smPlan.rollback
    /\ \/ smServer = "postgres" /\ SmDone("target_in_use")
       \/ smServer # "postgres" /\ SmReceiptState = "same" /\ SmDone("reversible")
       \/ smServer # "postgres" /\ SmReceiptState # "same" /\ SmDone("refused")
    /\ UNCHANGED <<smSource, smTarget, smReceipt, smServer, smHome, smMarked, smAccepted,
                   smWrites, smKills>>

\* the command dies before its transaction commits, or after the commit and
\* before its result is printed
SmKillCommand ==
    /\ smPlan # SmNone /\ smKills < SmMaxKills /\ smKills' = smKills + 1
    /\ SmDone("killed")
    /\ UNCHANGED <<smSource, smTarget, smReceipt, smServer, smHome, smMarked, smAccepted,
                   smWrites>>

-----------------------------------------------------------------------------
(* The deployment: an operator who acts on the results of the commands.    *)

\* another backend is configured while no server runs
SmConfigure ==
    /\ smServer = "off"
    /\ \/ smHome = "sqlite" /\ smSaid = "imported" /\ smHome' = "postgres"
       \/ smHome = "postgres" /\ smSaid = "reversible" /\ smHome' = "sqlite"
    /\ smSaid' = "none"
    /\ UNCHANGED <<smSource, smTarget, smReceipt, smPlan, smServer, smMarked, smAccepted,
                   smWrites, smKills>>

\* run_server: a directory marked by a PostgreSQL server is refused by the
\* SQLite backend, unless it ran in another; a PostgreSQL server writes its membership, a new term
SmStart ==
    /\ smServer = "off"
    /\ \/ /\ smHome = "sqlite" /\ ~smMarked /\ smPlan = SmNone /\ smServer' = "sqlite"
          /\ UNCHANGED <<smTarget, smMarked>>
       \/ /\ smHome = "postgres" /\ smPlan = SmNone /\ smServer' = "postgres"
          /\ smMarked' \in {smMarked, TRUE}
          /\ smTarget.terms < SmMaxKills + 1
          /\ smTarget' = [smTarget EXCEPT !.terms = @ + 1]
    /\ smSaid' = "none"
    /\ UNCHANGED <<smSource, smReceipt, smPlan, smHome, smAccepted, smWrites, smKills>>

SmStopServer ==
    /\ smServer # "off" /\ smServer' = "off"
    /\ UNCHANGED <<smSource, smTarget, smReceipt, smPlan, smHome, smMarked, smSaid, smAccepted,
                   smWrites, smKills>>

\* a server accepts a usage event, or a row of a client
SmAccept ==
    /\ smServer # "off" /\ smWrites < SmMaxWrites /\ smWrites' = smWrites + 1
    /\ \/ \E e \in SmEvents \ smAccepted.events :
             /\ smAccepted' = [smAccepted EXCEPT !.events = @ \cup {e}]
             /\ IF smServer = "sqlite"
                THEN smSpool' = smSpool \cup {e} /\ UNCHANGED <<smSrc, smApplied, smUsage, smTarget>>
                ELSE smTarget' = [smTarget EXCEPT !.pending = @ \cup {e}] /\ UNCHANGED smSource
       \/ \E c \in SmClients : LET row == [table |-> "clients", id |-> c, ref |-> ""] IN
             /\ row \notin smAccepted.rows
             /\ smAccepted' = [smAccepted EXCEPT !.rows = @ \cup {row}]
             /\ IF smServer = "sqlite"
                THEN smSrc' = smSrc \cup {row} /\ UNCHANGED <<smSpool, smApplied, smUsage, smTarget>>
                ELSE smTarget' = [smTarget EXCEPT !.rows = @ \cup {row}] /\ UNCHANGED smSource
    /\ UNCHANGED <<smReceipt, smPlan, smServer, smHome, smMarked, smSaid, smKills>>

\* the usage worker applies an event once, then forgets it
SmApplyEvent(e) ==
    /\ \/ /\ smServer = "sqlite" /\ e \in smSpool \ smApplied
          /\ smApplied' = smApplied \cup {e} /\ smUsage' = smUsage + 1
          /\ UNCHANGED <<smSpool, smTarget>>
       \/ /\ smServer = "sqlite" /\ e \in smSpool \cap smApplied
          /\ smSpool' = smSpool \ {e} /\ UNCHANGED <<smApplied, smUsage, smTarget>>
       \/ /\ smServer = "postgres" /\ e \in smTarget.pending
          /\ smTarget' = [smTarget EXCEPT !.pending = @ \ {e}, !.applied = @ \cup {e},
                                          !.usage = @ + 1]
          /\ UNCHANGED <<smSpool, smApplied, smUsage>>
    /\ UNCHANGED <<smSrc, smReceipt, smPlan, smServer, smHome, smMarked, smSaid, smAccepted,
                   smWrites, smKills>>

SmNext ==
    \/ \E b \in BOOLEAN : SmPrepare(b)
    \/ SmImport \/ SmVerifyRollback \/ SmKillCommand
    \/ SmConfigure \/ SmStart \/ SmStopServer \/ SmAccept
    \/ \E e \in SmEvents : SmApplyEvent(e)

SmSpec == SmInit /\ [][SmNext]_smVars

-----------------------------------------------------------------------------
\* Whichever backend a server runs on, it has every event and row that any
\* server of this deployment accepted, and every event is counted at most
\* once: the move, its repetition after a kill, and the way back lose nothing
\* and count nothing twice.
SmNothingLost ==
    smServer # "off" =>
        LET sq == smServer = "sqlite"
            rows == IF sq THEN smSrc ELSE smTarget.rows
            applied == IF sq THEN smApplied ELSE smTarget.applied
            pending == IF sq THEN smSpool \ smApplied ELSE smTarget.pending
            usage == IF sq THEN smUsage ELSE smTarget.usage
        IN /\ smAccepted.rows \subseteq rows
           /\ smAccepted.events \subseteq applied \cup pending
           /\ applied \cap pending = {}
           /\ usage = Cardinality(applied)
=============================================================================
