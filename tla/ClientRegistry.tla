--------------------------- MODULE ClientRegistry ---------------------------
(***************************************************************************)
(* The registered client identities: client_registry.rs, which serves them *)
(* from a map in memory and keeps the clients table up to date, the        *)
(* PostgreSQL registry of postgres_application.rs, which serves every      *)
(* request from the table, and the HTTP handlers of main.rs that enroll,   *)
(* touch, update, rotate and delete clients. With SQLite the registry sits *)
(* behind one mutex, held for one registry call at a time; with PostgreSQL *)
(* the handlers belong to two processes and their statements interleave.   *)
(***************************************************************************)
EXTENDS Naturals, FiniteSets

CONSTANTS
    CrAgents,     \* agent instances
    CrMaxIds,     \* bound on client ids given out
    CrMaxTokens,  \* bound on tokens given out
    CrHandlers,   \* requests served at once, 1..n
    CrPgs,        \* backends: TRUE for PostgreSQL
    CrMaxOps,     \* bound on requests
    CrMaxFaults   \* bound on failing statements, lost answers and restarts

ASSUME CrAssumption ==
    {CrMaxIds, CrMaxTokens, CrMaxOps, CrMaxFaults} \subseteq Nat

VARIABLES
    crPg,        \* the backend
    crMap,       \* clients of the SQLite registry, by id
    crTable,     \* rows of the clients table, by id
    crPolicies,  \* ids the tunnel policies refer to
    crHeld,      \* id and token in each agent's configuration
    crReq,       \* requests being served
    crIds, crTokens, crOps, crFaults

crVars == <<crPg, crMap, crTable, crPolicies, crHeld, crReq, crIds, crTokens,
            crOps, crFaults>>

CrId == 1..CrMaxIds
CrNoClient == [agent |-> "", key |-> FALSE, on |-> FALSE, token |-> 0,
               seen |-> FALSE, sync |-> FALSE]
CrIdle == [op |-> "none", pc |-> "done", agent |-> "", id |-> 0, token |-> 0,
           arg |-> FALSE]

CrFault == crFaults < CrMaxFaults /\ crFaults' = crFaults + 1
CrGoto(h, pc) == crReq' = [crReq EXCEPT ![h].pc = pc]
CrDone(h) == crReq' = [crReq EXCEPT ![h] = CrIdle]
CrExists(rows, i) == i \in CrId /\ rows[i].token # 0

\* what the registry answers from
CrRows == IF crPg THEN crTable ELSE crMap

CrInit ==
    /\ crPg \in CrPgs
    /\ crMap = [i \in CrId |-> CrNoClient]
    /\ crTable = [i \in CrId |-> CrNoClient]
    /\ crPolicies = {}
    /\ crHeld = [a \in CrAgents |-> [id |-> 0, token |-> 0]]
    /\ crReq = [h \in CrHandlers |-> CrIdle]
    /\ crIds = 0 /\ crTokens = 0 /\ crOps = 0 /\ crFaults = 0

-----------------------------------------------------------------------------
\* Requests.

CrAdmit(h, req) ==
    /\ crReq[h] = CrIdle /\ \A g \in CrHandlers : g < h => crReq[g] # CrIdle
    /\ crOps < CrMaxOps /\ crOps' = crOps + 1
    /\ crReq' = [crReq EXCEPT ![h] = req]
    /\ UNCHANGED <<crPg, crMap, crTable, crPolicies, crHeld, crIds, crTokens,
                   crFaults>>

CrAsk(op, pc) == [CrIdle EXCEPT !.op = op, !.pc = pc]

\* an agent enrolls, with the proof of its identity key or without one
CrEnrollAsked(h, a, key) ==
    CrAdmit(h, [CrAsk("enroll", "enroll") EXCEPT !.agent = a, !.arg = key])

CrTouchAsked(h, a) ==
    /\ crHeld[a].id # 0
    /\ CrAdmit(h, [CrAsk("touch", "verify") EXCEPT !.agent = a,
                       !.id = crHeld[a].id, !.token = crHeld[a].token])

CrUpdateAsked(h, i, on) ==
    CrAdmit(h, [CrAsk("update", "load") EXCEPT !.id = i, !.arg = on])
CrRotateAsked(h, i) == CrAdmit(h, [CrAsk("rotate", "load") EXCEPT !.id = i])
CrDeleteAsked(h, i) == CrAdmit(h, [CrAsk("delete", "online") EXCEPT !.id = i])
CrPolicyAsked(h, i) == CrAdmit(h, [CrAsk("policy", "enabled") EXCEPT !.id = i])
CrSyncAsked(h, i) == CrAdmit(h, [CrAsk("sync", "load") EXCEPT !.id = i])

-----------------------------------------------------------------------------
\* Writes.

\* mutant: the map changes before the statement, which may fail
CrStoreMapFirst(i, row) ==
    /\ crMap' = IF crPg THEN crMap ELSE [crMap EXCEPT ![i] = row]
    /\ \/ crTable' = [crTable EXCEPT ![i] = row] /\ UNCHANGED crFaults
       \/ CrFault /\ UNCHANGED crTable

\* persist_client, then the map; a failing statement changes neither
CrStore(i, row) ==
    \/ /\ crTable' = [crTable EXCEPT ![i] = row]
       /\ crMap' = IF crPg THEN crMap ELSE [crMap EXCEPT ![i] = row]
       /\ UNCHANGED crFaults
    \/ CrFault /\ UNCHANGED <<crTable, crMap>>

\* the answer with a new token reaches the agent's configuration or is lost
CrAnswer(a, i, token) ==
    \/ crHeld' = [crHeld EXCEPT ![a] = [id |-> i, token |-> token]]
    \/ UNCHANGED crHeld

CrEnrolled(rows, a) == {i \in CrId : CrExists(rows, i) /\ rows[i].agent = a}

\* re-enrollment of a known instance keeps its id and needs its key
CrReEnroll(h, i) ==
    LET r == crReq[h] IN
    IF r.arg
    THEN /\ crTokens < CrMaxTokens
         /\ crTokens' = crTokens + 1
         /\ CrStore(i, [CrRows[i] EXCEPT !.key = TRUE, !.on = TRUE, !.seen = TRUE,
                                         !.token = crTokens + 1])
         /\ IF crTable' # crTable THEN CrAnswer(r.agent, i, crTokens + 1)
                                  ELSE UNCHANGED crHeld
         /\ UNCHANGED crIds
    ELSE UNCHANGED <<crTokens, crTable, crMap, crFaults, crHeld, crIds>>

\* a new client; the unique index on the instance refuses a row the map
\* does not know of
CrInsert(h) ==
    LET r == crReq[h] IN
    IF CrEnrolled(crTable, r.agent) = {}
    THEN /\ crIds < CrMaxIds /\ crTokens < CrMaxTokens
         /\ crIds' = crIds + 1 /\ crTokens' = crTokens + 1
         /\ CrStore(crIds + 1, [agent |-> r.agent, key |-> r.arg, on |-> TRUE,
                                token |-> crTokens + 1, seen |-> TRUE,
                                sync |-> FALSE])
         /\ IF crTable' # crTable THEN CrAnswer(r.agent, crIds + 1, crTokens + 1)
                                  ELSE UNCHANGED crHeld
    ELSE UNCHANGED <<crTokens, crTable, crMap, crFaults, crHeld, crIds>>

\* enroll_with_identity, one registry call or one transaction
CrEnroll(h) ==
    /\ crReq[h].pc = "enroll"
    /\ LET known == CrEnrolled(CrRows, crReq[h].agent)
       IN  \/ known = {} /\ CrInsert(h)
           \/ \E i \in known : CrReEnroll(h, i)
    /\ CrDone(h)
    /\ UNCHANGED <<crPg, crPolicies, crOps>>

-----------------------------------------------------------------------------
\* authenticate_and_touch. The map's copy carries the token it verified; the
\* PostgreSQL registry verifies a row it read and then updates one column.

CrVerifies(h, row) == row.token # 0 /\ row.on /\ row.token = crReq[h].token

CrTouchSqlite(h) ==
    /\ ~crPg /\ crReq[h].pc = "verify"
    /\ IF CrVerifies(h, crMap[crReq[h].id])
       THEN CrStore(crReq[h].id, [crMap[crReq[h].id] EXCEPT !.seen = TRUE])
       ELSE UNCHANGED <<crTable, crMap, crFaults>>
    /\ CrDone(h)
    /\ UNCHANGED <<crPg, crPolicies, crHeld, crIds, crTokens, crOps>>

CrVerifyPg(h) ==
    /\ crPg /\ crReq[h].pc = "verify"
    /\ IF CrVerifies(h, crTable[crReq[h].id]) THEN CrGoto(h, "write")
                                              ELSE CrDone(h)
    /\ UNCHANGED <<crPg, crMap, crTable, crPolicies, crHeld, crIds, crTokens,
                   crOps, crFaults>>

\* an UPDATE by id: no row, no change
CrPgUpdate(i, row) ==
    IF crTable[i].token = 0 THEN UNCHANGED <<crTable, crMap, crFaults>>
                            ELSE CrStore(i, row)

CrTouchPg(h) ==
    /\ crReq[h].op = "touch" /\ crReq[h].pc = "write"
    /\ CrPgUpdate(crReq[h].id, [crTable[crReq[h].id] EXCEPT !.seen = TRUE])
    /\ CrDone(h)
    /\ UNCHANGED <<crPg, crPolicies, crHeld, crIds, crTokens, crOps>>

-----------------------------------------------------------------------------
\* update, update_config_sync and rotate_token: one call on the map, or a
\* load followed by an UPDATE.

CrUpdated(h, row) == [row EXCEPT !.on = crReq[h].arg]
CrSynced(row) == [row EXCEPT !.sync = TRUE]
CrRotated(row) == [row EXCEPT !.token = crTokens + 1]

CrChanged(h, row) ==
    CASE crReq[h].op = "update" -> CrUpdated(h, row)
      [] crReq[h].op = "sync" -> CrSynced(row)
      [] OTHER -> CrRotated(row)

\* rotate_client_token reads the summary in a second registry call
CrAfterWrite(h, written) ==
    IF crReq[h].op = "rotate"
    THEN /\ crTokens < CrMaxTokens /\ crTokens' = crTokens + 1
         /\ crReq' = [crReq EXCEPT ![h] = IF written
                         THEN [@ EXCEPT !.pc = "summary", !.token = crTokens + 1]
                         ELSE CrIdle]
    ELSE CrDone(h) /\ UNCHANGED crTokens

CrLoadPg(h) ==
    /\ crPg /\ crReq[h].pc = "load"
    /\ IF CrExists(crTable, crReq[h].id) THEN CrGoto(h, "write") ELSE CrDone(h)
    /\ UNCHANGED <<crPg, crMap, crTable, crPolicies, crHeld, crIds, crTokens,
                   crOps, crFaults>>

CrWritePg(h) ==
    /\ crReq[h].op \in {"update", "sync", "rotate"} /\ crReq[h].pc = "write"
    /\ CrPgUpdate(crReq[h].id, CrChanged(h, crTable[crReq[h].id]))
    /\ CrAfterWrite(h, crTable' # crTable)
    /\ UNCHANGED <<crPg, crPolicies, crHeld, crIds, crOps>>

CrWriteSqlite(h) ==
    /\ ~crPg /\ crReq[h].pc = "load"
    /\ IF CrExists(crMap, crReq[h].id)
       THEN /\ CrStore(crReq[h].id, CrChanged(h, crMap[crReq[h].id]))
            /\ CrAfterWrite(h, crTable' # crTable)
       ELSE CrDone(h) /\ UNCHANGED <<crTable, crMap, crFaults, crTokens>>
    /\ UNCHANGED <<crPg, crPolicies, crHeld, crIds, crOps>>

\* the handler takes the instance id from the summary of the client it
\* rotated; without a client it panics
CrRotateSummary(h) ==
    /\ crReq[h].pc = "summary"
    /\ IF CrExists(CrRows, crReq[h].id)
       THEN /\ CrAnswer(CrRows[crReq[h].id].agent, crReq[h].id, crReq[h].token)
            /\ CrDone(h)
       ELSE CrGoto(h, "panicked") /\ UNCHANGED crHeld
    /\ UNCHANGED <<crPg, crMap, crTable, crPolicies, crIds, crTokens, crOps,
                   crFaults>>

-----------------------------------------------------------------------------
\* delete_client: three separate registry and catalogue calls.

CrRead(h, pc, next, ok) ==
    /\ crReq[h].pc = pc
    /\ IF ok THEN CrGoto(h, next) ELSE CrDone(h)
    /\ UNCHANGED <<crPg, crMap, crTable, crPolicies, crHeld, crIds, crTokens,
                   crOps, crFaults>>

\* an enabled client seen in the last 120 seconds is online
CrCheckOnline(h) ==
    LET row == CrRows[crReq[h].id]
    IN  CrRead(h, "online", "references", row.token # 0 /\ ~(row.on /\ row.seen))

\* client_policy_reference_count
CrCountReferences(h) ==
    CrRead(h, "references", "delete", crReq[h].id \notin crPolicies)

\* the map forgets the client before the statement runs
CrDeleteSqlite(h) ==
    /\ ~crPg /\ crReq[h].pc = "delete"
    /\ LET i == crReq[h].id IN
       IF CrExists(crMap, i)
       THEN /\ crMap' = [crMap EXCEPT ![i] = CrNoClient]
            /\ \/ crTable' = [crTable EXCEPT ![i] = CrNoClient] /\ UNCHANGED crFaults
               \/ CrFault /\ UNCHANGED crTable
       ELSE UNCHANGED <<crMap, crTable, crFaults>>
    /\ CrDone(h)
    /\ UNCHANGED <<crPg, crPolicies, crHeld, crIds, crTokens, crOps>>

CrDeletePg(h) ==
    /\ crPg /\ crReq[h].pc = "delete"
    /\ crTable' = [crTable EXCEPT ![crReq[h].id] = CrNoClient]
    /\ CrDone(h)
    /\ UNCHANGED <<crPg, crMap, crPolicies, crHeld, crIds, crTokens, crOps,
                   crFaults>>

\* creating a policy: client_is_enabled, then the insert
CrPolicyCheck(h) ==
    CrRead(h, "enabled", "insert", CrRows[crReq[h].id].on)

CrPolicyInsert(h) ==
    /\ crReq[h].pc = "insert"
    /\ crPolicies' = crPolicies \cup {crReq[h].id}
    /\ CrDone(h)
    /\ UNCHANGED <<crPg, crMap, crTable, crHeld, crIds, crTokens, crOps, crFaults>>

-----------------------------------------------------------------------------
\* more than 120 seconds pass without a heartbeat
CrSilent(i) ==
    /\ CrRows[i].seen
    /\ crTable' = [crTable EXCEPT ![i].seen = FALSE]
    /\ crMap' = [crMap EXCEPT ![i].seen = FALSE]
    /\ UNCHANGED <<crPg, crPolicies, crHeld, crReq, crIds, crTokens, crOps, crFaults>>

\* the server restarts: requests end, open_with_database reads the table
CrRestart ==
    /\ CrFault
    /\ crReq' = [h \in CrHandlers |-> CrIdle]
    /\ crMap' = IF crPg THEN crMap ELSE crTable
    /\ UNCHANGED <<crPg, crTable, crPolicies, crHeld, crIds, crTokens, crOps>>

CrAsked(h) ==
    \/ \E a \in CrAgents : CrTouchAsked(h, a)
                           \/ \E key \in BOOLEAN : CrEnrollAsked(h, a, key)
    \/ \E i \in 1..crIds :
          \/ CrRotateAsked(h, i) \/ CrDeleteAsked(h, i)
          \/ CrPolicyAsked(h, i) \/ CrSyncAsked(h, i)
          \/ \E on \in BOOLEAN : CrUpdateAsked(h, i, on)

CrServe(h) ==
    \/ CrEnroll(h) \/ CrTouchSqlite(h) \/ CrVerifyPg(h) \/ CrTouchPg(h)
    \/ CrLoadPg(h) \/ CrWritePg(h) \/ CrWriteSqlite(h) \/ CrRotateSummary(h)
    \/ CrCheckOnline(h) \/ CrCountReferences(h)
    \/ CrDeleteSqlite(h) \/ CrDeletePg(h) \/ CrPolicyCheck(h) \/ CrPolicyInsert(h)

CrNext ==
    \/ \E h \in CrHandlers : CrAsked(h) \/ CrServe(h)
    \/ \E i \in CrId : CrSilent(i)
    \/ CrRestart

CrSpec == CrInit /\ [][CrNext]_crVars

-----------------------------------------------------------------------------
\* A restart never takes back what the registry granted: every client the
\* SQLite registry accepts from memory is in the table with the same token
\* and state, although statements fail.
CrServedIsStored ==
    ~crPg => \A i \in CrId : CrExists(crMap, i) => crTable[i] = crMap[i]

\* A client whose token was just rotated is still there when the handler
\* reads its summary.
CrRotatedStillExists == \A h \in CrHandlers : crReq[h].pc # "panicked"

=============================================================================
