--------------------------- MODULE AdminSessions ---------------------------
(***************************************************************************)
(* admin_auth.rs, api_tokens.rs and their PostgreSQL versions              *)
(* (postgres_application.rs) under the handlers and middleware of main.rs: *)
(* administrators, their sessions and second factor, and API tokens.       *)
(* A request passes the role middleware, the leader middleware and the     *)
(* handler's own check before it works under the process's admin_auth      *)
(* mutex.  SQLite works in one step; PostgreSQL reads first and writes in  *)
(* a later, unfenced statement, so a handler that outlives its process's   *)
(* leadership interleaves with the handlers of the next leader.            *)
(* Passwords and TOTP secrets are version numbers of one counter.          *)
(***************************************************************************)
EXTENDS Naturals

CONSTANTS
    AuUsers,      \* user names
    AuProcs,      \* server processes, all of them for PostgreSQL
    AuFirst,      \* the process that leads at first, the only one on SQLite
    AuBootFirst,  \* LINKLAKE_ADMIN_USERNAME of that process
    AuBootOther,  \* LINKLAKE_ADMIN_USERNAME of the others
    AuTokens,     \* names of API tokens
    AuHandlers,   \* requests in progress at a time, numbers from 1
    AuPgs,        \* backends: subset of BOOLEAN, TRUE for PostgreSQL
    AuMaxOps,     \* bound on requests
    AuMaxMoves    \* bound on leadership changes

ASSUME AuAssumption ==
    /\ AuFirst \in AuProcs /\ {AuBootFirst, AuBootOther} \subseteq AuUsers
    /\ AuHandlers \subseteq Nat \ {0}
    /\ AuPgs \subseteq BOOLEAN /\ AuMaxOps \in Nat /\ AuMaxMoves \in Nat

VARIABLES
    auPg,
    auBoot,     \* startup of each process: "new", "empty", "open" or "failed"
    auRows,     \* the administrators table
    auSess,     \* the sessions table, with what the login verified
    auTokens,   \* scope of each API token, "none" when there is no such token
    auLeader,   \* the process that leads
    auReq,      \* the requests in progress
    auLock,     \* holder of each process's admin_auth mutex, AuFree for none
    auNext,     \* last password, secret and session number given out
    auOverlap,  \* a handler wrote after its process had lost leadership, even
                \* when it leads again
    auOps, auMoves

auVars == <<auPg, auBoot, auRows, auSess, auTokens, auLeader, auReq, auLock,
            auNext, auOverlap, auOps, auMoves>>

AuFree == 0
AuBootUser(p) == IF p = AuFirst THEN AuBootFirst ELSE AuBootOther
AuRoles == {"administrator", "operator", "auditor"}
AuNoRow == [there |-> FALSE, role |-> "auditor", on |-> FALSE, pw |-> 0,
            must |-> FALSE, secret |-> 0, totp |-> FALSE]
AuIdle == [pc |-> "idle", p |-> AuFirst, op |-> "none", user |-> "", role |-> "",
           on |-> FALSE, num |-> 0, code |-> 0, sid |-> 0, tok |-> "",
           actor |-> "", seen |-> "", since |-> 0]

AuAdministrators ==
    {u \in AuUsers : /\ auRows[u].there /\ auRows[u].on
                     /\ auRows[u].role = "administrator"}
\* an enabled administrator where enabled_administrator_count is at most one
AuLast(u) == AuAdministrators = {u}

AuInit ==
    /\ auPg \in AuPgs
    /\ auBoot = [p \in AuProcs |-> IF auPg \/ p = AuFirst THEN "new" ELSE "failed"]
    /\ auRows = [u \in AuUsers |-> AuNoRow]
    /\ auSess = {}
    /\ auTokens = [t \in AuTokens |-> "none"]
    /\ auLeader = AuFirst
    /\ auReq = [h \in AuHandlers |-> AuIdle]
    /\ auLock = [p \in AuProcs |-> AuFree]
    /\ auNext = 0
    /\ auOverlap = FALSE
    /\ auOps = 0 /\ auMoves = 0

-----------------------------------------------------------------------------
\* Opening the store: the first administrator

AuFirstRow(pw) == [there |-> TRUE, role |-> "administrator", on |-> TRUE,
                   pw |-> pw, must |-> FALSE, secret |-> 0, totp |-> FALSE]

AuBootstrap(p) ==
    /\ auRows' = [auRows EXCEPT ![AuBootUser(p)] = AuFirstRow(auNext + 1)]
    /\ auNext' = auNext + 1
    /\ auBoot' = [auBoot EXCEPT ![p] = "open"]

AuEmpty == \A u \in AuUsers : ~auRows[u].there

\* SQLite: one process owns the data directory
AuOpen(p) ==
    /\ ~auPg /\ auBoot[p] = "new"
    /\ IF AuEmpty THEN AuBootstrap(p)
       ELSE auBoot' = [auBoot EXCEPT ![p] = "open"] /\ UNCHANGED <<auRows, auNext>>
    /\ UNCHANGED <<auPg, auSess, auTokens, auLeader, auReq, auLock, auOverlap,
                   auOps, auMoves>>

\* PostgreSQL: the count and the insert are statements of their own
AuPgOpenCount(p) ==
    /\ auPg /\ auBoot[p] = "new"
    /\ auBoot' = [auBoot EXCEPT ![p] = IF AuEmpty THEN "empty" ELSE "open"]
    /\ UNCHANGED <<auPg, auRows, auSess, auTokens, auLeader, auReq, auLock, auNext,
                   auOverlap, auOps, auMoves>>

AuPgOpenInsert(p) ==
    /\ auBoot[p] = "empty"
    /\ IF auRows[AuBootUser(p)].there
       THEN auBoot' = [auBoot EXCEPT ![p] = "failed"] /\ UNCHANGED <<auRows, auNext>>
       ELSE AuBootstrap(p)
    /\ UNCHANGED <<auPg, auSess, auTokens, auLeader, auReq, auLock, auOverlap,
                   auOps, auMoves>>

-----------------------------------------------------------------------------
\* Who is asking

\* authenticate_session joins the session with its enabled user
AuSession(id) ==
    {s \in auSess : s.id = id /\ auRows[s.user].there /\ auRows[s.user].on}

AuTokenRole(t) ==
    CASE auTokens[t] = "read" -> "auditor"
      [] auTokens[t] = "write" -> "operator"
      [] auTokens[t] = "administrator" -> "administrator"
      [] OTHER -> "none"

\* management_principal: a user who must change their password has no role
AuSessionRole(id) ==
    IF \E s \in AuSession(id) : ~auRows[s.user].must
    THEN auRows[(CHOOSE s \in AuSession(id) : TRUE).user].role
    ELSE "none"

AuRole(r) == IF r.tok # "" THEN AuTokenRole(r.tok) ELSE AuSessionRole(r.sid)

AuUserOps == {"create", "update", "delete", "reset", "revoke", "revoke_one"}
AuTokenOps == {"token", "untoken"}
AuTotpOps == {"begin", "enable", "disable"}
AuPublicOps == {"login", "logout", "change"}

\* enforce_management_role
AuMiddlewareAllows(r) ==
    \/ r.op \in AuPublicOps
    \/ AuRole(r) = "administrator"
    \/ r.op \notin AuUserOps /\ AuRole(r) = "operator"

\* the requests worth sending: they name what exists when they are sent, and
\* carry the passwords and codes of that moment
AuPresent == {u \in AuUsers : auRows[u].there}
AuAboutUser(o, s) ==
    {[AuIdle EXCEPT !.op = o, !.user = u, !.sid = s.id] : u \in AuPresent}
AuUpdateTo(c, s) ==
    {[AuIdle EXCEPT !.op = "update", !.user = u, !.role = c, !.sid = s.id,
                    !.on = (c = "operator" \/ ~auRows[u].on)] : u \in AuPresent}
AuSessionRequests(s) ==
    AuAboutUser("delete", s) \cup AuAboutUser("reset", s) \cup AuAboutUser("revoke", s)
    \cup AuUpdateTo("operator", s) \cup AuUpdateTo("administrator", s)
    \cup {[AuIdle EXCEPT !.op = "create", !.user = u, !.role = "administrator",
                         !.on = TRUE, !.sid = s.id] : u \in AuUsers \ AuPresent}
    \cup {[AuIdle EXCEPT !.op = "revoke_one", !.num = k.id, !.sid = s.id] :
        k \in auSess}
    \cup {[AuIdle EXCEPT !.op = o, !.code = auRows[s.user].secret, !.sid = s.id] :
        o \in AuTotpOps}
    \cup {[AuIdle EXCEPT !.op = "token", !.user = t, !.role = "administrator",
                         !.sid = s.id] : t \in AuTokens}
    \cup {[AuIdle EXCEPT !.op = o, !.sid = s.id] : o \in {"logout", "change"}}
AuTokenRequests(t) ==
    {[AuIdle EXCEPT !.op = "delete", !.user = u, !.tok = t] : u \in AuPresent}
    \cup {[AuIdle EXCEPT !.op = "untoken", !.user = t, !.tok = t]}
AuLogins ==
    {[AuIdle EXCEPT !.op = "login", !.user = u, !.num = auRows[u].pw,
                    !.code = auRows[u].secret] : u \in AuPresent}
AuRequests ==
    (UNION {AuSessionRequests(s) : s \in auSess})
    \cup (UNION {AuTokenRequests(t) : t \in AuTokens}) \cup AuLogins

\* the role middleware runs before the leader middleware, and a request is
\* not looked at again when leadership moves
AuAdmit(h, p) ==
    /\ auReq[h].pc = "idle" /\ \A k \in AuHandlers : k < h => auReq[k].pc # "idle"
    /\ auBoot[p] = "open" /\ auLeader = p
    /\ auOps < AuMaxOps /\ auOps' = auOps + 1
    /\ \E r \in AuRequests :
          /\ AuMiddlewareAllows(r)
          /\ auReq' = [auReq EXCEPT ![h] =
                [r EXCEPT !.p = p,
                          !.pc = IF r.op \in AuPublicOps THEN "ready" ELSE "admitted"]]
    /\ UNCHANGED <<auPg, auBoot, auRows, auSess, auTokens, auLeader, auLock, auNext,
                   auOverlap, auMoves>>

\* require_administrator or require_interactive_session in the handler; a
\* session is revoked only from an interactive session
AuHandlerAllows(r) ==
    IF r.op \in AuTotpOps THEN r.sid # 0 /\ AuRole(r) # "none"
    ELSE AuRole(r) = "administrator" /\ (r.op = "revoke_one" => r.sid # 0)

AuActor(r) == IF r.tok # "" THEN "api-token"
              ELSE (CHOOSE s \in AuSession(r.sid) : TRUE).user

AuRequire(h) ==
    /\ auReq[h].pc = "admitted"
    /\ LET r == auReq[h]
       IN  auReq' = [auReq EXCEPT ![h] =
              IF AuHandlerAllows(r)
              THEN [r EXCEPT !.pc = "ready", !.actor = AuActor(r)] ELSE AuIdle]
    /\ UNCHANGED <<auPg, auBoot, auRows, auSess, auTokens, auLeader, auLock, auNext,
                   auOverlap, auOps, auMoves>>

-----------------------------------------------------------------------------
\* The guards of the operations

\* update_user: not oneself, and not the last enabled administrator
AuUpdateAllowed(r) ==
    /\ auRows[r.user].there
    /\ LET lowers == ~r.on \/ r.role # "administrator"
       IN  /\ ~(r.user = r.actor /\ lowers)
           /\ ~(AuLast(r.user) /\ lowers)

\* mutant: the count of the remaining administrators is left out
AuDeleteAnyone(r) == auRows[r.user].there /\ r.user # r.actor

AuDeleteAllowed(r) ==
    /\ auRows[r.user].there
    /\ r.user # r.actor
    /\ ~AuLast(r.user)

AuLoginAllowed(r) ==
    LET row == auRows[r.user]
    IN  /\ row.there /\ row.on /\ row.pw = r.num
        /\ row.totp => row.secret # 0 /\ row.secret = r.code

AuEnableAllowed(r) == auRows[r.actor].secret # 0 /\ auRows[r.actor].secret = r.code
AuDisableAllowed(r) == auRows[r.actor].totp /\ AuEnableAllowed(r)

-----------------------------------------------------------------------------
\* The effects of the operations on the two tables

AuDropSessions(gone(_)) == auSess' = {s \in auSess : ~gone(s)}
AuSetRow(u, row) == auRows' = [auRows EXCEPT ![u] = row]
AuKeepTables == UNCHANGED <<auRows, auSess, auNext>>

AuInsertSession(r, role) ==
    /\ auNext' = auNext + 1
    /\ auSess' = auSess \cup {[id |-> auNext + 1, user |-> r.user, pw |-> r.num,
                               role |-> role]}
    /\ UNCHANGED auRows

AuWriteUpdate(r, oldRole) ==
    /\ IF auRows[r.user].there
       THEN AuSetRow(r.user, [auRows[r.user] EXCEPT !.role = r.role, !.on = r.on])
       ELSE UNCHANGED auRows
    /\ IF ~r.on \/ r.role # oldRole
       THEN AuDropSessions(LAMBDA s : s.user = r.user)
       ELSE UNCHANGED auSess
    /\ UNCHANGED auNext

AuWriteDelete(r) ==
    /\ AuSetRow(r.user, AuNoRow)
    /\ AuDropSessions(LAMBDA s : s.user = r.user)
    /\ UNCHANGED auNext

\* a new password ends every session, or every other one when its owner
\* changes it; the session kept counts as opened with the new password, and a
\* reset asks for another change
AuNewPassword(u, keep) ==
    IF ~auRows[u].there THEN AuKeepTables
    ELSE /\ AuSetRow(u, [auRows[u] EXCEPT !.pw = auNext + 1, !.must = keep = 0])
         /\ auSess' = {s \in auSess : s.user # u}
                      \cup {[s EXCEPT !.pw = auNext + 1] :
                            s \in {k \in auSess : k.user = u /\ k.id = keep}}
         /\ auNext' = auNext + 1

AuWriteTotp(u, secret, on, keep) ==
    /\ IF auRows[u].there
       THEN AuSetRow(u, [auRows[u] EXCEPT !.secret = secret, !.totp = on])
       ELSE UNCHANGED auRows
    /\ AuDropSessions(LAMBDA s : keep # 0 /\ s.user = u /\ s.id # keep)

AuWriteCreate(r) ==
    IF auRows[r.user].there THEN AuKeepTables
    ELSE /\ AuSetRow(r.user, [AuFirstRow(auNext + 1) EXCEPT !.role = r.role])
         /\ auNext' = auNext + 1
         /\ UNCHANGED auSess

-----------------------------------------------------------------------------
\* SQLite: an operation is one step under the mutex

AuDone(h) == auReq' = [auReq EXCEPT ![h] = AuIdle]

AuLogin(r) ==
    IF AuLoginAllowed(r) THEN AuInsertSession(r, auRows[r.user].role)
    ELSE AuKeepTables

AuLogout(r) ==
    /\ IF AuSession(r.sid) # {} THEN AuDropSessions(LAMBDA s : s.id = r.sid)
       ELSE UNCHANGED auSess
    /\ UNCHANGED <<auRows, auNext>>

AuChangePassword(r) ==
    IF AuSession(r.sid) = {} THEN AuKeepTables
    ELSE AuNewPassword((CHOOSE s \in AuSession(r.sid) : TRUE).user, r.sid)

AuCreateUser(r) == AuWriteCreate(r)

AuUpdateUser(r) ==
    IF AuUpdateAllowed(r) THEN AuWriteUpdate(r, auRows[r.user].role) ELSE AuKeepTables

AuDeleteUser(r) == IF AuDeleteAllowed(r) THEN AuWriteDelete(r) ELSE AuKeepTables

AuResetUserPassword(r) == AuNewPassword(r.user, 0)

AuRevokeUserSessions(r) ==
    AuDropSessions(LAMBDA s : s.user = r.user) /\ UNCHANGED <<auRows, auNext>>

AuBeginTotp(r) ==
    /\ auNext' = auNext + 1
    /\ AuWriteTotp(r.actor, auNext + 1, FALSE, 0)

AuEnableTotp(r) ==
    IF AuEnableAllowed(r)
    THEN AuWriteTotp(r.actor, auRows[r.actor].secret, TRUE, r.sid) /\ UNCHANGED auNext
    ELSE AuKeepTables

AuDisableTotp(r) ==
    IF AuDisableAllowed(r)
    THEN AuWriteTotp(r.actor, 0, FALSE, 0) /\ UNCHANGED auNext
    ELSE AuKeepTables

AuRevokeSession(r) ==
    /\ AuDropSessions(LAMBDA s : s.id = r.num /\ r.num # r.sid)
    /\ UNCHANGED <<auRows, auNext>>

AuSqliteStep(r) ==
    CASE r.op = "login" -> AuLogin(r)
      [] r.op = "logout" -> AuLogout(r)
      [] r.op = "change" -> AuChangePassword(r)
      [] r.op = "create" -> AuCreateUser(r)
      [] r.op = "update" -> AuUpdateUser(r)
      [] r.op = "delete" -> AuDeleteUser(r)
      [] r.op = "reset" -> AuResetUserPassword(r)
      [] r.op = "revoke" -> AuRevokeUserSessions(r)
      [] r.op = "begin" -> AuBeginTotp(r)
      [] r.op = "enable" -> AuEnableTotp(r)
      [] r.op = "disable" -> AuDisableTotp(r)
      [] r.op = "revoke_one" -> AuRevokeSession(r)

AuSqlite(h) ==
    /\ ~auPg /\ auReq[h].pc = "ready" /\ auReq[h].op \notin AuTokenOps
    /\ auLock[auReq[h].p] = AuFree
    /\ AuSqliteStep(auReq[h])
    /\ AuDone(h)
    /\ UNCHANGED <<auPg, auBoot, auTokens, auLeader, auLock, auOverlap, auOps, auMoves>>

-----------------------------------------------------------------------------
\* PostgreSQL: what is read first, and what is then written

\* the value of the read that the write uses, "" when the operation ends
AuPgLoginReads(r) == IF AuLoginAllowed(r) THEN auRows[r.user].role ELSE ""
AuPgSessionReads(r) ==
    IF AuSession(r.sid) = {} THEN ""
    ELSE (CHOOSE s \in AuSession(r.sid) : TRUE).user
AuPgUpdateReads(r) == IF AuUpdateAllowed(r) THEN auRows[r.user].role ELSE ""
AuPgDeleteReads(r) == IF AuDeleteAllowed(r) THEN "delete" ELSE ""
AuPgUserReads(u) == IF auRows[u].there THEN "user" ELSE ""
AuPgEnableReads(r) == IF AuEnableAllowed(r) THEN "enable" ELSE ""
AuPgDisableReads(r) == IF AuDisableAllowed(r) THEN "disable" ELSE ""

AuPgReads(r) ==
    CASE r.op = "login" -> AuPgLoginReads(r)
      [] r.op \in {"change", "logout"} -> AuPgSessionReads(r)
      [] r.op = "update" -> AuPgUpdateReads(r)
      [] r.op = "delete" -> AuPgDeleteReads(r)
      [] r.op = "revoke" -> AuPgUserReads(r.user)
      [] r.op = "begin" -> AuPgUserReads(r.actor)
      [] r.op = "enable" -> AuPgEnableReads(r)
      [] r.op = "disable" -> AuPgDisableReads(r)
      [] OTHER -> "nothing"

AuTakeLock(h, p) == auLock[p] = AuFree /\ auLock' = [auLock EXCEPT ![p] = h]

AuPgRead(h) ==
    LET r == auReq[h]
    IN  /\ auPg /\ r.pc = "ready" /\ r.op \notin AuTokenOps
        /\ IF AuPgReads(r) = ""
           THEN auLock[r.p] = AuFree /\ AuDone(h) /\ UNCHANGED auLock
           ELSE /\ AuTakeLock(h, r.p)
                /\ auReq' = [auReq EXCEPT ![h] = [r EXCEPT !.pc = "write",
                                 !.seen = AuPgReads(r), !.since = auMoves]]
        /\ UNCHANGED <<auPg, auBoot, auRows, auSess, auTokens, auLeader, auNext,
                       auOverlap, auOps, auMoves>>

\* the session row refers to an existing user
AuPgLogin(r) ==
    IF auRows[r.user].there THEN AuInsertSession(r, r.seen) ELSE AuKeepTables
AuPgLogout(r) ==
    AuDropSessions(LAMBDA s : s.id = r.sid) /\ UNCHANGED <<auRows, auNext>>
AuPgChangePassword(r) == AuNewPassword(r.seen, r.sid)
AuPgCreateUser(r) == AuWriteCreate(r)
AuPgUpdateUser(r) == AuWriteUpdate(r, r.seen)
AuPgDeleteUser(r) == AuWriteDelete(r)
AuPgResetUserPassword(r) == AuNewPassword(r.user, 0)
AuPgRevokeUserSessions(r) ==
    AuDropSessions(LAMBDA s : s.user = r.user) /\ UNCHANGED <<auRows, auNext>>
AuPgBeginTotp(r) ==
    auNext' = auNext + 1 /\ AuWriteTotp(r.actor, auNext + 1, FALSE, 0)
AuPgEnableTotp(r) ==
    AuWriteTotp(r.actor, auRows[r.actor].secret, TRUE, r.sid) /\ UNCHANGED auNext
AuPgDisableTotp(r) == AuWriteTotp(r.actor, 0, FALSE, 0) /\ UNCHANGED auNext
AuPgRevokeSession(r) ==
    /\ AuDropSessions(LAMBDA s : s.id = r.num /\ r.num # r.sid)
    /\ UNCHANGED <<auRows, auNext>>

AuPgWrites(r) ==
    CASE r.op = "login" -> AuPgLogin(r)
      [] r.op = "logout" -> AuPgLogout(r)
      [] r.op = "change" -> AuPgChangePassword(r)
      [] r.op = "create" -> AuPgCreateUser(r)
      [] r.op = "update" -> AuPgUpdateUser(r)
      [] r.op = "delete" -> AuPgDeleteUser(r)
      [] r.op = "reset" -> AuPgResetUserPassword(r)
      [] r.op = "revoke" -> AuPgRevokeUserSessions(r)
      [] r.op = "begin" -> AuPgBeginTotp(r)
      [] r.op = "enable" -> AuPgEnableTotp(r)
      [] r.op = "disable" -> AuPgDisableTotp(r)
      [] r.op = "revoke_one" -> AuPgRevokeSession(r)

AuReleased(h) == [p \in AuProcs |-> IF auLock[p] = h THEN AuFree ELSE auLock[p]]

AuPgWrite(h) ==
    LET r == auReq[h]
    IN  /\ r.pc = "write"
        /\ AuPgWrites(r)
        /\ auLock' = AuReleased(h)
        /\ auOverlap' = (auOverlap \/ auLeader # r.p \/ auMoves # r.since)
        /\ AuDone(h)
        /\ UNCHANGED <<auPg, auBoot, auTokens, auLeader, auOps, auMoves>>

-----------------------------------------------------------------------------
\* API tokens: a catalog and a mutex of their own

AuCreateToken(r) ==
    IF auTokens[r.user] = "none"
    THEN auTokens' = [auTokens EXCEPT ![r.user] = r.role] ELSE UNCHANGED auTokens
AuRevokeToken(r) == auTokens' = [auTokens EXCEPT ![r.user] = "none"]
AuPgCreateToken(r) ==
    IF auTokens[r.user] = "none"
    THEN auTokens' = [auTokens EXCEPT ![r.user] = r.role] ELSE UNCHANGED auTokens
AuPgRevokeToken(r) == auTokens' = [auTokens EXCEPT ![r.user] = "none"]

AuTokenStep(h) ==
    LET r == auReq[h]
    IN  /\ r.pc = "ready" /\ r.op \in AuTokenOps
        /\ CASE r.op = "token" /\ ~auPg -> AuCreateToken(r)
             [] r.op = "token" /\ auPg -> AuPgCreateToken(r)
             [] r.op = "untoken" /\ ~auPg -> AuRevokeToken(r)
             [] r.op = "untoken" /\ auPg -> AuPgRevokeToken(r)
        /\ AuDone(h)
        /\ UNCHANGED <<auPg, auBoot, auRows, auSess, auLeader, auLock, auNext,
                       auOverlap, auOps, auMoves>>

-----------------------------------------------------------------------------
\* a session reaches its lifetime: it no longer authenticates, and the next
\* login or listing deletes the row
AuExpire ==
    /\ \E s \in auSess : auSess' = auSess \ {s}
    /\ auOps < AuMaxOps /\ auOps' = auOps + 1
    /\ UNCHANGED <<auPg, auBoot, auRows, auTokens, auLeader, auReq, auLock, auNext,
                   auOverlap, auMoves>>

AuLeaderMoves ==
    /\ auPg /\ auMoves < AuMaxMoves /\ auMoves' = auMoves + 1
    /\ \E p \in AuProcs \ {auLeader} : auBoot[p] = "open" /\ auLeader' = p
    /\ UNCHANGED <<auPg, auBoot, auRows, auSess, auTokens, auReq, auLock, auNext,
                   auOverlap, auOps>>

AuNext ==
    \/ \E p \in AuProcs : AuOpen(p) \/ AuPgOpenCount(p) \/ AuPgOpenInsert(p)
    \/ \E h \in AuHandlers :
          \/ \E p \in AuProcs : AuAdmit(h, p)
          \/ AuRequire(h) \/ AuSqlite(h) \/ AuPgRead(h) \/ AuPgWrite(h) \/ AuTokenStep(h)
    \/ AuExpire \/ AuLeaderMoves

AuSpec == AuInit /\ [][AuNext]_auVars

-----------------------------------------------------------------------------
\* Someone can always administer the server: once a store is open, an enabled
\* administrator remains, whatever administrators and API tokens authenticated
\* earlier do to each other, as long as no handler writes after its process
\* lost leadership (update_user and delete_user count before they write).
AuAdministratorRemains ==
    (\E p \in AuProcs : auBoot[p] = "open") /\ ~auOverlap => AuAdministrators # {}

\* Revocation is complete: while handlers end within their leadership, every
\* session belongs to an enabled user, was opened with the password now
\* stored and for the role the user has now; a login that verified older
\* credentials does not leave a session behind a reset, a change of role or
\* a disabled account.
AuSessionsCurrent ==
    ~auOverlap => \A s \in auSess :
        /\ auRows[s.user].there /\ auRows[s.user].on
        /\ s.pw = auRows[s.user].pw /\ s.role = auRows[s.user].role

\* The statement of the design notes for every deployment: the last enabled
\* administrator is never deleted, disabled or demoted.
AuNeverWithoutAdministrator ==
    (\E p \in AuProcs : auBoot[p] = "open") => AuAdministrators # {}

\* Accounts and sessions agree: an administrator remains, and no session
\* survives what it was opened with.
AuAuthorityHolds == AuAdministratorRemains /\ AuSessionsCurrent

=============================================================================
