--------------------------- MODULE TunnelRegistry ---------------------------
(***************************************************************************)
(* The policies of one tunnel kind, the registrations clients make for     *)
(* them on one server process, and the requests that change the policies.  *)
(* A registration of a kind with a public port reads the policy, leases    *)
(* and binds the port without any lock and reads the policy again under    *)
(* the mutation lock; a route kind reads once, under the lock.  The lock   *)
(* is policy_mutation_lock, and certificate_mutations for HTTP routes.     *)
(* A policy is abstracted to the keys it is published under (its port, the *)
(* ports of a group, its hostname) and one value for everything else.      *)
(***************************************************************************)
EXTENDS Naturals, FiniteSets

CONSTANTS
    TnKinds,      \* kinds explored, a subset of TnPortKinds and TnRouteKinds
    TnPolicies,   \* policy ids
    TnStored,     \* policies an earlier run may have left in the database
    TnKeys,       \* public ports or hostnames
    TnVals,       \* the rest of a policy: target, limits
    TnSessions,   \* control connections of clients
    TnMaxEvents   \* bound on requests, changes of leadership and drains

TnPortKinds == {"tcp", "udp", "group", "socks5", "http_proxy"}
TnRouteKinds == {"http", "sni", "secret"}

ASSUME TnAssumption ==
    /\ TnKinds \subseteq TnPortKinds \cup TnRouteKinds
    /\ TnMaxEvents \in Nat
    /\ "" \notin TnSessions \cup TnPolicies \cup TnKeys
    /\ TnStored \subseteq [keys : SUBSET TnKeys, val : TnVals \cup {0}, on : BOOLEAN]

VARIABLES
    tnKind,
    tnRow,     \* stored policies: [keys, val, on], no keys for no policy
    tnTerm,    \* fencing token this process leads with, 0 while it does not
    tnTerms,   \* terms granted so far
    tnWas,     \* leadership the watcher task saw last
    tnPhase,   \* lifecycle: "starting", "ready", "draining", "stopping"
    tnReg,     \* registry: session registered under a key, "" for none
    tnS,       \* sessions: [pc, key, pol, seen, token, stop, open, missed]
    tnH,       \* the request holding the lock: [pc, stops, pol, old, new]
    tnEvents

tnVars == <<tnKind, tnRow, tnTerm, tnTerms, tnWas, tnPhase, tnReg, tnS, tnH,
            tnEvents>>

TnNoRow == [keys |-> {}, val |-> 0, on |-> FALSE]
TnNoSession == [pc |-> "idle", key |-> "", pol |-> "", seen |-> TnNoRow,
                token |-> 0, stop |-> FALSE, open |-> FALSE, missed |-> FALSE]
TnNoRequest == [pc |-> "idle", stops |-> FALSE, pol |-> "", old |-> TnNoRow,
                new |-> TnNoRow]

TnTwoReads == tnKind \in TnPortKinds
\* SOCKS5, HTTP proxy and secret registrations are kept by policy id
TnById == tnKind \in {"socks5", "http_proxy", "secret"}
TnSlots == TnKeys \cup TnPolicies
TnSlot(p, k) == IF TnById THEN p ELSE k
TnAcceptsNewWork == tnPhase = "ready"
TnAcceptsPublicWork == TnAcceptsNewWork /\ tnTerm # 0
TnLockHeldBy(r) == tnS[r].pc \in {"looking", "looked", "install"}
TnLockFree == tnH.pc = "idle" /\ \A r \in TnSessions : ~TnLockHeldBy(r)
TnAt(r, pc) == tnS[r].pc = pc
\* the listening socket of a port can be bound once
TnBound(k) == \E r \in TnSessions : tnS[r].open /\ tnS[r].key = k

TnInit ==
    /\ tnKind \in TnKinds
    /\ tnRow \in [TnPolicies -> TnStored]
    /\ \A p, q \in TnPolicies : p # q => tnRow[p].keys \cap tnRow[q].keys = {}
    /\ tnTerm = 1 /\ tnTerms = 1 /\ tnWas = TRUE
    /\ tnPhase = "starting"
    /\ tnReg = [s \in TnSlots |-> ""]
    /\ tnS = [r \in TnSessions |-> TnNoSession]
    /\ tnH = TnNoRequest
    /\ tnEvents = 0

TnEvent == tnEvents < TnMaxEvents /\ tnEvents' = tnEvents + 1
TnGo(r, pc) == tnS' = [tnS EXCEPT ![r].pc = pc]
TnReject(r) == tnS' = [tnS EXCEPT ![r] = TnNoSession]

-----------------------------------------------------------------------------
(* policies: what a catalog stores and answers *)

TnExists(p) == tnRow[p].keys # {}
TnOneKey(row) == Cardinality(row.keys) = 1
\* a public port serves one policy of all the tables that share it
TnPortsFree(p, row) == \A q \in TnPolicies \ {p} : tnRow[q].keys \cap row.keys = {}

\* what the tables of a kind accept: a UNIQUE column or a check before the
\* write; a stored policy keeps its key while it is disabled
TnTcpAccepts(p, row) == TnOneKey(row) /\ TnPortsFree(p, row)
TnUdpAccepts(p, row) == TnOneKey(row) /\ TnPortsFree(p, row)
TnGroupAccepts(p, row) == row.keys # {} /\ TnPortsFree(p, row)
TnSocks5Accepts(p, row) == TnOneKey(row) /\ TnPortsFree(p, row)
TnHttpProxyAccepts(p, row) == TnOneKey(row) /\ TnPortsFree(p, row)
TnHttpAccepts(p, row) ==
    TnOneKey(row) /\ \A q \in TnPolicies \ {p} : tnRow[q].keys # row.keys
TnSniAccepts(p, row) ==
    TnOneKey(row) /\ \A q \in TnPolicies \ {p} : tnRow[q].keys # row.keys
\* a secret tunnel has no public key: its key stands for its name
TnSecretAccepts(p, row) ==
    TnOneKey(row) /\ \A q \in TnPolicies \ {p} : tnRow[q].keys # row.keys

TnAdmissible(p, row) ==
    CASE tnKind = "tcp" -> TnTcpAccepts(p, row)
      [] tnKind = "udp" -> TnUdpAccepts(p, row)
      [] tnKind = "group" -> TnGroupAccepts(p, row)
      [] tnKind = "socks5" -> TnSocks5Accepts(p, row)
      [] tnKind = "http_proxy" -> TnHttpProxyAccepts(p, row)
      [] tnKind = "http" -> TnHttpAccepts(p, row)
      [] tnKind = "sni" -> TnSniAccepts(p, row)
      [] tnKind = "secret" -> TnSecretAccepts(p, row)
TnRows == [keys : SUBSET TnKeys, val : TnVals, on : {TRUE}]

\* the enabled policy a client may register under a key
TnRuntimePolicy(k) == {p \in TnPolicies : tnRow[p].on /\ k \in tnRow[p].keys}

\* creating takes no lock: the key is checked and the row inserted
TnCreate(p, kind) ==
    /\ tnKind = kind
    /\ tnTerm # 0 /\ tnPhase \in {"ready", "draining"}
    /\ TnEvent
    /\ ~TnExists(p)
    /\ \E row \in TnRows :
          TnAdmissible(p, row) /\ tnRow' = [tnRow EXCEPT ![p] = row]
    /\ UNCHANGED <<tnKind, tnTerm, tnTerms, tnWas, tnPhase, tnReg, tnS, tnH>>

\* enforce_ha_leader_mutation and the lock of enforce_fleet_ownership; the
\* handler reads the stored policy before it changes it
TnRequest(op, p, new, kind) ==
    /\ tnKind = kind
    /\ tnTerm # 0 /\ tnPhase \in {"ready", "draining"}
    /\ TnLockFree
    /\ TnEvent
    /\ TnExists(p)
    /\ tnH' = [pc |-> "commit", stops |-> op # "enable", pol |-> p,
               old |-> tnRow[p], new |-> new]
    /\ UNCHANGED <<tnKind, tnRow, tnTerm, tnTerms, tnWas, tnPhase, tnReg, tnS>>

TnEdited(p) == {row \in TnRows : /\ TnAdmissible(p, row)
                                 /\ row.keys # tnRow[p].keys \/ row.val # tnRow[p].val}

TnUpdate(p, kind) ==
    \E row \in TnEdited(p) :
       TnRequest("update", p, [row EXCEPT !.on = tnRow[p].on], kind)
TnSetEnabled(p, kind) ==
    TnRequest(IF tnRow[p].on THEN "disable" ELSE "enable", p,
              [tnRow[p] EXCEPT !.on = ~tnRow[p].on], kind)
TnDelete(p, kind) == TnRequest("delete", p, TnNoRow, kind)

TnCreateTcp(p) == TnCreate(p, "tcp")
TnUpdateTcp(p) == TnUpdate(p, "tcp")
TnSetTcpEnabled(p) == TnSetEnabled(p, "tcp")
TnDeleteTcp(p) == TnDelete(p, "tcp")
TnCreateUdp(p) == TnCreate(p, "udp")
TnUpdateUdp(p) == TnUpdate(p, "udp")
TnSetUdpEnabled(p) == TnSetEnabled(p, "udp")
TnDeleteUdp(p) == TnDelete(p, "udp")
TnCreateGroup(p) == TnCreate(p, "group")
TnUpdateGroup(p) == TnUpdate(p, "group")
TnSetGroupEnabled(p) == TnSetEnabled(p, "group")
TnDeleteGroup(p) == TnDelete(p, "group")
TnCreateSocks5(p) == TnCreate(p, "socks5")
TnUpdateSocks5(p) == TnUpdate(p, "socks5")
TnSetSocks5Enabled(p) == TnSetEnabled(p, "socks5")
TnDeleteSocks5(p) == TnDelete(p, "socks5")
TnCreateHttpProxy(p) == TnCreate(p, "http_proxy")
TnUpdateHttpProxy(p) == TnUpdate(p, "http_proxy")
TnSetHttpProxyEnabled(p) == TnSetEnabled(p, "http_proxy")
TnDeleteHttpProxy(p) == TnDelete(p, "http_proxy")
TnCreateHttp(p) == TnCreate(p, "http")
TnUpdateHttp(p) == TnUpdate(p, "http")
TnSetHttpEnabled(p) == TnSetEnabled(p, "http")
TnDeleteHttp(p) == TnDelete(p, "http")
TnCreateSni(p) == TnCreate(p, "sni")
TnUpdateSni(p) == TnUpdate(p, "sni")
TnSetSniEnabled(p) == TnSetEnabled(p, "sni")
TnDeleteSni(p) == TnDelete(p, "sni")
TnCreateSecret(p) == TnCreate(p, "secret")
TnUpdateSecret(p) == TnUpdate(p, "secret")
TnSetSecretEnabled(p) == TnSetEnabled(p, "secret")
TnDeleteSecret(p) == TnDelete(p, "secret")

TnManage(p) ==
    \/ TnCreateTcp(p) \/ TnUpdateTcp(p) \/ TnSetTcpEnabled(p) \/ TnDeleteTcp(p)
    \/ TnCreateUdp(p) \/ TnUpdateUdp(p) \/ TnSetUdpEnabled(p) \/ TnDeleteUdp(p)
    \/ TnCreateGroup(p) \/ TnUpdateGroup(p) \/ TnSetGroupEnabled(p) \/ TnDeleteGroup(p)
    \/ TnCreateSocks5(p) \/ TnUpdateSocks5(p) \/ TnSetSocks5Enabled(p) \/ TnDeleteSocks5(p)
    \/ TnCreateHttpProxy(p) \/ TnUpdateHttpProxy(p) \/ TnSetHttpProxyEnabled(p) \/ TnDeleteHttpProxy(p)
    \/ TnCreateHttp(p) \/ TnUpdateHttp(p) \/ TnSetHttpEnabled(p) \/ TnDeleteHttp(p)
    \/ TnCreateSni(p) \/ TnUpdateSni(p) \/ TnSetSniEnabled(p) \/ TnDeleteSni(p)
    \/ TnCreateSecret(p) \/ TnUpdateSecret(p) \/ TnSetSecretEnabled(p) \/ TnDeleteSecret(p)

\* a Fleet bundle replaces or removes a policy under the same locks
TnReconcile(p) ==
    \E row \in TnEdited(p) \cup {TnNoRow} : TnRequest("reconcile", p, row, tnKind)

\* the row changes unless the leader fence of the transaction fails, or
\* another policy took the new key since
TnMayCommit ==
    tnTerm # 0 /\ (tnH.new.keys = {} \/ TnAdmissible(tnH.pol, tnH.new))
TnCommit ==
    /\ tnH.pc = "commit"
    /\ IF TnMayCommit
       THEN /\ tnRow' = [tnRow EXCEPT ![tnH.pol] = tnH.new]
            /\ tnH' = [tnH EXCEPT !.pc = "stop"]
       ELSE tnH' = TnNoRequest /\ UNCHANGED tnRow
    /\ UNCHANGED <<tnKind, tnTerm, tnTerms, tnWas, tnPhase, tnReg, tnS, tnEvents>>

\* PostgreSQL commits and the connection fails before it says so: the handler
\* answers with an error and stops nothing, and the registrations of the
\* policy never hear of the change
TnCommitUnanswered ==
    /\ tnH.pc = "commit" /\ TnMayCommit
    /\ tnRow' = [tnRow EXCEPT ![tnH.pol] = tnH.new]
    /\ tnS' = [r \in TnSessions |->
                 [tnS[r] EXCEPT !.missed =
                     @ \/ (tnS[r].pc = "control" /\ tnS[r].pol = tnH.pol)]]
    /\ tnH' = TnNoRequest
    /\ UNCHANGED <<tnKind, tnTerm, tnTerms, tnWas, tnPhase, tnReg, tnEvents>>

\* stop_public_port, stop_policy, stop_hostname on a set of slots: remove
\* the registrations and send each its stop
TnStopSlots(slots) ==
    /\ tnReg' = [s \in TnSlots |-> IF s \in slots THEN "" ELSE tnReg[s]]
    /\ tnS' = [r \in TnSessions |->
                 [tnS[r] EXCEPT !.stop =
                     @ \/ \E s \in slots : tnReg[s] = r]]

TnOldSlots == {TnSlot(tnH.pol, k) : k \in tnH.old.keys}

\* enabling leaves the runtime alone; everything else stops the old keys
TnStopRuntime ==
    /\ tnH.pc = "stop"
    /\ IF tnH.stops THEN TnStopSlots(TnOldSlots) ELSE UNCHANGED <<tnReg, tnS>>
    /\ tnH' = TnNoRequest
    /\ UNCHANGED <<tnKind, tnRow, tnTerm, tnTerms, tnWas, tnPhase, tnEvents>>

-----------------------------------------------------------------------------
(* registration of a kind with a public port *)

TnBegin(r, k, kinds) ==
    /\ TnAt(r, "idle") /\ tnKind \in kinds
    /\ TnAcceptsPublicWork
    /\ tnS' = [tnS EXCEPT ![r] = [TnNoSession EXCEPT
                 !.pc = "reading", !.key = k, !.token = tnTerm]]
    /\ UNCHANGED <<tnKind, tnRow, tnTerm, tnTerms, tnWas, tnPhase, tnReg, tnH, tnEvents>>

TnRegisterTcp(r, k) == TnBegin(r, k, {"tcp", "group"})
TnRegisterUdp(r, k) == TnBegin(r, k, {"udp"})
TnRegisterSocks5(r, k) == TnBegin(r, k, {"socks5"})
TnRegisterHttpProxy(r, k) == TnBegin(r, k, {"http_proxy"})

TnReadPolicy(r) ==
    /\ TnAt(r, "reading")
    /\ IF TnRuntimePolicy(tnS[r].key) = {}
       THEN TnReject(r)
       ELSE \E p \in TnRuntimePolicy(tnS[r].key) :
              tnS' = [tnS EXCEPT ![r] = [@ EXCEPT
                        !.pc = IF tnKind = "udp" THEN "attaching" ELSE "binding",
                        !.pol = p, !.seen = tnRow[p]]]
    /\ UNCHANGED <<tnKind, tnRow, tnTerm, tnTerms, tnWas, tnPhase, tnReg, tnH, tnEvents>>

\* the lease of the port and its socket; a rejected session drops both
TnBind(r, kinds, next) ==
    /\ TnAt(r, "binding") /\ tnKind \in kinds
    /\ IF TnBound(tnS[r].key)
       THEN TnReject(r)
       ELSE tnS' = [tnS EXCEPT ![r] = [@ EXCEPT !.pc = next, !.open = TRUE]]
    /\ UNCHANGED <<tnKind, tnRow, tnTerm, tnTerms, tnWas, tnPhase, tnReg, tnH, tnEvents>>

TnBindTcp(r) == TnBind(r, {"tcp", "group"}, "bound")
TnBindUdp(r) == TnBind(r, {"udp"}, "bound")
\* the TCP port and then the UDP port of the same number
TnBindSocks5(r) == TnBind(r, {"socks5"}, "attaching")
TnBindHttpProxy(r) == TnBind(r, {"http_proxy"}, "bound")

\* mutant: the policy is not read again
TnPolicyAssumed(r) == TRUE
\* the complete policy is compared, not only its key
TnPolicyUnchanged(r) ==
    tnS[r].pol \in TnRuntimePolicy(tnS[r].key) /\ tnRow[tnS[r].pol] = tnS[r].seen
TnSameTerm(r) == TnAcceptsPublicWork /\ tnTerm = tnS[r].token

\* the client attaches to the UDP relay with the ticket it was sent, or the
\* wait for it times out; a UDP tunnel is checked again before it binds
TnAttachUdp(r) ==
    /\ TnAt(r, "attaching") /\ tnKind = "udp"
    /\ \/ TnPolicyUnchanged(r) /\ TnSameTerm(r) /\ TnGo(r, "binding")
       \/ TnReject(r)
    /\ UNCHANGED <<tnKind, tnRow, tnTerm, tnTerms, tnWas, tnPhase, tnReg, tnH, tnEvents>>
TnAttachSocks5(r) ==
    /\ TnAt(r, "attaching") /\ tnKind = "socks5"
    /\ TnGo(r, "bound") \/ TnReject(r)
    /\ UNCHANGED <<tnKind, tnRow, tnTerm, tnTerms, tnWas, tnPhase, tnReg, tnH, tnEvents>>

TnRevalidate(r) ==
    /\ TnAt(r, "bound") /\ TnLockFree
    /\ IF TnPolicyUnchanged(r) /\ TnSameTerm(r)
       THEN TnGo(r, "install")
       ELSE TnReject(r)
    /\ UNCHANGED <<tnKind, tnRow, tnTerm, tnTerms, tnWas, tnPhase, tnReg, tnH, tnEvents>>

(* registration of a route kind: everything under the lock *)

TnLookup(r, k, kind) ==
    /\ TnAt(r, "idle") /\ tnKind = kind /\ TnLockFree
    /\ TnAcceptsPublicWork
    /\ tnS' = [tnS EXCEPT ![r] = [TnNoSession EXCEPT
                 !.pc = "looking", !.key = k, !.token = tnTerm]]
    /\ UNCHANGED <<tnKind, tnRow, tnTerm, tnTerms, tnWas, tnPhase, tnReg, tnH, tnEvents>>

TnRegisterHttp(r, k) == TnLookup(r, k, "http")
TnRegisterSni(r, k) == TnLookup(r, k, "sni")
TnRegisterSecret(r, k) == TnLookup(r, k, "secret")

TnLookedUp(r) ==
    /\ TnAt(r, "looking")
    /\ IF TnRuntimePolicy(tnS[r].key) = {}
       THEN TnReject(r)
       ELSE \E p \in TnRuntimePolicy(tnS[r].key) :
              tnS' = [tnS EXCEPT ![r] = [@ EXCEPT
                        !.pc = "looked", !.pol = p, !.seen = tnRow[p]]]
    /\ UNCHANGED <<tnKind, tnRow, tnTerm, tnTerms, tnWas, tnPhase, tnReg, tnH, tnEvents>>

TnCheckTerm(r) ==
    /\ TnAt(r, "looked")
    /\ IF TnSameTerm(r) THEN TnGo(r, "install") ELSE TnReject(r)
    /\ UNCHANGED <<tnKind, tnRow, tnTerm, tnTerms, tnWas, tnPhase, tnReg, tnH, tnEvents>>

\* the registry entry and the end of the lock
TnInstall(r, kinds, replaces) ==
    /\ TnAt(r, "install") /\ tnKind \in kinds
    /\ LET s == TnSlot(tnS[r].pol, tnS[r].key)
           stopped == IF replaces THEN {tnReg[s]} ELSE {}
       IN /\ tnReg' = [tnReg EXCEPT ![s] = r]
          /\ tnS' = [q \in TnSessions |->
                IF q = r THEN [tnS[q] EXCEPT !.pc = "control", !.open = TRUE]
                ELSE [tnS[q] EXCEPT !.stop = @ \/ q \in stopped]]
    /\ UNCHANGED <<tnKind, tnRow, tnTerm, tnTerms, tnWas, tnPhase, tnH, tnEvents>>

\* the bound listener keeps a second TCP registration out, so none is stopped
TnInstallTcp(r) == TnInstall(r, {"tcp", "group"}, FALSE)
TnInstallUdp(r) == TnInstall(r, {"udp"}, TRUE)
TnInstallSocks5(r) == TnInstall(r, {"socks5"}, TRUE)
TnInstallHttpProxy(r) == TnInstall(r, {"http_proxy"}, TRUE)
TnInstallHttp(r) == TnInstall(r, {"http"}, TRUE)
TnInstallSni(r) == TnInstall(r, {"sni"}, TRUE)
TnInstallSecret(r) == TnInstall(r, {"secret"}, TRUE)

-----------------------------------------------------------------------------
(* the life of a registration *)

TnRegistered(r) == {s \in TnSlots : tnReg[s] = r}

\* remove_tunnel, remove_registration, remove_route: only its own entry
TnRemoveOwn(r) ==
    tnReg' = [s \in TnSlots |-> IF tnReg[s] = r THEN "" ELSE tnReg[s]]

\* the accept loop, or the UDP runtime, sees the stop and closes the socket
TnCloseListener(r) ==
    /\ tnS[r].open /\ tnS[r].stop
    /\ tnS' = [tnS EXCEPT ![r] = IF tnS[r].pc = "ended" THEN TnNoSession
                                 ELSE [@ EXCEPT !.open = FALSE]]
    /\ UNCHANGED <<tnKind, tnRow, tnTerm, tnTerms, tnWas, tnPhase, tnReg, tnH, tnEvents>>

\* run_registered_control ends: a stop, a lost or silent client, a frame it
\* does not expect, or the failed write of the Registered frame
TnEndControl(r, kinds) ==
    /\ TnAt(r, "control") /\ tnKind \in kinds
    /\ TnRemoveOwn(r)
    /\ tnS' = [tnS EXCEPT ![r] = IF tnS[r].open
                                 THEN [TnNoSession EXCEPT !.pc = "ended",
                                         !.key = tnS[r].key, !.stop = TRUE, !.open = TRUE]
                                 ELSE TnNoSession]
    /\ UNCHANGED <<tnKind, tnRow, tnTerm, tnTerms, tnWas, tnPhase, tnH, tnEvents>>

TnEndTcp(r) == TnEndControl(r, {"tcp", "group"})
TnEndUdp(r) == TnEndControl(r, {"udp"})
TnEndSocks5(r) == TnEndControl(r, {"socks5"})
TnEndHttpProxy(r) == TnEndControl(r, {"http_proxy"})
TnEndHttp(r) == TnEndControl(r, {"http"})
TnEndSni(r) == TnEndControl(r, {"sni"})
TnEndSecret(r) == TnEndControl(r, {"secret"})

\* the supervisor of the port lease gives up the port
TnLeaseLost(r) ==
    /\ TnAt(r, "control") /\ TnTwoReads /\ ~tnS[r].stop
    /\ tnS[r].token # tnTerm
    /\ tnS' = [tnS EXCEPT ![r].stop = TRUE]
    /\ UNCHANGED <<tnKind, tnRow, tnTerm, tnTerms, tnWas, tnPhase, tnReg, tnH, tnEvents>>

-----------------------------------------------------------------------------
(* leadership and lifecycle *)

TnLose ==
    /\ tnTerm # 0 /\ TnEvent /\ tnTerm' = 0
    /\ UNCHANGED <<tnKind, tnRow, tnTerms, tnWas, tnPhase, tnReg, tnS, tnH>>

TnGain ==
    /\ tnTerm = 0
    /\ tnTerms' = tnTerms + 1 /\ tnTerm' = tnTerms + 1
    /\ UNCHANGED <<tnKind, tnRow, tnWas, tnPhase, tnReg, tnS, tnH, tnEvents>>

\* another leader writes the shared database
TnElsewhere(p) ==
    /\ tnTerm = 0 /\ TnEvent
    /\ \E row \in TnRows \cup {TnNoRow} :
          /\ row = TnNoRow \/ TnAdmissible(p, row)
          /\ tnRow' = [tnRow EXCEPT ![p] = row]
    /\ UNCHANGED <<tnKind, tnTerm, tnTerms, tnWas, tnPhase, tnReg, tnS, tnH>>

\* stop_all_public_work by the watcher of the leadership channel, which sees
\* only the newest value
TnWatch ==
    /\ tnWas # (tnTerm # 0)
    /\ tnWas' = (tnTerm # 0)
    /\ IF tnWas THEN TnStopSlots(TnSlots) ELSE UNCHANGED <<tnReg, tnS>>
    /\ UNCHANGED <<tnKind, tnRow, tnTerm, tnTerms, tnPhase, tnH, tnEvents>>

TnMarkReady ==
    /\ tnPhase = "starting" /\ tnPhase' = "ready"
    /\ UNCHANGED <<tnKind, tnRow, tnTerm, tnTerms, tnWas, tnReg, tnS, tnH, tnEvents>>
TnBeginDrain ==
    /\ tnPhase = "ready" /\ TnEvent /\ tnPhase' = "draining"
    /\ UNCHANGED <<tnKind, tnRow, tnTerm, tnTerms, tnWas, tnReg, tnS, tnH>>
TnResume ==
    /\ tnPhase = "draining" /\ tnPhase' = "ready"
    /\ UNCHANGED <<tnKind, tnRow, tnTerm, tnTerms, tnWas, tnReg, tnS, tnH, tnEvents>>
\* the shutdown signal: nothing new is admitted, everything is stopped
TnBeginStopping ==
    /\ tnPhase # "stopping" /\ tnPhase' = "stopping"
    /\ TnStopSlots(TnSlots)
    /\ UNCHANGED <<tnKind, tnRow, tnTerm, tnTerms, tnWas, tnH, tnEvents>>

TnRegister(r) ==
    \E k \in TnKeys :
       \/ TnRegisterTcp(r, k) \/ TnRegisterUdp(r, k) \/ TnRegisterSocks5(r, k)
       \/ TnRegisterHttpProxy(r, k) \/ TnRegisterHttp(r, k) \/ TnRegisterSni(r, k)
       \/ TnRegisterSecret(r, k)

TnNext ==
    \/ \E p \in TnPolicies :
          TnManage(p) \/ TnReconcile(p) \/ TnElsewhere(p)
    \/ TnCommit \/ TnCommitUnanswered \/ TnStopRuntime
    \/ \E r \in TnSessions :
          \/ TnRegister(r)
          \/ TnReadPolicy(r)
          \/ TnBindTcp(r) \/ TnBindUdp(r) \/ TnBindSocks5(r) \/ TnBindHttpProxy(r)
          \/ TnAttachUdp(r) \/ TnAttachSocks5(r)
          \/ TnRevalidate(r) \/ TnLookedUp(r) \/ TnCheckTerm(r)
          \/ TnInstallTcp(r) \/ TnInstallUdp(r) \/ TnInstallSocks5(r)
          \/ TnInstallHttpProxy(r) \/ TnInstallHttp(r) \/ TnInstallSni(r)
          \/ TnInstallSecret(r)
          \/ TnEndTcp(r) \/ TnEndUdp(r) \/ TnEndSocks5(r) \/ TnEndHttpProxy(r)
          \/ TnEndHttp(r) \/ TnEndSni(r) \/ TnEndSecret(r)
          \/ TnCloseListener(r) \/ TnLeaseLost(r)
    \/ TnLose \/ TnGain \/ TnWatch
    \/ TnMarkReady \/ TnBeginDrain \/ TnResume \/ TnBeginStopping

TnSpec == TnInit /\ [][TnNext]_tnVars

-----------------------------------------------------------------------------
\* A registration that serves in the term it was made in serves the stored
\* policy: it exists, is enabled, and has the value the registration read,
\* whenever no request stands between its commit and its stop.  The exception
\* is a registration that was serving when the answer to a change of its own
\* policy was lost (update_tcp_tunnel, delete_tcp_tunnel and their like return
\* before stop_public_port): a registration still under way at that moment,
\* and every later one, is refused or serves the changed policy.
TnServesPolicy ==
    \A s \in TnSlots :
       LET r == tnReg[s] IN
       r # "" =>
          \/ tnS[r].token # tnTerm \/ tnS[r].stop \/ tnS[r].missed
          \/ tnH.pc = "stop"
          \/ /\ tnRow[tnS[r].pol] = tnS[r].seen
             /\ tnS[r].seen.on /\ tnS[r].key \in tnS[r].seen.keys

\* No registration is orphaned: one that is being controlled and was not told
\* to stop is in the registry, so a later disable, demotion or shutdown can
\* still reach it.
TnReachable ==
    \A r \in TnSessions :
       tnS[r].pc = "control" /\ ~tnS[r].stop => TnRegistered(r) # {}

\* What is registered serves the stored policy, and what serves is registered.
TnRegistryCurrent == TnServesPolicy /\ TnReachable

=============================================================================
