--------------------------- MODULE PolicyCatalog ---------------------------
(***************************************************************************)
(* The policy catalogs in PostgreSQL (tunnel_, http_route_, sni_route_ and *)
(* secret_tunnel_catalog_postgres.rs).  Every write runs in a transaction  *)
(* under one advisory lock: requests of the operator, imports of Fleet v1  *)
(* (fleet_policy_legacy.rs), and Fleet v2, which takes over the policy a   *)
(* credential is bound to (policy_service_postgres.rs).  A transaction     *)
(* reads the policy, checks and writes it, and commits or is rolled back.  *)
(***************************************************************************)
EXTENDS Naturals, FiniteSets

CONSTANTS
    PcHandlers,   \* concurrent requests
    PcSpecs,      \* contents of policies: [kind, port, name], where port also
                  \* stands for a hostname
    PcMaxIds,     \* bound on the policies created
    PcMaxOps      \* bound on the requests served

PcTunnelKinds == {"tcp", "udp", "socks5", "http_proxy", "group"}
PcSecretKinds == {"socks5", "http_proxy", "secret"}
PcKinds == PcTunnelKinds \cup {"http", "sni", "secret"}

ASSUME PcAssumption ==
    /\ PcSpecs \subseteq [kind : PcKinds, port : Nat, name : STRING]
    /\ PcMaxIds \in Nat /\ PcMaxOps \in Nat

VARIABLES
    pcRows,    \* policies: [id, kind, port, name, enabled, cred]
    pcPorts,   \* linklake_tunnel_ports: <<protocol, port, id>>
    pcOwn,     \* policies owned by a Fleet resource
    pcBind,    \* policy the source's credential is bound to, 0 for none
    pcTx,      \* transaction of each handler
    pcNew,     \* policies created
    pcOps,     \* requests served
    pcAsked,   \* what the newest request that decided it said of enabled
    pcFleet    \* what Fleet wrote of each policy

pcVars == <<pcRows, pcPorts, pcOwn, pcBind, pcTx, pcNew, pcOps, pcAsked, pcFleet>>

PcIds == 1..PcMaxIds
PcIdle == [pc |-> "idle"]
PcNone == [kind |-> "none"]
PcRowOf(id) == {r \in pcRows : r.id = id}

PcRow(id, x, enabled, cred) ==
    [id |-> id, kind |-> x.kind, port |-> x.port, name |-> x.name,
     enabled |-> enabled, cred |-> cred]
\* the password or access key issued when a policy is created
PcIssued(id, kind) == IF kind \in PcSecretKinds THEN id ELSE 0

PcInit ==
    /\ pcRows = {} /\ pcPorts = {} /\ pcOwn = {} /\ pcBind = 0
    /\ pcTx = [h \in PcHandlers |-> PcIdle]
    /\ pcNew = 0 /\ pcOps = 0
    /\ pcAsked = [i \in PcIds |-> FALSE] /\ pcFleet = [i \in PcIds |-> PcNone]

-----------------------------------------------------------------------------
(* What a policy occupies *)

\* port_reservations; a group maps two ports
PcReservations(x) ==
    CASE x.kind \in {"tcp", "http_proxy"} -> {<<"tcp", x.port>>}
      [] x.kind = "udp" -> {<<"udp", x.port>>}
      [] x.kind = "socks5" -> {<<"tcp", x.port>>, <<"udp", x.port>>}
      [] x.kind = "group" -> {<<"tcp", x.port>>, <<"tcp", x.port + 1>>}
      [] OTHER -> {}
\* endpoints of a policy, the hostnames of routes included
PcEndpoints(x) ==
    IF x.kind \in {"http", "sni"} THEN {<<x.kind, x.port>>} ELSE PcReservations(x)
\* the rows of linklake_tunnel_ports for a set of policies
PcPortsOf(rows) == UNION {{<<e[1], e[2], r.id>> : e \in PcReservations(r)} : r \in rows}
PcUniqueName(x) == x.kind \in {"socks5", "http_proxy", "group", "secret"}

\* decode_rows: the catalog and the reservations of a policy agree
PcDecodes(r) ==
    {<<e[1], e[2]>> : e \in {q \in pcPorts : q[3] = r.id}} = PcReservations(r)

PcDuplicateName(id, x) ==
    /\ PcUniqueName(x)
    /\ \E r \in pcRows : r.id # id /\ r.kind = x.kind /\ r.name = x.name
PcDuplicatePort(id, x) ==
    \E e \in PcReservations(x), q \in pcPorts : q[3] # id /\ <<q[1], q[2]>> = e
PcDuplicateHostname(id, x) ==
    /\ x.kind \in {"http", "sni"}
    /\ \E r \in pcRows : r.id # id /\ r.kind = x.kind /\ r.port = x.port

-----------------------------------------------------------------------------
(* Transactions *)

PcBusy(h) == pcTx[h].pc # "idle"

\* mutant: the catalogs take no common lock
PcLockIgnored(h) == TRUE
\* pg_advisory_xact_lock(CERTIFICATE_STATE_LOCK), held to the end
PcLockFree(h) == \A g \in PcHandlers : ~PcBusy(g)

\* a request reaches the lock and passes the fence; one that fails the fence
\* leaves nothing behind
PcBegin(h, op) ==
    /\ ~PcBusy(h) /\ PcLockFree(h)
    /\ pcOps < PcMaxOps /\ pcOps' = pcOps + 1
    /\ pcTx' = [pcTx EXCEPT ![h] = [pc |-> "locked", op |-> op]]
    /\ UNCHANGED <<pcRows, pcPorts, pcOwn, pcBind, pcAsked, pcFleet>>

PcGoto(h, tx) ==
    /\ pcTx' = [pcTx EXCEPT ![h] = tx]
    /\ UNCHANGED <<pcRows, pcPorts, pcOwn, pcBind, pcNew, pcOps, pcAsked, pcFleet>>
PcFail(h) == PcGoto(h, PcIdle)

\* a create draws a fresh id; an update names an existing policy or none
PcAskCreate(h, x) ==
    /\ pcNew < PcMaxIds /\ pcNew' = pcNew + 1
    /\ PcBegin(h, [do |-> "create", id |-> pcNew + 1, x |-> x, on |-> TRUE])
PcAskUpdate(h, x) ==
    \E id \in 1..pcNew :
       PcBegin(h, [do |-> "update", id |-> id, x |-> x, on |-> TRUE]) /\ UNCHANGED pcNew
PcAskEnable(h, x) ==
    \E id \in 1..pcNew, on \in BOOLEAN :
       PcBegin(h, [do |-> "enable", id |-> id, x |-> x, on |-> on]) /\ UNCHANGED pcNew
PcAskDelete(h, x) ==
    \E id \in 1..pcNew :
       PcBegin(h, [do |-> "delete", id |-> id, x |-> x, on |-> TRUE]) /\ UNCHANGED pcNew

PcAsk(h, kind) ==
    \E x \in PcSpecs :
       /\ x.kind = kind
       /\ \/ PcAskCreate(h, x) \/ PcAskUpdate(h, x)
          \/ PcAskEnable(h, x) \/ PcAskDelete(h, x)
PcTcp(h) == PcAsk(h, "tcp")
PcUdp(h) == PcAsk(h, "udp")
PcSocks5(h) == PcAsk(h, "socks5")
PcHttpProxy(h) == PcAsk(h, "http_proxy")
PcPortGroup(h) == PcAsk(h, "group")
PcHttp(h) == PcAsk(h, "http")
PcSni(h) == PcAsk(h, "sni")
PcSecret(h) == PcAsk(h, "secret")

-----------------------------------------------------------------------------
(* Requests of the operator *)

\* ensure_unmanaged and the snapshot of the policy; a create finds none, any
\* other request finds a policy of its kind or ends
PcSnapshot(h) ==
    /\ pcTx[h].pc = "locked" /\ pcTx[h].op.do \in {"create", "update", "enable", "delete"}
    /\ LET op == pcTx[h].op
           found == PcRowOf(op.id)
       IN IF /\ op.id \notin pcOwn
             /\ \A r \in found : PcDecodes(r) /\ r.kind = op.x.kind
             /\ (op.do = "create") <=> (found = {})
          THEN PcGoto(h, [pc |-> "read", op |-> op, prev |-> found])
          ELSE PcFail(h)

\* the policy to be written: a create is enabled with a new credential, an
\* update keeps enabled and the credential, enable keeps everything else
PcDesired(op, prev) ==
    IF op.do = "create"
    THEN {PcRow(op.id, op.x, TRUE, PcIssued(op.id, op.x.kind))}
    ELSE {CASE op.do = "update" -> PcRow(op.id, op.x, r.enabled, r.cred)
            [] op.do = "enable" -> [r EXCEPT !.enabled = op.on] : r \in prev}

\* transaction_put of the tunnel catalog, write_policy and ensure_*_available
\* of the others, and the deletions
PcWrite(h) ==
    /\ pcTx[h].pc = "read"
    /\ LET op == pcTx[h].op
           put == IF op.do = "delete" THEN {} ELSE PcDesired(op, pcTx[h].prev)
       IN IF \E r \in put : \/ PcDuplicateName(r.id, r) \/ PcDuplicatePort(r.id, r)
                            \/ PcDuplicateHostname(r.id, r)
          THEN PcFail(h)
          ELSE PcGoto(h, [pc |-> "written", op |-> op, put |-> put,
                          gone |-> {op.id}, own |-> pcOwn, bind |-> pcBind])

-----------------------------------------------------------------------------
(* Fleet *)

\* fleet_policy_legacy::import of one TCP or UDP policy: one of the same name
\* or an occupied port is a conflict, the policy keeps its enabled flag
PcImport(h, x, on) ==
    /\ x.kind \in {"tcp", "udp"}
    /\ pcNew < PcMaxIds /\ pcNew' = pcNew + 1
    /\ PcBegin(h, [do |-> "import", id |-> pcNew + 1, x |-> x, on |-> on])
PcPlanImport(h) ==
    /\ pcTx[h].pc = "locked" /\ pcTx[h].op.do = "import"
    /\ LET op == pcTx[h].op IN
       IF \/ \E r \in pcRows : \/ r.kind = op.x.kind /\ r.name = op.x.name
                               \/ PcReservations(r) \cap PcReservations(op.x) # {}
          \/ \E r \in pcRows : ~PcDecodes(r)
       THEN PcFail(h)
       ELSE PcGoto(h, [pc |-> "written", op |-> op,
                       put |-> {PcRow(op.id, op.x, op.on, 0)},
                       gone |-> {}, own |-> pcOwn, bind |-> pcBind])

\* bind_credential: the source's credential now stands for a policy that has
\* one and is not managed; a managed binding is not replaced
PcAskBind(h) ==
    \E r \in pcRows :
       /\ r.kind \in PcSecretKinds
       /\ PcBegin(h, [do |-> "bind", id |-> r.id, x |-> r, on |-> TRUE])
       /\ UNCHANGED pcNew
PcBindCredential(h) ==
    /\ pcTx[h].pc = "locked" /\ pcTx[h].op.do = "bind"
    /\ LET op == pcTx[h].op IN
       IF \/ \A r \in PcRowOf(op.id) : r.cred = 0
          \/ op.id \in pcOwn \/ pcBind \in pcOwn
       THEN PcFail(h)
       ELSE PcGoto(h, [pc |-> "written", op |-> op, put |-> {}, gone |-> {},
                       own |-> pcOwn, bind |-> op.id])

\* delete_credential_binding: the policy stays and is managed locally again
PcAskUnbind(h) ==
    PcBegin(h, [do |-> "unbind", id |-> 0, x |-> PcNone, on |-> TRUE]) /\ UNCHANGED pcNew
PcUnbindCredential(h) ==
    /\ pcTx[h].pc = "locked" /\ pcTx[h].op.do = "unbind"
    /\ PcGoto(h, [pc |-> "written", op |-> pcTx[h].op, put |-> {}, gone |-> {},
                  own |-> pcOwn \ {pcBind}, bind |-> 0])

\* reconcile of a bundle with one resource x that uses the credential
PcAskReconcile(h, x, on) ==
    /\ x.kind \in PcSecretKinds
    /\ PcBegin(h, [do |-> "reconcile", id |-> 0, x |-> x, on |-> on]) /\ UNCHANGED pcNew

\* plan_shared_resource and validate_final_plan: the bound policy exists and
\* has the kind, an owned one is still the bound one, and no policy outside
\* the source has its endpoint or name
PcConflicts(x) ==
    LET bound == {r \in PcRowOf(pcBind) : r.kind = x.kind} IN
    \/ bound = {}
    \/ pcOwn \notin {{}, {pcBind}}
    \/ \E r \in pcRows \ bound :
          \/ PcEndpoints(r) \cap PcEndpoints(x) # {}
          \/ PcUniqueName(r) /\ r.kind = x.kind /\ r.name = x.name
PcReconcile(h) ==
    /\ pcTx[h].pc = "locked" /\ pcTx[h].op.do = "reconcile"
    /\ LET op == pcTx[h].op IN
       IF PcConflicts(op.x) \/ \E r \in pcRows : ~PcDecodes(r)
       THEN PcFail(h)
       ELSE PcGoto(h, [pc |-> "written", op |-> [op EXCEPT !.id = pcBind],
                       put |-> {PcRow(pcBind, op.x, op.on, r.cred) : r \in PcRowOf(pcBind)},
                       gone |-> {pcBind}, own |-> {pcBind}, bind |-> pcBind])

\* reconcile of an empty bundle: the owned policy, its binding and its
\* ownership go
PcAskClear(h) ==
    PcBegin(h, [do |-> "clear", id |-> 0, x |-> PcNone, on |-> TRUE]) /\ UNCHANGED pcNew
PcReconcileEmpty(h) ==
    /\ pcTx[h].pc = "locked" /\ pcTx[h].op.do = "clear"
    /\ PcGoto(h, [pc |-> "written", op |-> pcTx[h].op, put |-> {}, gone |-> pcOwn,
                  own |-> {}, bind |-> IF pcBind \in pcOwn THEN 0 ELSE pcBind])

PcFleetRequest(h) ==
    \/ \E x \in PcSpecs, on \in BOOLEAN : PcImport(h, x, on) \/ PcAskReconcile(h, x, on)
    \/ PcAskBind(h) \/ PcAskUnbind(h) \/ PcAskClear(h)

-----------------------------------------------------------------------------
(* The end of a transaction *)

\* the last assert_current and the commit; old reservations of the written
\* and deleted policies go, by the DELETE and by the foreign key
PcCommit(h) ==
    /\ pcTx[h].pc = "written"
    /\ LET tx == pcTx[h] IN
       /\ pcRows' = {r \in pcRows : r.id \notin tx.gone} \cup tx.put
       /\ pcPorts' = {q \in pcPorts : q[3] \notin tx.gone}
                        \cup PcPortsOf(tx.put)
       /\ pcOwn' = tx.own /\ pcBind' = tx.bind
       /\ pcAsked' = IF tx.op.do \in {"create", "enable", "import", "reconcile"}
                     THEN [pcAsked EXCEPT ![tx.op.id] = tx.op.on] ELSE pcAsked
       /\ pcFleet' = IF tx.op.do = "reconcile"
                     THEN [pcFleet EXCEPT ![tx.op.id] = tx.op.x] ELSE pcFleet
    /\ pcTx' = [pcTx EXCEPT ![h] = PcIdle]
    /\ UNCHANGED <<pcNew, pcOps>>

\* the lease is over at a later assert_current, the connection is lost or
\* the server is killed
PcRollback(h) == PcBusy(h) /\ PcFail(h)

PcStep(h) ==
    \/ PcTcp(h) \/ PcUdp(h) \/ PcSocks5(h) \/ PcHttpProxy(h) \/ PcPortGroup(h)
    \/ PcHttp(h) \/ PcSni(h) \/ PcSecret(h) \/ PcFleetRequest(h)
    \/ /\ PcBusy(h)
       /\ \/ PcSnapshot(h) \/ PcWrite(h) \/ PcPlanImport(h)
          \/ PcBindCredential(h) \/ PcUnbindCredential(h)
          \/ PcReconcile(h) \/ PcReconcileEmpty(h)
          \/ PcCommit(h) \/ PcRollback(h)
PcNext == \E h \in PcHandlers : PcStep(h)

PcSpec == PcInit /\ [][PcNext]_pcVars

-----------------------------------------------------------------------------
(* What registrations and visitors are told *)

\* runtime_policy: the policy of the reservation, when it is enabled
PcRuntimePolicy(e) ==
    {r \in pcRows : r.enabled /\ <<e[1], e[2], r.id>> \in pcPorts}
\* the routes by hostname
PcRoute(e) == {r \in pcRows : r.enabled /\ <<r.kind, r.port>> = e}
\* access_runtime_policy and proxy credentials: the policy of a credential
PcAuthorizes(cred) == {r \in pcRows : r.cred = cred /\ r.enabled}

\* An endpoint has one owner: no two policies, enabled or not, claim the same
\* port or hostname, the reservation table says the same as the policies, so
\* no read ends in a mismatch, and unique names are unique; whatever
\* operators, imports and Fleet write at the same time.
PcEndpointsOwned ==
    /\ pcPorts = PcPortsOf(pcRows)
    /\ \A r, s \in pcRows : r.id # s.id =>
          /\ PcEndpoints(r) \cap PcEndpoints(s) = {}
          /\ ~(PcUniqueName(r) /\ r.kind = s.kind /\ r.name = s.name)

\* No request undoes another: a policy switched off authorises nobody until a
\* later request switches it on, though updates and Fleet write the whole row.
PcOffStaysOff ==
    \A r \in pcRows :
       (\/ \E e \in PcEndpoints(r) : r \in PcRuntimePolicy(e) \cup PcRoute(e)
        \/ r \in PcAuthorizes(r.cred))
          => pcAsked[r.id]

\* The credential handed out when a policy was created stays valid for it and
\* for no other, and a policy owned by Fleet is what Fleet wrote.
PcIdentityKept ==
    /\ \A r \in pcRows : r.cred = PcIssued(r.id, r.kind)
    /\ \A r \in pcRows : r.id \in pcOwn =>
          [kind |-> r.kind, port |-> r.port, name |-> r.name] = pcFleet[r.id]
    /\ \A i \in pcOwn : PcRowOf(i) # {} /\ pcBind = i

\* What the catalogs promise of concurrent writers.
PcCatalogSound == PcEndpointsOwned /\ PcOffStaysOff /\ PcIdentityKept
=============================================================================
