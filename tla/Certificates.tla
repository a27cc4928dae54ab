--------------------------- MODULE Certificates -----------------------------
(***************************************************************************)
(* Managed certificates: their routes, states and orders (Ce), the files   *)
(* of an identifier (Cf) and the proofs of ACME challenges (Ac).           *)
(***************************************************************************)
EXTENDS Naturals, Sequences, FiniteSets, FiniteSetsExt

(***************************************************************************)
(* Managed certificates of HTTP routes (main.rs 8733-10294 and the HTTP    *)
(* route handlers, certificate_catalog*.rs, certificate_manager.rs).       *)
(* Handlers, the maintenance scan and the end of an ACME order serialise   *)
(* on the certificate_mutations lock of their own process only; on         *)
(* PostgreSQL the leader fence, the job lease and revisions guard the rest.*)
(* A handler writes the catalogs in more than one transaction: `ceBusy'    *)
(* is the handler between its first write and its remaining ones.          *)
(***************************************************************************)
CONSTANTS
    CeProcs,      \* processes; SQLite runs the first of them only
    CeFirst,      \* that process
    CeRoutes,     \* route identities
    CeHosts,      \* hostnames; "*" is the wildcard that covers them all
    CeExisting,   \* a route with ACME that exists at the start, and its
    CeHost,       \* hostname
    CeRedirecting,  \* subset of BOOLEAN: redirect settings requested
    CePgs,        \* subset of BOOLEAN: which catalogs are PostgreSQL
    CeMaxEdits,   \* bound on management requests
    CeMaxOrders,  \* bound on ACME orders
    CeMaxTerms,   \* bound on leadership terms
    CeMaxAge      \* bound on expirations and renewals falling due

ASSUME CeAssumption ==
    CeFirst \in CeProcs /\ CePgs \subseteq BOOLEAN /\ CeRedirecting \subseteq BOOLEAN

VARIABLES
    cePg, ceRoute, ceTls, ceCfg,   \* catalogs
    ceState,      \* certificate state of a route: [status, gen]
    ceStore,      \* stored material of an identifier: [route, gen]
    ceAge,        \* certificates: 0 fresh, 1 due for renewal, 2 expired
    ceOrders,     \* certificate operations, in the order they were prepared
    ceLease,      \* operation holding the job of an identifier, 0 for none
    ceServed,     \* resolver of each process: certificate per identifier
    ceRedirects,  \* https_redirect_hosts of each process
    ceSlots,      \* certificate_jobs of each process: route per identifier
    ceBusy,       \* handler between its two writes: [do, r, old]
    ceDue,        \* what the maintenance scan selected: <<route, operation>>
    ceTerm, ceLeader, ceView, ceReady,
    ceTorn,       \* routes whose handler was cut short and that no takeover,
                  \* which only looks at enabled ACME routes, has repaired
    ceEdits

ceCatalog == <<cePg, ceRoute, ceTls, ceCfg>>
ceLead == <<ceTerm, ceLeader, ceView, ceReady>>
ceVars == <<ceCatalog, ceState, ceStore, ceAge, ceOrders, ceLease, ceServed,
            ceRedirects, ceSlots, ceBusy, ceDue, ceLead, ceTorn, ceEdits>>

CeIds == CeHosts \cup {"*"}
CeNoRoute == [host |-> "", on |-> FALSE, rev |-> 0]
CeNoTls == [mode |-> "none", id |-> "", redirect |-> FALSE, rev |-> 0]
CeNoState == [status |-> "none", gen |-> 0]
CeNothing == [route |-> "", gen |-> 0]
CeIdle == [do |-> "none", r |-> "", old |-> ""]

CeInit ==
    /\ cePg \in CePgs
    /\ \E on \in BOOLEAN :
          ceRoute = [r \in CeRoutes |-> IF r = CeExisting
              THEN [host |-> CeHost, on |-> on, rev |-> 1] ELSE CeNoRoute]
    /\ \E id \in {"", "*"} :
          ceTls = [r \in CeRoutes |-> IF r = CeExisting
              THEN [mode |-> "acme", id |-> id, redirect |-> TRUE, rev |-> 1] ELSE CeNoTls]
    /\ ceCfg = [on |-> TRUE, dns |-> TRUE, rev |-> 0]
    /\ ceState = [r \in CeRoutes |-> IF r = CeExisting
                     THEN [CeNoState EXCEPT !.status = "pending"] ELSE CeNoState]
    /\ ceStore = [i \in CeIds |-> CeNothing]
    /\ ceAge = <<>> /\ ceOrders = <<>>
    /\ ceLease = [i \in CeIds |-> 0]
    /\ ceServed = [p \in CeProcs |-> [i \in CeIds |-> 0]]
    /\ ceRedirects = [p \in CeProcs |-> {}]
    /\ ceSlots = [p \in CeProcs |-> [i \in CeIds |-> ""]]
    /\ ceBusy = [p \in CeProcs |-> CeIdle]
    /\ ceDue = [p \in CeProcs |-> <<"", "">>]
    /\ ceTerm = 1 /\ ceLeader = CeFirst
    /\ ceView = [p \in CeProcs |-> IF p = CeFirst THEN 1 ELSE 0]
    /\ ceReady = [p \in CeProcs |-> p = CeFirst]
    /\ ceTorn = {} /\ ceEdits = 0

\* leader fence of a transaction
CeFenced(p) == ceLeader = p /\ ceView[p] = ceTerm

\* effective_certificate_identifier
CeIdentifier(host, tls) == IF tls.mode = "acme" /\ tls.id # "" THEN tls.id ELSE host
CeIdOf(r) == CeIdentifier(ceRoute[r].host, ceTls[r])
CeUsedByOther(id, r) ==
    \E q \in CeRoutes \ {r} :
        ceRoute[q].host # "" /\ ceTls[q].mode = "acme" /\ CeIdOf(q) = id

CeExpiredGen(g) == g # 0 /\ ceAge[g] = 2
CeExpired(r) == CeExpiredGen(ceState[r].gen)

\* load_managed_certificate: the certificate found for a route, 0 for none
CeLoad(r, id) ==
    IF /\ ceStore[id].gen # 0 /\ ~CeExpiredGen(ceStore[id].gen)
       /\ cePg => ceStore[id].route = r
    THEN ceStore[id].gen ELSE 0
CeInstall(p, id, g) == IF g = 0 THEN ceServed ELSE [ceServed EXCEPT ![p][id] = g]

\* resolver lookup, which falls back to the wildcard
CeHas(p, id) == ceServed[p][id] # 0 \/ ceServed[p]["*"] # 0

CeWantsRedirect(r) == ceRoute[r].on /\ ceTls[r].mode = "acme" /\ ceTls[r].redirect

\* a management request at a leader that holds the mutation lock
CeRequest(p) ==
    /\ CeFenced(p) /\ ceBusy[p] = CeIdle
    /\ ceEdits < CeMaxEdits /\ ceEdits' = ceEdits + 1
CeHandler(p, do, r, old) ==
    ceBusy' = [ceBusy EXCEPT ![p] = [do |-> do, r |-> r, old |-> old]]

CeUpdateConfig(p) ==
    /\ CeRequest(p)
    /\ \E on, dns \in BOOLEAN :
          /\ ~dns => \A r \in CeRoutes : ~(ceTls[r].mode = "acme" /\ CeIdOf(r) = "*")
          /\ ceCfg' = [on |-> on, dns |-> dns, rev |-> ceCfg.rev + 1]
    /\ UNCHANGED <<cePg, ceRoute, ceTls, ceState, ceStore, ceAge, ceOrders, ceLease,
                   ceServed, ceRedirects, ceSlots, ceBusy, ceDue, ceLead, ceTorn>>

CeFreeHost(host, r) == \A q \in CeRoutes \ {r} : ceRoute[q].host # host

CeCreateRoute(p, r, host) ==
    /\ CeRequest(p) /\ ceRoute[r].host = "" /\ CeFreeHost(host, r)
    /\ ceTls[r] = CeNoTls   \* identities are fresh
    /\ ceRoute' = [ceRoute EXCEPT ![r] = [host |-> host, on |-> TRUE, rev |-> 1]]
    /\ UNCHANGED <<cePg, ceTls, ceCfg, ceState, ceStore, ceAge, ceOrders, ceLease,
                   ceServed, ceRedirects, ceSlots, ceBusy, ceDue, ceLead, ceTorn>>

\* a running operation for the old identifier, or another route's for the new
CeSlotsAllow(p, r, old, new) ==
    ceSlots[p][old] = "" /\ ceSlots[p][new] \in {"", r}

\* update_http_route, up to the write of the route
CeUpdateRoute(p, r, host) ==
    /\ CeRequest(p) /\ ceRoute[r].host # "" /\ CeFreeHost(host, r)
    /\ LET old == CeIdOf(r)
           new == CeIdentifier(host, ceTls[r]) IN
       /\ ceTls[r].mode = "acme" => new \in {host, "*"}
       /\ old # new /\ ceTls[r].mode = "acme" => ~CeUsedByOther(new, r)
       /\ CeSlotsAllow(p, r, old, new)
       /\ ceRoute' = [ceRoute EXCEPT ![r].host = host, ![r].rev = @ + 1]
       /\ ceRedirects' = [ceRedirects EXCEPT ![p] = @ \ {ceRoute[r].host}]
       /\ CeHandler(p, "updated", r, old)
    /\ UNCHANGED <<cePg, ceTls, ceCfg, ceState, ceStore, ceAge, ceOrders, ceLease,
                   ceServed, ceSlots, ceDue, ceLead, ceTorn>>

\* set_http_route_tls, up to the write of the TLS policy
CeSetTls(p, r, mode, id, redirect) ==
    /\ CeRequest(p) /\ ceRoute[r].host # ""
    /\ LET tls == [mode |-> mode, id |-> IF id = ceRoute[r].host THEN "" ELSE id,
                   redirect |-> redirect, rev |-> ceTls[r].rev + 1]
           old == CeIdOf(r)
           new == CeIdentifier(ceRoute[r].host, tls) IN
       /\ mode = "acme" => new \in {ceRoute[r].host, "*"} /\ ~CeUsedByOther(new, r)
       /\ mode = "acme" /\ new = "*" => ceCfg.dns
       /\ mode = "off" \/ old # new => ceSlots[p][old] = ""
       /\ ceSlots[p][new] \in {"", r}
       /\ ceTls' = [ceTls EXCEPT ![r] = tls]
       /\ ceRedirects' = [ceRedirects EXCEPT ![p] =
              IF ceRoute[r].on /\ mode = "acme" /\ redirect
              THEN @ \cup {ceRoute[r].host} ELSE @ \ {ceRoute[r].host}]
       /\ CeHandler(p, "tls", r, old)
    /\ UNCHANGED <<cePg, ceRoute, ceCfg, ceState, ceStore, ceAge, ceOrders, ceLease,
                   ceServed, ceSlots, ceDue, ceLead, ceTorn>>

\* delete_http_route, up to the write of the route
CeDeleteRoute(p, r) ==
    /\ CeRequest(p) /\ ceRoute[r].host # "" /\ ceSlots[p][CeIdOf(r)] = ""
    /\ ceRoute' = [ceRoute EXCEPT ![r] = CeNoRoute]
    /\ ceRedirects' = [ceRedirects EXCEPT ![p] = @ \ {ceRoute[r].host}]
    /\ CeHandler(p, "deleted", r, CeIdOf(r))
    /\ UNCHANGED <<cePg, ceTls, ceCfg, ceState, ceStore, ceAge, ceOrders, ceLease,
                   ceServed, ceSlots, ceDue, ceLead, ceTorn>>

\* set_http_route_enabled: one write, then local effects
CeDisable(p, r) ==
    /\ CeRequest(p) /\ ceRoute[r].on /\ ceSlots[p][CeIdOf(r)] = ""
    /\ ceRoute' = [ceRoute EXCEPT ![r].on = FALSE, ![r].rev = @ + 1]
    /\ ceRedirects' = [ceRedirects EXCEPT ![p] = @ \ {ceRoute[r].host}]
    /\ ceServed' = [ceServed EXCEPT ![p][CeIdOf(r)] = 0]
    /\ UNCHANGED <<cePg, ceTls, ceCfg, ceState, ceStore, ceAge, ceOrders, ceLease,
                   ceSlots, ceBusy, ceDue, ceLead, ceTorn>>

CeEnable(p, r) ==
    /\ CeRequest(p) /\ ceRoute[r].host # "" /\ ~ceRoute[r].on
    /\ ceRoute' = [ceRoute EXCEPT ![r].on = TRUE, ![r].rev = @ + 1]
    /\ ceServed' = IF ceTls[r].mode = "acme" /\ ceState[r] # CeNoState /\ ~CeExpired(r)
                   THEN CeInstall(p, CeIdOf(r), CeLoad(r, CeIdOf(r))) ELSE ceServed
    /\ ceRedirects' = IF ceTls[r].mode = "acme" /\ ceTls[r].redirect
                      THEN [ceRedirects EXCEPT ![p] = @ \cup {ceRoute[r].host}]
                      ELSE ceRedirects
    /\ UNCHANGED <<cePg, ceTls, ceCfg, ceState, ceStore, ceAge, ceOrders, ceLease,
                   ceSlots, ceBusy, ceDue, ceLead, ceTorn>>

-----------------------------------------------------------------------------
\* the second part of a handler

\* delete_certificate: the resolver, and the files a SQLite server uses
CeForget(p, id) == [ceServed EXCEPT ![p][id] = 0]
\* delete_certificate_state removes the shared material of the route as well
CeDropped(r, id) ==
    [i \in CeIds |-> IF (cePg /\ ceStore[i].route = r) \/ (~cePg /\ i = id)
                     THEN CeNothing ELSE ceStore[i]]

\* the handler abandons the identifier the route had before
CeMoved(p) == ceBusy[p].do = "deleted" \/ ceBusy[p].old # CeIdOf(ceBusy[p].r)

\* the status CeFinish leaves: restored, pending or disabled
CeStatus(r, st, status) == [ceState EXCEPT ![r] = [st EXCEPT !.status = status]]
CePending(st) ==
    IF st.status \in {"none", "disabled", "expired"} THEN "pending" ELSE st.status

CeFinish(p) ==
    LET r == ceBusy[p].r   old == ceBusy[p].old   new == CeIdOf(r)
        moved == CeMoved(p)
        st == IF moved THEN CeNoState ELSE ceState[r]
        served == IF moved THEN CeForget(p, old) ELSE ceServed
        loaded == IF ceRoute[r].on /\ st # CeNoState /\ ~CeExpiredGen(st.gen) /\ ~moved
                  THEN CeLoad(r, new) ELSE 0 IN
    /\ ceBusy[p] # CeIdle /\ CeFenced(p)
    /\ ceStore' = IF moved THEN CeDropped(r, old) ELSE ceStore
    /\ CASE ceBusy[p].do = "updated" ->
              /\ ceState' = [ceState EXCEPT ![r] = st]
              /\ ceServed' = served
              /\ ceRedirects' = IF CeWantsRedirect(r)
                                THEN [ceRedirects EXCEPT ![p] = @ \cup {ceRoute[r].host}]
                                ELSE ceRedirects
              /\ UNCHANGED ceTls
         [] ceBusy[p].do = "tls" /\ ceTls[r].mode = "off" ->
              /\ ceState' = CeStatus(r, st, "disabled")
              /\ ceServed' = [served EXCEPT ![p][new] = 0]
              /\ UNCHANGED <<ceTls, ceRedirects>>
         [] ceBusy[p].do = "tls" /\ ceTls[r].mode = "acme" ->
              /\ ceState' = CeStatus(r, st, IF loaded # 0 THEN "active" ELSE CePending(st))
              /\ ceServed' = IF loaded # 0 THEN [served EXCEPT ![p][new] = loaded]
                             ELSE served
              /\ UNCHANGED <<ceTls, ceRedirects>>
         [] OTHER ->
              /\ ceTls' = [ceTls EXCEPT ![r] = CeNoTls]
              /\ ceState' = [ceState EXCEPT ![r] = CeNoState]
              /\ ceServed' = CeForget(p, old)
              /\ UNCHANGED ceRedirects
    /\ ceBusy' = [ceBusy EXCEPT ![p] = CeIdle]
    /\ UNCHANGED <<cePg, ceRoute, ceCfg, ceAge, ceOrders, ceLease, ceSlots, ceDue,
                   ceLead, ceTorn, ceEdits>>

\* the fence fails in the second part: local effects only, and an error
CeFinishFails(p) ==
    /\ ceBusy[p] # CeIdle /\ ~CeFenced(p)
    /\ ceServed' = IF CeMoved(p) THEN CeForget(p, ceBusy[p].old) ELSE ceServed
    /\ ceBusy' = [ceBusy EXCEPT ![p] = CeIdle]
    /\ UNCHANGED <<ceCatalog, ceState, ceStore, ceAge, ceOrders, ceLease, ceRedirects,
                   ceSlots, ceDue, ceLead, ceTorn, ceEdits>>

-----------------------------------------------------------------------------
\* certificate operations

CeAllowed(p, r, op) ==
    /\ ceRoute[r].on /\ ceTls[r].mode = "acme" /\ ceCfg.on
    /\ CeIdOf(r) = "*" => ceCfg.dns
    /\ op = "issue" => ~(ceState[r].status = "active" /\ ~CeExpired(r))
    /\ op = "renew" => CeHas(p, CeIdOf(r))

\* an expired or lost lease, or one of an earlier term, may be taken over
CeLeaseFree(id) == ceLease[id] # 0 => ceOrders[ceLease[id]].term # ceTerm

\* prepare_certificate_operation and the spawn of run_certificate_operation
CePrepare(p, r, op) ==
    LET id == CeIdOf(r)   o == Len(ceOrders) + 1 IN
    /\ ceBusy[p] = CeIdle /\ CeFenced(p)
    /\ CeAllowed(p, r, op)
    /\ ceSlots[p][id] = "" /\ CeLeaseFree(id)
    /\ Len(ceOrders) < CeMaxOrders
    /\ ceOrders' = Append(ceOrders, [p |-> p, r |-> r, id |-> id, term |-> ceTerm,
           cfg |-> ceCfg, tls |-> ceTls[r], route |-> ceRoute[r], pc |-> "ordering"])
    /\ ceAge' = Append(ceAge, 0)
    /\ ceSlots' = [ceSlots EXCEPT ![p][id] = r]
    /\ ceLease' = [ceLease EXCEPT ![id] = o]
    /\ ceState' = [ceState EXCEPT
           ![r].status = IF op = "issue" THEN "issuing" ELSE "renewing"]
    /\ UNCHANGED <<ceCatalog, ceStore, ceServed, ceRedirects, ceBusy, ceLead, ceTorn>>

\* issue and renew requests, and the automatic issue after set_http_route_tls
CeQueue(p, r, op) ==
    CePrepare(p, r, op) /\ UNCHANGED ceDue /\ CeRequest(p)

CeRunning(o, pc) == o \in 1..Len(ceOrders) /\ ceOrders[o].pc = pc
CeCurrent(o) ==
    LET x == ceOrders[o] IN
    /\ ceCfg.on /\ ceCfg = x.cfg
    /\ [ceRoute[x.r] EXCEPT !.rev = 0] = [x.route EXCEPT !.rev = 0]
    /\ ceRoute[x.r].on /\ ceTls[x.r].mode = "acme" /\ CeIdOf(x.r) = x.id

\* what a PostgreSQL transaction checks again, under the fence and the lease
CeStillOwned(o) ==
    LET x == ceOrders[o] IN
    /\ CeFenced(x.p) /\ x.term = ceTerm
    /\ cePg => /\ ceLease[x.id] = o
               /\ ceTls[x.r] = x.tls /\ ceRoute[x.r] = x.route

\* the job ends: the lease is settled if it is still held, the slot is freed
CeEnd(o) ==
    LET x == ceOrders[o] IN
    /\ ceOrders' = [ceOrders EXCEPT ![o].pc = "ended"]
    /\ ceLease' = [ceLease EXCEPT ![x.id] = IF @ = o /\ x.term = ceTerm THEN 0 ELSE @]
    /\ ceSlots' = [ceSlots EXCEPT ![x.p][x.id] = ""]
    /\ UNCHANGED <<ceCatalog, ceAge, ceRedirects, ceBusy, ceDue, ceLead, ceTorn, ceEdits>>

\* record_certificate_success_if_current
CeSucceed(o) ==
    LET x == ceOrders[o] IN
    /\ CeRunning(o, "ordering") /\ ceBusy[x.p] = CeIdle
    /\ IF /\ CeCurrent(o) /\ CeStillOwned(o)
          /\ cePg => ceStore[x.id].route \in {"", x.r}
       THEN /\ ceStore' = [ceStore EXCEPT ![x.id] = [route |-> x.r, gen |-> o]]
            /\ ceState' = [ceState EXCEPT ![x.r] =
                  [status |-> "active", gen |-> o]]
            /\ ceServed' = [ceServed EXCEPT ![x.p][x.id] = o]
       ELSE UNCHANGED <<ceStore, ceState, ceServed>>
    /\ CeEnd(o)

\* record_certificate_failure_if_current
CeFail(o) ==
    LET x == ceOrders[o] IN
    /\ CeRunning(o, "ordering") /\ ceBusy[x.p] = CeIdle
    /\ ceState' = IF CeCurrent(o) /\ CeStillOwned(o)
                  THEN [ceState EXCEPT ![x.r].status = "error"]
                  ELSE ceState
    /\ CeEnd(o) /\ UNCHANGED <<ceStore, ceServed>>

\* job_execution stops the operation of a lost lease or leadership
CeAbandon(o) ==
    /\ CeRunning(o, "ordering") /\ ceOrders[o].term # ceView[ceOrders[o].p]
    /\ CeEnd(o) /\ UNCHANGED <<ceState, ceStore, ceServed>>

-----------------------------------------------------------------------------
\* maintenance

\* select_certificate_maintenance_operation
CeSelect(r, has) ==
    LET st == ceState[r] IN
    CASE st = CeNoState -> "issue"
      [] st.status = "error" -> IF has THEN "renew" ELSE "issue"
      [] st.status # "error" /\ CeExpired(r) -> "issue"
      [] ~CeExpired(r) /\ st.status \in {"pending", "issuing"} -> "issue"
      [] ~CeExpired(r) /\ st.status = "renewing" -> IF has THEN "renew" ELSE "issue"
      [] OTHER -> IF st.gen # 0 /\ ceAge[st.gen] = 1 THEN "renew" ELSE ""

\* one route of scan_certificate_maintenance, under the lock
CeScan(p, r) ==
    LET id == CeIdOf(r) IN
    /\ ceView[p] # 0 /\ ceReady[p] /\ ceBusy[p] = CeIdle /\ ceDue[p] = <<"", "">>
    /\ ceCfg.on /\ ceRoute[r].on /\ ceTls[r].mode = "acme"
    /\ ceServed' = IF CeExpired(r) THEN [ceServed EXCEPT ![p][id] = 0]
                   ELSE IF ceState[r].gen # 0 /\ cePg THEN CeInstall(p, id, CeLoad(r, id))
                   ELSE ceServed
    /\ ceState' = IF CeExpired(r) /\ ceState[r].status # "error" /\ CeFenced(p)
                  THEN [ceState EXCEPT ![r].status = "expired"] ELSE ceState
    /\ ceDue' = [ceDue EXCEPT ![p] =
          <<r, CeSelect(r, ceServed'[p][id] # 0 \/ ceServed'[p]["*"] # 0)>>]
    /\ ceDue'[p][2] # ""
    /\ UNCHANGED <<ceCatalog, ceStore, ceAge, ceOrders, ceLease, ceRedirects, ceSlots,
                   ceBusy, ceLead, ceTorn, ceEdits>>

\* the scan released the lock before it prepares what it selected
CeMaintain(p) ==
    /\ ceDue[p] # <<"", "">> /\ ceDue' = [ceDue EXCEPT ![p] = <<"", "">>]
    /\ \/ CePrepare(p, ceDue[p][1], ceDue[p][2]) /\ UNCHANGED ceEdits
       \/ UNCHANGED <<ceCatalog, ceState, ceStore, ceAge, ceOrders, ceLease, ceServed,
                      ceRedirects, ceSlots, ceBusy, ceLead, ceTorn, ceEdits>>

CeManaged(r) == ceRoute[r].on /\ ceTls[r].mode = "acme"
CeRestorable(r) == CeManaged(r) /\ ceState[r].gen # 0 /\ ~CeExpired(r)

\* mutant: a takeover fills in what the process does not present yet
CeRestoredMissing(p) ==
    [i \in CeIds |->
        LET found == {r \in CeRoutes : CeRestorable(r) /\ CeIdOf(r) = i /\ CeLoad(r, i) # 0}
        IN IF found = {} \/ ceServed[p][i] # 0 THEN ceServed[p][i] ELSE ceStore[i].gen]

\* restore_managed_certificates: what the resolver presents afterwards
CeRestored(p) ==
    [i \in CeIds |->
        LET found == {r \in CeRoutes : CeRestorable(r) /\ CeIdOf(r) = i /\ CeLoad(r, i) # 0}
        IN IF found = {} THEN ceServed[p][i] ELSE ceStore[i].gen]

\* the status restore_managed_certificates leaves when it may write
CeRestoredState(r) ==
    LET st == ceState[r]   pending == st.status \in {"issuing", "renewing", "disabled"} IN
    IF ~CeManaged(r) \/ ~CeLeaseFree(CeIdOf(r)) THEN st
    ELSE IF CeExpired(r) THEN [st EXCEPT !.status = "expired"]
    ELSE IF st.gen = 0 THEN [st EXCEPT !.status = IF pending THEN "pending" ELSE @]
    ELSE IF CeLoad(r, CeIdOf(r)) = 0 THEN [st EXCEPT !.status = "error"]
    ELSE [st EXCEPT !.status = IF pending THEN "active" ELSE @]

CeRestoredRedirects(p) ==
    ceRedirects[p] \cup
    {ceRoute[r].host : r \in {q \in CeRoutes :
        CeRestorable(q) /\ CeLoad(q, CeIdOf(q)) # 0 /\ ceTls[q].redirect}}

\* run_certificate_maintenance starts in a new term
CeTakeOver(p) ==
    /\ CeFenced(p) /\ ~ceReady[p] /\ ceBusy[p] = CeIdle
    /\ ceServed' = [ceServed EXCEPT ![p] = CeRestored(p)]
    /\ ceState' = [r \in CeRoutes |-> CeRestoredState(r)]
    /\ ceRedirects' = [ceRedirects EXCEPT ![p] = CeRestoredRedirects(p)]
    /\ ceReady' = [ceReady EXCEPT ![p] = TRUE]
    /\ ceTorn' = {r \in ceTorn : ~CeManaged(r)}
    /\ UNCHANGED <<ceCatalog, ceStore, ceAge, ceOrders, ceLease, ceSlots, ceBusy, ceDue,
                   ceTerm, ceLeader, ceView, ceEdits>>

CeCut(p) == IF ceBusy[p] = CeIdle THEN {} ELSE {ceBusy[p].r}

\* the leader's lease runs out; the process notices later
CeExpireLeader ==
    /\ cePg /\ ceLeader # "" /\ ceTerm < CeMaxTerms
    /\ ceLeader' = "" /\ ceTorn' = ceTorn \cup CeCut(ceLeader)
    /\ UNCHANGED <<ceCatalog, ceState, ceStore, ceAge, ceOrders, ceLease, ceServed,
                   ceRedirects, ceSlots, ceBusy, ceDue, ceTerm, ceView, ceReady, ceEdits>>

CeNotice(p) ==
    /\ ceView[p] # 0 /\ ~CeFenced(p)
    /\ ceView' = [ceView EXCEPT ![p] = 0] /\ ceReady' = [ceReady EXCEPT ![p] = FALSE]
    /\ ceDue' = [ceDue EXCEPT ![p] = <<"", "">>]
    /\ UNCHANGED <<ceCatalog, ceState, ceStore, ceAge, ceOrders, ceLease, ceServed,
                   ceRedirects, ceSlots, ceBusy, ceTerm, ceLeader, ceTorn, ceEdits>>

CeElect(p) ==
    /\ ceLeader = "" /\ ceView[p] = 0 /\ ceTerm < CeMaxTerms
    /\ cePg \/ p = CeFirst
    /\ ceTerm' = ceTerm + 1 /\ ceLeader' = p
    /\ ceView' = [ceView EXCEPT ![p] = ceTerm + 1]
    /\ UNCHANGED <<ceCatalog, ceState, ceStore, ceAge, ceOrders, ceLease, ceServed,
                   ceRedirects, ceSlots, ceBusy, ceDue, ceReady, ceTorn, ceEdits>>

\* a process dies and starts again; it restores what it can, without writing
CeRestart(p) ==
    /\ cePg \/ p = CeFirst
    /\ ceTerm < CeMaxTerms
    /\ ceLeader' = IF ceLeader = p THEN "" ELSE ceLeader
    /\ ceView' = [ceView EXCEPT ![p] = 0] /\ ceReady' = [ceReady EXCEPT ![p] = FALSE]
    /\ ceServed' = [ceServed EXCEPT ![p] = [i \in CeIds |->
          IF \E r \in CeRoutes : CeRestorable(r) /\ CeIdOf(r) = i /\ CeLoad(r, i) # 0
          THEN ceStore[i].gen ELSE 0]]
    /\ ceRedirects' = [ceRedirects EXCEPT ![p] = CeRestoredRedirects(p) \ ceRedirects[p]]
    /\ ceSlots' = [ceSlots EXCEPT ![p] = [i \in CeIds |-> ""]]
    /\ ceOrders' = [o \in 1..Len(ceOrders) |->
          IF ceOrders[o].p = p THEN [ceOrders[o] EXCEPT !.pc = "ended"] ELSE ceOrders[o]]
    /\ ceDue' = [ceDue EXCEPT ![p] = <<"", "">>]
    /\ ceBusy' = [ceBusy EXCEPT ![p] = CeIdle]
    /\ ceTorn' = IF ceLeader = p THEN ceTorn \cup CeCut(p) ELSE ceTorn
    /\ UNCHANGED <<ceCatalog, ceState, ceStore, ceAge, ceLease, ceTerm, ceEdits>>

\* time: a certificate becomes due for renewal or expires.  The cooldown and
\* the retry delays may have passed before any operation is prepared.
CeTime ==
    /\ \E g \in 1..Len(ceAge) :
          /\ g \in {ceState[r].gen : r \in CeRoutes} /\ ceAge[g] < CeMaxAge
          /\ ceAge' = [ceAge EXCEPT ![g] = @ + 1]
    /\ UNCHANGED <<ceCatalog, ceState, ceStore, ceOrders, ceLease, ceServed, ceRedirects, ceSlots,
                   ceBusy, ceDue, ceLead, ceTorn, ceEdits>>

CeManage(p, r) ==
    \/ \E h \in CeHosts : CeCreateRoute(p, r, h) \/ CeUpdateRoute(p, r, h)
    \/ \E m \in {"acme", "off"}, i \in CeIds, b \in CeRedirecting : CeSetTls(p, r, m, i, b)
    \/ CeDeleteRoute(p, r) \/ CeDisable(p, r) \/ CeEnable(p, r)
    \/ \E op \in {"issue", "renew"} : CeQueue(p, r, op)
    \/ CeScan(p, r)

CeNext ==
    \/ \E p \in CeProcs :
          \/ \E r \in CeRoutes : CeManage(p, r)
          \/ CeUpdateConfig(p) \/ CeFinish(p) \/ CeFinishFails(p)
          \/ CeMaintain(p) \/ CeTakeOver(p) \/ CeNotice(p) \/ CeElect(p) \/ CeRestart(p)
    \/ \E o \in 1..CeMaxOrders : CeSucceed(o) \/ CeFail(o) \/ CeAbandon(o)
    \/ CeExpireLeader \/ CeTime

CeSpec == CeInit /\ [][CeNext]_ceVars

-----------------------------------------------------------------------------
\* what the leader presents for the certificate the catalog calls active
CePresents(r) ==
    LET p == ceLeader IN
    CeManaged(r) /\ ceState[r].status = "active" /\ ~CeExpired(r)
        => ceServed[p][CeIdOf(r)] = ceState[r].gen

CeSettled(p) == CeFenced(p) /\ ceReady[p] /\ ceBusy[p] = CeIdle

\* A leader that has taken over presents exactly the certificate the catalog
\* records as active, for every enabled ACME route: after renewals that end
\* late, hostname and policy changes, restarts and takeovers in the middle of
\* a handler or of an order.  Routes a handler of which was cut between its
\* two writes are left out until a takeover finds them enabled.
CeActiveIsServed ==
    ceLeader # "" /\ CeSettled(ceLeader) => \A r \in CeRoutes \ ceTorn : CePresents(r)

\* The same for all routes: an active status never stands for a certificate
\* that does not exist.
CeNoEmptyActive ==
    ceLeader # "" /\ CeSettled(ceLeader) => \A r \in CeRoutes : CePresents(r)

(***************************************************************************)
(* certificate_manager.rs: the files of one identifier.  A certificate and *)
(* its key are staged, renamed to a generation named after the wall clock, *)
(* recorded in the catalog and copied to the two compatibility files; old  *)
(* generations are then removed by name.  A load takes the first valid     *)
(* pair in the descending order of names.  Certificate n has key n.        *)
(***************************************************************************)
CONSTANTS
    CfIssues,      \* bound on certificates issued
    CfRetained,    \* RETAINED_CERTIFICATE_GENERATIONS
    CfMaxFaults,   \* bound on failing writes and backward clock steps
    CfMaxKills     \* bound on process deaths

ASSUME CfAssumption ==
    CfIssues \in Nat /\ CfRetained \in Nat \ {0} /\ CfMaxFaults \in Nat /\ CfMaxKills \in Nat

VARIABLES
    cfGens,      \* generations: [name, cert], with both files and the marker
    cfStaged,    \* files in the staging directory: 0 to 3, in writing order
    cfCompat,    \* [cert, key] compatibility files, 0 for none
    cfMeta,      \* certificate the catalog records, 0 for none
    cfIssued,    \* certificates issued so far
    cfExpired,   \* certificates up to this one have expired
    cfPc,        \* step of persist_certificate_with_commit
    cfName,      \* name of the generation being written
    cfClock, cfFaults, cfKills

cfVars == <<cfGens, cfStaged, cfCompat, cfMeta, cfIssued, cfExpired, cfPc, cfName,
            cfClock, cfFaults, cfKills>>

CfInit ==
    /\ cfGens = {} /\ cfStaged = 0 /\ cfCompat = [cert |-> 0, key |-> 0]
    /\ cfMeta = 0 /\ cfIssued = 0 /\ cfExpired = 0
    /\ cfPc = "idle" /\ cfName = 0 /\ cfClock = 2 /\ cfFaults = 0 /\ cfKills = 0

CfFault == cfFaults < CfMaxFaults /\ cfFaults' = cfFaults + 1

\* an order succeeds; the staging directory is created under a fresh name
CfBegin ==
    /\ cfPc = "idle" /\ cfIssued < CfIssues
    /\ cfIssued' = cfIssued + 1
    /\ cfClock' = cfClock + 1 /\ cfName' = cfClock
    /\ cfName' \notin {g.name : g \in cfGens}
    /\ cfStaged' = 0 /\ cfPc' = "staging"
    /\ UNCHANGED <<cfGens, cfCompat, cfMeta, cfExpired, cfFaults, cfKills>>

\* write_secret_file into the staging directory: chain, key, marker
CfStage ==
    /\ cfPc = "staging" /\ cfStaged < 3
    /\ cfStaged' = cfStaged + 1
    /\ UNCHANGED <<cfGens, cfCompat, cfMeta, cfIssued, cfExpired, cfPc, cfName,
                   cfClock, cfFaults, cfKills>>

CfPublish ==
    /\ cfPc = "staging" /\ cfStaged = 3
    /\ cfGens' = cfGens \cup {[name |-> cfName, cert |-> cfIssued]}
    /\ cfPc' = "renamed"
    /\ UNCHANGED <<cfStaged, cfCompat, cfMeta, cfIssued, cfExpired, cfName,
                   cfClock, cfFaults, cfKills>>

\* the closure that records the success in the catalog
CfCommit ==
    /\ cfPc = "renamed"
    /\ cfMeta' = cfIssued /\ cfPc' = "recorded"
    /\ UNCHANGED <<cfGens, cfStaged, cfCompat, cfIssued, cfExpired, cfName,
                   cfClock, cfFaults, cfKills>>

\* a failing write or commit removes the files of this attempt, no others
CfDiscard ==
    /\ cfPc \in {"staging", "renamed"} /\ CfFault
    /\ cfGens' = {g \in cfGens : g.name # cfName}
    /\ cfPc' = "idle" /\ cfStaged' = 0
    /\ UNCHANGED <<cfCompat, cfMeta, cfIssued, cfExpired, cfName, cfClock, cfKills>>

\* the compatibility files, one after the other; a failure is only logged
CfRefresh(file, from, to) ==
    /\ cfPc = from /\ cfPc' = to
    /\ \/ cfCompat' = [cfCompat EXCEPT ![file] = cfIssued] /\ UNCHANGED cfFaults
       \/ CfFault /\ UNCHANGED cfCompat
    /\ UNCHANGED <<cfGens, cfStaged, cfMeta, cfIssued, cfExpired, cfName, cfClock,
                   cfKills>>

CfNewer(g) == {h \in cfGens : h.name > g.name}

\* mutant: the newest generations are the ones removed
CfObsoleteNewest == {g \in cfGens : Cardinality({h \in cfGens : h.name < g.name}) >= CfRetained}
CfObsolete == {g \in cfGens : Cardinality(CfNewer(g)) >= CfRetained}

CfCleanup ==
    /\ cfPc = "cleanup" /\ cfPc' = "idle"
    /\ cfGens' = cfGens \ CfObsolete
    /\ UNCHANGED <<cfStaged, cfCompat, cfMeta, cfIssued, cfExpired, cfName,
                   cfClock, cfFaults, cfKills>>

\* the process dies; what it staged is never read
CfKill ==
    /\ cfPc # "idle" /\ cfKills < CfMaxKills
    /\ cfKills' = cfKills + 1 /\ cfPc' = "idle"
    /\ UNCHANGED <<cfGens, cfStaged, cfCompat, cfMeta, cfIssued, cfExpired, cfName,
                   cfClock, cfFaults>>

\* certificates expire in the order in which they were issued
CfExpire ==
    /\ cfExpired < cfIssued /\ cfExpired' = cfExpired + 1
    /\ UNCHANGED <<cfGens, cfStaged, cfCompat, cfMeta, cfIssued, cfPc, cfName,
                   cfClock, cfFaults, cfKills>>

\* the wall clock is set back
CfClockBack ==
    /\ cfClock > 2 /\ CfFault /\ cfClock' = 0
    /\ UNCHANGED <<cfGens, cfStaged, cfCompat, cfMeta, cfIssued, cfExpired, cfPc,
                   cfName, cfKills>>

CfNext ==
    \/ CfBegin \/ CfStage \/ CfPublish \/ CfCommit \/ CfDiscard
    \/ CfRefresh("cert", "recorded", "key") \/ CfRefresh("key", "key", "cleanup")
    \/ CfCleanup \/ CfKill \/ CfExpire \/ CfClockBack

CfSpec == CfInit /\ [][CfNext]_cfVars

-----------------------------------------------------------------------------
\* validate_certificate: the pair matches and has not expired
CfValid(cert, key) == cert = key /\ cert > cfExpired

\* committed_certificate_pairs, in the order load_certificate tries them
CfCommitted == {g \in cfGens : CfValid(g.cert, g.cert)}

CfLoad ==
    IF CfCommitted # {}
    THEN (CHOOSE g \in CfCommitted : \A h \in CfCommitted : h.name <= g.name).cert
    ELSE IF CfValid(cfCompat.cert, cfCompat.key) THEN cfCompat.cert ELSE 0

\* A certificate the catalog records as valid can be loaded at the next
\* start: after a kill between any two of the file operations, a failing
\* write or a clock set back (one of these two), a matching unexpired pair is
\* found on disk, and without such a fault it is not older than the record.
CfRecordedIsLoadable ==
    cfMeta > cfExpired =>
        /\ CfLoad # 0
        /\ cfFaults = 0 => CfLoad >= cfMeta

(***************************************************************************)
(* Publishing and withdrawing the proof of an ACME challenge for one       *)
(* certificate identifier: in memory (certificate_manager.rs), in the      *)
(* shared table (certificate_http01.rs) or as a TXT record at the DNS      *)
(* provider, guarded by a durable intent (dns01_store.rs,                  *)
(* cloudflare_dns.rs).  Attempts follow one another: each holds the lease  *)
(* of the certificate job while it is active, and the ACME server may give *)
(* a later attempt the same token.                                         *)
(***************************************************************************)
CONSTANTS
    AcAttempts,   \* number of attempts
    AcKinds       \* where proofs are published: "local", "shared", "dns"

ASSUME AcAssumption ==
    AcAttempts \in Nat /\ AcKinds \subseteq {"local", "shared", "dns"}

VARIABLES
    acKind,      \* how the proofs are published
    acLease,     \* attempt that holds the live certificate job, 0 for none
    acPc,        \* progress of each attempt
    acLocal,     \* publication in memory, 0 for none
    acShared,    \* publication in the shared table, 0 for none
    acIntent,    \* journal rows of the attempts
    acPost,      \* the creation request: none, flying, landed, rejected, lost
    acRecords,   \* attempts whose TXT record exists at the provider
    acClean      \* progress of the cleanup job of each intent

acVars == <<acKind, acLease, acPc, acLocal, acShared, acIntent, acPost,
            acRecords, acClean>>

AcIds == 1..AcAttempts
AcNoIntent == [there |-> FALSE, published |-> FALSE, observed |-> FALSE,
               rejected |-> FALSE, requested |-> FALSE]

AcInit ==
    /\ acKind \in AcKinds
    /\ acLease = 0 /\ acLocal = 0 /\ acShared = 0 /\ acRecords = {}
    /\ acPc = [i \in AcIds |-> "new"]
    /\ acIntent = [i \in AcIds |-> AcNoIntent]
    /\ acPost = [i \in AcIds |-> "none"]
    /\ acClean = [i \in AcIds |-> "idle"]

AcGoto(i, pc) == acPc' = [acPc EXCEPT ![i] = pc]
AcOwnerActive(i) == acLease = i
AcSave(i, row) == acIntent' = [acIntent EXCEPT ![i] = row]

\* the job ends and completes or fails its lease, if it still has it
AcEnds(i) == AcGoto(i, "ended") /\ acLease' = IF acLease = i THEN 0 ELSE acLease

\* an attempt starts when no job is live; within one process, and only one
\* uses the proofs in memory, the slot is kept until the attempt has ended
AcAcquire(i) ==
    /\ acPc[i] = "new" /\ acLease = 0
    /\ \A j \in 1..(i - 1) :
          IF acKind = "local" THEN acPc[j] = "ended" ELSE acPc[j] # "new"
    /\ acLease' = i /\ AcGoto(i, "ordering")
    /\ UNCHANGED <<acKind, acLocal, acShared, acIntent, acPost, acRecords, acClean>>

\* the lease expires, or leadership is lost; the attempt notices later
AcLeaseLost ==
    /\ acLease # 0 /\ acLease' = 0
    /\ UNCHANGED <<acKind, acPc, acLocal, acShared, acIntent, acPost, acRecords,
                   acClean>>

-----------------------------------------------------------------------------
\* HTTP-01
AcPublishLocal(i) ==
    /\ acKind = "local" /\ acPc[i] = "ordering"
    /\ acLocal' = i /\ AcGoto(i, "ready")
    /\ UNCHANGED <<acKind, acLease, acShared, acIntent, acPost, acRecords, acClean>>

\* a guard removes its own publication only
AcRemoveLocal(i) == acLocal' = IF acLocal = i THEN 0 ELSE acLocal

\* leader fence and lease are asserted in the transaction that publishes
AcPublishShared(i) ==
    /\ acKind = "shared" /\ acPc[i] = "ordering"
    /\ IF AcOwnerActive(i)
       THEN acShared' = i /\ AcGoto(i, "ready") /\ UNCHANGED acLease
       ELSE AcEnds(i) /\ UNCHANGED acShared
    /\ UNCHANGED <<acKind, acLocal, acIntent, acPost, acRecords, acClean>>

AcLookupLocal == acLocal
\* a shared proof is visible while the job that published it is live
AcLookupShared == IF acShared # 0 /\ AcOwnerActive(acShared) THEN acShared ELSE 0

AcCleanupShared(i) == acShared' = IF acShared = i THEN 0 ELSE acShared

\* the order succeeds or fails, and the proofs are withdrawn
AcFinishHttp(i) ==
    /\ acKind # "dns" /\ acPc[i] = "ready"
    /\ IF acKind = "local" THEN AcRemoveLocal(i) /\ UNCHANGED acShared
       ELSE /\ acShared' = acShared \/ AcCleanupShared(i)   \* errors are logged
            /\ UNCHANGED acLocal
    /\ AcEnds(i)
    /\ UNCHANGED <<acKind, acIntent, acPost, acRecords, acClean>>

-----------------------------------------------------------------------------
\* DNS-01: mutations of the journal, each under a lease
AcCanIssue(i) == AcOwnerActive(i)

\* Dns01Mutation::Create, then the request to the provider
AcPublishDns(i) ==
    /\ acKind = "dns" /\ acPc[i] = "ordering"
    /\ IF AcCanIssue(i) /\ ~acIntent[i].there
       THEN /\ AcSave(i, [AcNoIntent EXCEPT !.there = TRUE])
            /\ acPost' = [acPost EXCEPT ![i] = "flying"]
            /\ AcGoto(i, "posting") /\ UNCHANGED acLease
       ELSE AcEnds(i) /\ UNCHANGED <<acIntent, acPost>>
    /\ UNCHANGED <<acKind, acLocal, acShared, acRecords, acClean>>

\* the provider creates the record or refuses it, or the request is lost
AcProvider(i) ==
    /\ acPost[i] = "flying"
    /\ \/ acPost' = [acPost EXCEPT ![i] = "landed"] /\ acRecords' = acRecords \cup {i}
       \/ acPost' = [acPost EXCEPT ![i] = "rejected"] /\ UNCHANGED acRecords
       \/ acPost' = [acPost EXCEPT ![i] = "lost"] /\ UNCHANGED acRecords
    /\ UNCHANGED <<acKind, acLease, acPc, acLocal, acShared, acIntent, acClean>>

\* Dns01Mutation::Published
AcPublished(i) ==
    /\ acPc[i] = "posting" /\ acPost[i] = "landed"
    /\ IF AcCanIssue(i) /\ acIntent[i].there /\ ~acIntent[i].requested
       THEN /\ AcSave(i, [acIntent[i] EXCEPT !.published = TRUE, !.observed = TRUE])
            /\ AcGoto(i, "propagating") /\ UNCHANGED acLease
       ELSE AcEnds(i) /\ UNCHANGED acIntent
    /\ UNCHANGED <<acKind, acLocal, acShared, acPost, acRecords, acClean>>

\* Dns01Mutation::Rejected, which is best effort
AcRejected(i) ==
    /\ acPc[i] = "posting" /\ acPost[i] = "rejected"
    /\ IF AcCanIssue(i) /\ acIntent[i].there /\ ~acIntent[i].observed
       THEN AcSave(i, [acIntent[i] EXCEPT !.rejected = TRUE, !.requested = TRUE])
       ELSE UNCHANGED acIntent
    /\ AcEnds(i)
    /\ UNCHANGED <<acKind, acLocal, acShared, acPost, acRecords, acClean>>

\* wait_for_propagation
AcPropagated(i) ==
    /\ acPc[i] = "propagating" /\ i \in acRecords
    /\ AcGoto(i, "ready")
    /\ UNCHANGED <<acKind, acLease, acLocal, acShared, acIntent, acPost,
                   acRecords, acClean>>

\* the order ends: RequestCleanup, and the attempt cleans up itself
AcFinishDns(i) ==
    /\ acKind = "dns" /\ acPc[i] \in {"ready", "propagating"}
    /\ IF AcCanIssue(i) /\ acIntent[i].there
       THEN AcSave(i, [acIntent[i] EXCEPT !.requested = TRUE])
       ELSE UNCHANGED acIntent
    /\ AcEnds(i)
    /\ UNCHANGED <<acKind, acLocal, acShared, acPost, acRecords, acClean>>

\* the whole operation times out, is abandoned, or its process dies; only
\* the guard in memory is dropped
AcAbort(i) ==
    /\ acPc[i] \notin {"new", "ended"}
    /\ AcRemoveLocal(i) /\ AcEnds(i)
    /\ UNCHANGED <<acKind, acShared, acIntent, acPost, acRecords, acClean>>

-----------------------------------------------------------------------------
\* the cleanup job of an intent
AcDue(i) == acIntent[i].there /\ (acIntent[i].requested \/ ~AcOwnerActive(i))

AcCleanGoto(i, pc) == acClean' = [acClean EXCEPT ![i] = pc]

\* cleanup mutations refuse while the issuing job is live
AcMayClean(i) == AcDue(i)

\* mutant: an unresolved creation may be forgotten
AcResolvedAlways(i) == TRUE
AcResolved(i) == acIntent[i].observed \/ acIntent[i].rejected

\* Dns01Mutation::AuthorizeCleanup
AcAuthorize(i) ==
    /\ acClean[i] = "idle" /\ AcMayClean(i)
    /\ AcSave(i, [acIntent[i] EXCEPT !.requested = TRUE])
    /\ AcCleanGoto(i, "authorized")
    /\ UNCHANGED <<acKind, acLease, acPc, acLocal, acShared, acPost, acRecords>>

\* owned_records asks the provider
AcLook(i) ==
    /\ acClean[i] = "authorized"
    /\ AcCleanGoto(i, IF i \in acRecords THEN "seen" ELSE "absent")
    /\ UNCHANGED <<acKind, acLease, acPc, acLocal, acShared, acIntent, acPost, acRecords>>

\* Dns01Mutation::ObservedCreation
AcObserve(i) ==
    /\ acClean[i] = "seen"
    /\ AcSave(i, [acIntent[i] EXCEPT !.observed = TRUE])
    /\ AcCleanGoto(i, "found")
    /\ UNCHANGED <<acKind, acLease, acPc, acLocal, acShared, acPost, acRecords>>

AcDelete(i) ==
    /\ acClean[i] = "found" /\ AcMayClean(i)
    /\ acRecords' = acRecords \ {i}
    /\ AcCleanGoto(i, "deleted")
    /\ UNCHANGED <<acKind, acLease, acPc, acLocal, acShared, acIntent, acPost>>

\* Dns01Mutation::CompleteCleanup, or RetryCleanup when the outcome of the
\* creation is unknown
AcComplete(i) ==
    /\ acClean[i] \in {"absent", "deleted"}
    /\ AcSave(i, IF AcResolved(i) THEN AcNoIntent ELSE acIntent[i])
    /\ AcCleanGoto(i, "idle")
    /\ UNCHANGED <<acKind, acLease, acPc, acLocal, acShared, acPost, acRecords>>

\* a request fails, the cleanup lease is lost or its process dies
AcCleanStops(i) ==
    /\ acClean[i] # "idle" /\ AcCleanGoto(i, "idle")
    /\ UNCHANGED <<acKind, acLease, acPc, acLocal, acShared, acIntent, acPost,
                   acRecords>>

AcCleanup(i) ==
    AcAuthorize(i) \/ AcLook(i) \/ AcObserve(i) \/ AcDelete(i) \/ AcComplete(i)

AcIssue(i) ==
    \/ AcAcquire(i) \/ AcPublishLocal(i) \/ AcPublishShared(i) \/ AcFinishHttp(i)
    \/ AcPublishDns(i) \/ AcPublished(i) \/ AcRejected(i) \/ AcPropagated(i)
    \/ AcFinishDns(i) \/ AcAbort(i)

AcNext ==
    \/ AcLeaseLost
    \/ \E i \in AcIds : AcIssue(i) \/ AcProvider(i) \/ AcCleanup(i) \/ AcCleanStops(i)

AcSpec == AcInit /\ [][AcNext]_acVars

-----------------------------------------------------------------------------
AcVisible(i) ==
    CASE acKind = "local" -> AcLookupLocal = i
      [] acKind = "shared" -> AcLookupShared = i
      [] OTHER -> i \in acRecords

\* While an attempt waits for the ACME server and its job is live, the proof
\* it published stays visible: neither the cleanup of an earlier attempt,
\* which may have had the same token, nor the recovery monitor withdraws it.
AcChallengeStays ==
    \A i \in AcIds : acPc[i] = "ready" /\ acLease = i => AcVisible(i)

\* No TXT record outlives its intent: whatever is lost, delayed or killed
\* between the creation request and the cleanup, a record at the provider
\* still has a journal row from which the monitor will find and delete it.
AcNoOrphan == \A i \in acRecords : acIntent[i].there

\* The challenges are kept as long as they are needed and no longer.
AcChallengesTracked == AcChallengeStays /\ AcNoOrphan
=============================================================================
