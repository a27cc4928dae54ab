---------------------------- MODULE FleetBundles ----------------------------
(***************************************************************************)
(* Policies that servers push to each other: what a peer does with a       *)
(* bundle (Fb) and the exchange between servers (Fs).                      *)
(***************************************************************************)
EXTENDS Naturals, FiniteSets

(***************************************************************************)
(* Fleet Bundle v2: a source server pushes the whole set of its policies   *)
(* as a numbered bundle; reconcile installs it in one transaction beside   *)
(* the policies managed locally (policy_service*.rs, main.rs), and the     *)
(* Fleet ledger records what became of each generation                     *)
(* (fleet_coordination.rs). Local policy requests run at the same time.    *)
(* A resource's name stands for the policy id derived from it.             *)
(***************************************************************************)
CONSTANTS
    FbBundles,    \* bundles that may arrive: [src, gen, rev, res], res a set
                  \* of [res, kind, port, val, ctl, ref], ref = "" for none
    FbLocal,      \* policies the operator may create: [id, kind, port]
    FbHandlers,   \* concurrent requests
    FbShared,     \* backends the server may run on, TRUE is PostgreSQL
    FbMaxOps,     \* bound on the requests served
    FbMaxVal      \* bound on the values local edits write

\* validate_structure of a bundle
FbValid(b) ==
    /\ b.gen \in Nat \ {0}
    /\ \A x, y \in b.res : x # y => x.res # y.res

\* a revision is the digest of a bundle's contents, and the ids of local
\* policies are random, so that none is also derived from a resource
ASSUME FbAssumption ==
    /\ FbShared \subseteq BOOLEAN
    /\ FbMaxOps \in Nat /\ FbMaxVal \in Nat /\ "" \notin FbHandlers
    /\ \A b \in FbBundles : FbValid(b)
    /\ \A b, c \in FbBundles : b.src = c.src /\ b.rev = c.rev => b.res = c.res
    /\ \A p \in FbLocal : \A b \in FbBundles : \A x \in b.res : p.id # x.res

VARIABLES
    fbPg,      \* the policies are in PostgreSQL
    fbRows,    \* policy tables: [id, kind, port, val]
    fbCtl,     \* traffic controls: [id, ctl]
    fbOwn,     \* fleet_resource_ownership: [src, res, id, kind, ref, sha]
    fbBind,    \* fleet_credential_bindings: [src, ref, id]
    fbState,   \* fleet_source_states per source, gen = 0 for none
    fbLedger,  \* fleet_generations per source, gen = 0 for none
    fbConf,    \* fleet_conflicts: [src, gen, res]
    fbClient,  \* the client the policies belong to is enabled
    fbLock,    \* holder of policy_mutation_lock, "" for none
    fbReq,     \* what each handler is serving
    fbOps      \* requests served

fbDb == <<fbRows, fbCtl, fbOwn, fbBind, fbState>>
fbLog == <<fbLedger, fbConf>>
fbVars == <<fbPg, fbDb, fbLog, fbClient, fbLock, fbReq, fbOps>>

FbSources == {b.src : b \in FbBundles}
FbSpecs == UNION {b.res : b \in FbBundles}
FbRefs == {x.ref : x \in FbSpecs} \ {""}
FbNoGen == [gen |-> 0, rev |-> ""]
FbIdle == [pc |-> "idle"]

FbInit ==
    /\ fbPg \in FbShared
    /\ fbRows = {} /\ fbCtl = {} /\ fbOwn = {} /\ fbBind = {}
    /\ fbState = [s \in FbSources |-> FbNoGen]
    /\ fbLedger = [s \in FbSources |-> [gen |-> 0, rev |-> "", state |-> "none",
                                        progress |-> 0]]
    /\ fbConf = {}
    /\ fbClient = TRUE /\ fbLock = ""
    /\ fbReq = [h \in FbHandlers |-> FbIdle]
    /\ fbOps = 0

FbStart(h, req) ==
    /\ fbReq[h] = FbIdle
    /\ fbOps < FbMaxOps /\ fbOps' = fbOps + 1
    /\ fbReq' = [fbReq EXCEPT ![h] = req]
FbGoto(h, req) == fbReq' = [fbReq EXCEPT ![h] = req] /\ UNCHANGED fbOps
FbUnlock(h) == fbLock' = IF fbLock = h THEN "" ELSE fbLock

-----------------------------------------------------------------------------
(* The ledger of generations *)

FbValidTransition(from, to) ==
    \/ from = to
    \/ <<from, to>> \in
         {<<"pending", "applying">>, <<"pending", "conflicted">>,
          <<"pending", "failed">>, <<"applying", "ready">>,
          <<"applying", "conflicted">>, <<"applying", "failed">>,
          <<"conflicted", "applying">>, <<"conflicted", "ready">>,
          <<"conflicted", "failed">>}

\* calculate_generation_update returns an error
FbLedgerRefuses(b, state, progress) ==
    LET cur == fbLedger[b.src]
    IN  \/ /\ b.gen = cur.gen
           /\ \/ b.rev # cur.rev
              \/ progress < cur.progress
              \/ ~FbValidTransition(cur.state, state)
        \/ /\ state = "ready"
           /\ \E c \in fbConf : c.src = b.src /\ c.gen = b.gen

\* an older generation is left unrecorded without an error
FbLedgerAfter(b, state, progress) ==
    IF b.gen < fbLedger[b.src].gen \/ FbLedgerRefuses(b, state, progress)
    THEN fbLedger
    ELSE [fbLedger EXCEPT ![b.src] = [gen |-> b.gen, rev |-> b.rev,
                                      state |-> state, progress |-> progress]]

\* record_conflict: the conflicts of the generation the ledger is at
FbRecordConflicts(b, found) ==
    IF fbLedger[b.src].gen = b.gen
    THEN /\ fbConf' = fbConf \cup
              {[src |-> b.src, gen |-> b.gen, res |-> x.res] : x \in found}
         /\ fbLedger' = [fbLedger EXCEPT ![b.src].state = "conflicted"]
    ELSE UNCHANGED fbLog

-----------------------------------------------------------------------------
(* Planning a bundle *)

\* port_reservations: SOCKS5 uses its port for TCP and for the UDP relay
FbEndpoints(kind, port) ==
    CASE kind = "socks5" -> {<<"tcp", port>>, <<"udp", port>>}
      [] kind = "udp" -> {<<"udp", port>>}
      [] kind = "http" -> {<<"host", port>>}
      [] OTHER -> {<<"tcp", port>>}

\* what reconcile compares: in SQLite load_public_ports and validate_plan
\* know SOCKS5 as a TCP port only
FbCompared(kind, port) ==
    IF kind = "socks5" /\ ~fbPg THEN {<<"tcp", port>>}
                                ELSE FbEndpoints(kind, port)

FbOwned(s) == {o \in fbOwn : o.src = s}
FbOldOf(s, x) == {o \in FbOwned(s) : o.res = x.res}
FbManaged(id) == \E o \in fbOwn : o.id = id
FbRow(id) == {r \in fbRows : r.id = id}
FbBound(s, x) == {k.id : k \in {k \in fbBind : k.src = s /\ k.ref = x.ref}}

FbPolicyIds(s, x) == IF x.ref = "" THEN {x.res} ELSE FbBound(s, x)

\* the resource cannot be planned: it changed its kind or its credential,
\* its credential is bound to no policy or to another than before, or the
\* policy id derived for it is in use
FbUnplannable(s, x) ==
    LET old == FbOldOf(s, x)
        ids == FbPolicyIds(s, x)
    IN  \/ \E o \in old : o.kind # x.kind \/ o.ref # x.ref
        \/ ids = {}
        \/ \E id \in ids :
             \/ x.ref # "" /\ \A r \in FbRow(id) : r.kind # x.kind
             \/ x.ref # "" /\ \E o \in old : o.id # id
             \/ x.ref = "" /\ old = {} /\ FbRow(id) # {}

\* PostgreSQL also refuses a policy that another resource owns
FbPlanFails(s, x) ==
    \/ FbUnplannable(s, x)
    \/ /\ fbPg
       /\ \E o \in fbOwn : /\ o.id \in FbPolicyIds(s, x)
                           /\ o.src # s \/ o.res # x.res

FbPlannable(b) == {x \in b.res : ~FbPlanFails(b.src, x)}
FbPlannedId(b, x) == CHOOSE id \in FbPolicyIds(b.src, x) : TRUE

\* the credential or an endpoint of x is also wanted by another resource of
\* the bundle
FbWantedTwice(b, x) ==
    \E y \in FbPlannable(b) \ {x} :
       \/ x.ref # "" /\ x.ref = y.ref
       \/ FbCompared(x.kind, x.port) \cap FbCompared(y.kind, y.port) # {}

\* or belongs to a policy neither planned nor owned by this source
FbTaken(b, x) ==
    \/ FbWantedTwice(b, x)
    \/ \E r \in fbRows :
          /\ ~ \E y \in FbPlannable(b) : FbPlannedId(b, y) = r.id
          /\ ~ \E o \in FbOwned(b.src) : o.id = r.id
          /\ FbCompared(x.kind, x.port) \cap FbCompared(r.kind, r.port) # {}

FbConflicts(b) ==
    {x \in b.res : FbPlanFails(b.src, x) \/ FbTaken(b, x)}

FbNewRow(b, x) ==
    [id |-> FbPlannedId(b, x), kind |-> x.kind, port |-> x.port, val |-> x.val]

FbPolicyMatches(b, x) == FbNewRow(b, x) \in fbRows

\* the stored digest or the stored policy differs from the resource
FbWriteRequired(b, x) ==
    \/ ~ \E o \in FbOldOf(b.src, x) : o.sha = [val |-> x.val, port |-> x.port]
    \/ ~FbPolicyMatches(b, x)

FbObsolete(b) ==
    {o \in FbOwned(b.src) : \A x \in b.res : x.res # o.res}
FbWanted(b) == {[id |-> FbPlannedId(b, x), ctl |-> x.ctl] :
                  x \in {x \in b.res : x.ctl # 0}}
FbPlanIds(b) == {FbPlannedId(b, x) : x \in b.res}
FbControlsMatch(b) == {c \in fbCtl : c.id \in FbPlanIds(b)} = FbWanted(b)

FbNothingToDo(b) ==
    /\ FbObsolete(b) = {}
    /\ \A x \in b.res : ~FbWriteRequired(b, x)
    /\ FbControlsMatch(b)

FbRefused(b, exp) ==
    LET cur == fbState[b.src]
    IN  \/ exp # 0 /\ exp # cur.gen
        \/ b.gen < cur.gen
        \/ b.gen = cur.gen /\ b.rev # cur.rev

FbToWrite(b) == {x \in b.res : FbWriteRequired(b, x)}
FbGoneIds(b) == {o.id : o \in FbObsolete(b)}
FbOwnership(b, x) ==
    [src |-> b.src, res |-> x.res, id |-> FbPlannedId(b, x), kind |-> x.kind,
     ref |-> x.ref, sha |-> [val |-> x.val, port |-> x.port]]

\* changed rows are removed before any is written, so that two resources may
\* exchange their ports
FbRowsAfter(b) ==
    {r \in fbRows : r.id \notin FbGoneIds(b) \cup
                    {FbPlannedId(b, x) : x \in FbToWrite(b)}}
      \cup {FbNewRow(b, x) : x \in FbToWrite(b)}

FbOwnAfter(b) ==
    {o \in fbOwn \ FbObsolete(b) :
       o.id \notin {FbPlannedId(b, x) : x \in FbToWrite(b)}}
      \cup {FbOwnership(b, x) : x \in FbToWrite(b)}

FbControlsAfter(b) ==
    {c \in fbCtl : c.id \notin FbGoneIds(b) \cup FbPlanIds(b)} \cup FbWanted(b)

FbBindingsAfter(b) ==
    {k \in fbBind : ~(k.src = b.src /\ k.id \in FbGoneIds(b))}

\* one transaction
FbApply(b) ==
    /\ fbRows' = FbRowsAfter(b)
    /\ fbOwn' = FbOwnAfter(b)
    /\ fbCtl' = FbControlsAfter(b)
    /\ fbBind' = FbBindingsAfter(b)
    /\ fbState' = [fbState EXCEPT ![b.src] = [gen |-> b.gen, rev |-> b.rev]]

\* every client the bundle refers to is enrolled and enabled
FbClientsResolve == fbClient

-----------------------------------------------------------------------------
(* reconcile_fleet_bundle_v2 *)

\* the generation is recorded as applying before the lock is taken
FbSubmit(h, b, dry, exp) ==
    /\ LET req == [pc |-> "queued", b |-> b, dry |-> dry, exp |-> exp]
       IN  IF dry
           THEN FbStart(h, req) /\ UNCHANGED fbLedger
           ELSE IF FbLedgerRefuses(b, "applying", 1)
                THEN FbStart(h, FbIdle) /\ UNCHANGED fbLedger
                ELSE FbStart(h, req)
                     /\ fbLedger' = FbLedgerAfter(b, "applying", 1)
    /\ UNCHANGED <<fbPg, fbDb, fbConf, fbClient, fbLock>>

FbReconcile(h) ==
    /\ fbReq[h].pc = "queued" /\ fbLock = ""
    /\ fbLock' = h
    /\ LET b == fbReq[h].b
           done(out, found) ==
             FbGoto(h, [pc |-> "reconciled", b |-> b, dry |-> fbReq[h].dry,
                        out |-> out, found |-> found])
       IN  IF ~FbClientsResolve \/ FbRefused(b, fbReq[h].exp)
           THEN done("error", {}) /\ UNCHANGED fbDb
           ELSE IF FbConflicts(b) # {}
           THEN done("conflict", FbConflicts(b)) /\ UNCHANGED fbDb
           ELSE IF fbReq[h].dry \/ (fbState[b.src].gen = b.gen /\ FbNothingToDo(b))
           THEN done("unchanged", {}) /\ UNCHANGED fbDb
           ELSE done("applied", {}) /\ FbApply(b)
    /\ UNCHANGED <<fbPg, fbLog, fbClient>>

\* the outcome is recorded; when the ledger refuses it the handler returns
\* at once, before the conflicts are recorded
FbReport(h) ==
    /\ fbReq[h].pc = "reconciled"
    /\ LET b == fbReq[h].b
           out == fbReq[h].out
       IN  \/ fbReq[h].dry /\ UNCHANGED fbLog
           \/ /\ ~fbReq[h].dry /\ out = "error"
              /\ fbLedger' = FbLedgerAfter(b, "failed", 0) /\ UNCHANGED fbConf
           \/ /\ ~fbReq[h].dry /\ out = "conflict"
              /\ IF FbLedgerRefuses(b, "conflicted", 0)
                 THEN UNCHANGED fbLog
                 ELSE FbRecordConflicts(b, fbReq[h].found)
           \/ /\ ~fbReq[h].dry /\ out \in {"unchanged", "applied"}
              /\ fbLedger' = FbLedgerAfter(b, "ready", 100) /\ UNCHANGED fbConf
    /\ FbUnlock(h) /\ FbGoto(h, FbIdle)
    /\ UNCHANGED <<fbPg, fbDb, fbClient>>

-----------------------------------------------------------------------------
(* Local requests *)

\* mutant: the ownership check does not keep the lock for the handler
FbCheckUnlocked(h, id, op) ==
    /\ fbLock = "" /\ fbLock' = ""
    /\ FbRow(id) # {}
    /\ FbStart(h, IF FbManaged(id) THEN FbIdle ELSE [pc |-> op, id |-> id])
    /\ UNCHANGED <<fbPg, fbDb, fbLog, fbClient>>

\* enforce_fleet_ownership: the lock is held until the handler is done
FbCheckOwnership(h, id, op) ==
    /\ fbLock = ""
    /\ FbRow(id) # {}
    /\ FbStart(h, IF FbManaged(id) THEN FbIdle ELSE [pc |-> op, id |-> id])
    /\ fbLock' = IF FbManaged(id) THEN "" ELSE h
    /\ UNCHANGED <<fbPg, fbDb, fbLog, fbClient>>

\* the handler's write; in PostgreSQL ensure_unmanaged is checked again in
\* the transaction
FbEdit(h) ==
    /\ fbReq[h].pc = "edit"
    /\ LET id == fbReq[h].id
       IN  IF fbPg /\ FbManaged(id)
           THEN UNCHANGED fbRows
           ELSE \E v \in 1..FbMaxVal :
                   fbRows' = {r \in fbRows : r.id # id} \cup
                             {[r EXCEPT !.val = v] : r \in FbRow(id)}
    /\ FbUnlock(h) /\ FbGoto(h, FbIdle)
    /\ UNCHANGED <<fbPg, fbCtl, fbOwn, fbBind, fbState, fbLog, fbClient>>

FbDelete(h) ==
    /\ fbReq[h].pc = "delete"
    /\ LET id == fbReq[h].id
       IN  fbRows' = IF fbPg /\ FbManaged(id)
                     THEN fbRows ELSE {r \in fbRows : r.id # id}
    /\ FbUnlock(h) /\ FbGoto(h, FbIdle)
    /\ UNCHANGED <<fbPg, fbCtl, fbOwn, fbBind, fbState, fbLog, fbClient>>

FbControl(h) ==
    /\ fbReq[h].pc = "control"
    /\ LET id == fbReq[h].id
       IN  IF fbPg /\ FbManaged(id)
           THEN UNCHANGED fbCtl
           ELSE fbCtl' = {c \in fbCtl : c.id # id} \cup {[id |-> id, ctl |-> 9]}
    /\ FbUnlock(h) /\ FbGoto(h, FbIdle)
    /\ UNCHANGED <<fbPg, fbRows, fbOwn, fbBind, fbState, fbLog, fbClient>>

FbFree(p) ==
    \A r \in fbRows :
       FbEndpoints(p.kind, p.port) \cap FbEndpoints(r.kind, r.port) = {}
FbCreated(p) == [id |-> p.id, kind |-> p.kind, port |-> p.port, val |-> 1]

\* a create is not an ownership mutation, so it takes no lock; in PostgreSQL
\* the check and the insert are one transaction under an advisory lock
FbCreateShared(h, p) ==
    /\ fbPg /\ FbRow(p.id) = {}
    /\ FbStart(h, FbIdle)
    /\ fbRows' = IF FbFree(p) THEN fbRows \cup {FbCreated(p)} ELSE fbRows
    /\ UNCHANGED <<fbPg, fbCtl, fbOwn, fbBind, fbState, fbLog, fbClient, fbLock>>

\* in SQLite a create reads the other tables first
FbCreateCheck(h, p) ==
    /\ ~fbPg /\ FbRow(p.id) = {}
    /\ \A g \in FbHandlers : fbReq[g].pc # "insert"
    /\ FbStart(h, IF FbFree(p) THEN [pc |-> "insert", p |-> p] ELSE FbIdle)
    /\ UNCHANGED <<fbPg, fbDb, fbLog, fbClient, fbLock>>

\* and then inserts; only the port's uniqueness in its own table is checked
FbCreateInsert(h) ==
    /\ fbReq[h].pc = "insert"
    /\ LET p == fbReq[h].p
       IN  fbRows' = IF \E r \in fbRows : r.kind = p.kind /\ r.port = p.port
                     THEN fbRows ELSE fbRows \cup {FbCreated(p)}
    /\ FbGoto(h, FbIdle)
    /\ UNCHANGED <<fbPg, fbCtl, fbOwn, fbBind, fbState, fbLog, fbClient, fbLock>>

-----------------------------------------------------------------------------
(* Credential bindings, source reset, clients, restart: none takes the lock *)

FbBindCredential(h, s, k, id) ==
    /\ FbStart(h, FbIdle)
    /\ \E r \in FbRow(id) : r.kind = "socks5"
    /\ ~FbManaged(id)
    /\ ~ \E e \in fbBind : e.id = id /\ (e.src # s \/ e.ref # k)
    /\ fbPg => ~ \E e \in fbBind : e.src = s /\ e.ref = k /\ FbManaged(e.id)
    /\ fbBind' = {e \in fbBind : ~(e.src = s /\ e.ref = k)} \cup
                 {[src |-> s, ref |-> k, id |-> id]}
    /\ UNCHANGED <<fbPg, fbRows, fbCtl, fbOwn, fbState, fbLog, fbClient, fbLock>>

\* the policy stays, owned by nobody
FbUnbind(h, s, k) ==
    /\ FbStart(h, FbIdle)
    /\ \E e \in fbBind :
          /\ e.src = s /\ e.ref = k
          /\ fbBind' = fbBind \ {e}
          /\ fbOwn' = {o \in fbOwn : ~(o.src = s /\ o.id = e.id /\ o.ref = k)}
    /\ UNCHANGED <<fbPg, fbRows, fbCtl, fbState, fbLog, fbClient, fbLock>>

FbResetSource(h, s) ==
    /\ FbStart(h, FbIdle)
    /\ fbState[s].gen # 0
    /\ fbState' = [fbState EXCEPT ![s] = FbNoGen]
    /\ UNCHANGED <<fbPg, fbRows, fbCtl, fbOwn, fbBind, fbLog, fbClient, fbLock>>

FbToggleClient(h) ==
    /\ FbStart(h, FbIdle)
    /\ fbClient' = ~fbClient
    /\ UNCHANGED <<fbPg, fbDb, fbLog, fbLock>>

FbRestart ==
    /\ \E h \in FbHandlers : fbReq[h] # FbIdle
    /\ fbReq' = [h \in FbHandlers |-> FbIdle]
    /\ fbLock' = ""
    /\ UNCHANGED <<fbPg, fbDb, fbLog, fbClient, fbOps>>

FbIds == {p.id : p \in FbLocal} \cup {x.res : x \in FbSpecs}

FbHandlerStep(h) ==
    \/ \E b \in FbBundles, dry \in BOOLEAN, exp \in 0..1 : FbSubmit(h, b, dry, exp)
    \/ FbReconcile(h) \/ FbReport(h)
    \/ \E id \in FbIds, op \in {"edit", "delete", "control"} :
          FbCheckOwnership(h, id, op)
    \/ FbEdit(h) \/ FbDelete(h) \/ FbControl(h)
    \/ \E p \in FbLocal : FbCreateShared(h, p) \/ FbCreateCheck(h, p)
    \/ FbCreateInsert(h)
    \/ \E s \in FbSources, k \in FbRefs :
          FbUnbind(h, s, k) \/ \E id \in FbIds : FbBindCredential(h, s, k, id)
    \/ \E s \in FbSources : FbResetSource(h, s)
    \/ FbToggleClient(h)

FbNext == (\E h \in FbHandlers : FbHandlerStep(h)) \/ FbRestart

FbSpec == FbInit /\ [][FbNext]_fbVars

-----------------------------------------------------------------------------
\* What a source owns is what its recorded generation says: the policies
\* and traffic controls of the bundle, no resource of an earlier bundle, and
\* every resource except one whose credential was unbound. Local requests,
\* restarts and late bundles of any source never disturb it.
FbAppliedExactly ==
    \A b \in FbBundles :
       fbState[b.src] = [gen |-> b.gen, rev |-> b.rev] =>
         /\ \A o \in FbOwned(b.src) : \E x \in b.res :
               /\ x.res = o.res
               /\ [id |-> o.id, kind |-> x.kind, port |-> x.port, val |-> x.val]
                    \in fbRows
               /\ {c.ctl : c \in {c \in fbCtl : c.id = o.id}} = {x.ctl} \ {0}
         /\ \A x \in b.res : x.ref = "" => FbOldOf(b.src, x) # {}

FbDistinct ==
    \A r, q \in fbRows :
       r # q => FbEndpoints(r.kind, r.port) \cap FbEndpoints(q.kind, q.port) = {}

\* With PostgreSQL no two policies ever claim the same public endpoint,
\* whichever of local creates and reconciles of several sources made them.
FbSharedDistinct == fbPg => FbDistinct

\* A request that found conflicts leaves them in the ledger, where the
\* operator is told to look for them.
FbConflictRecorded ==
    [][\A h \in FbHandlers :
         (/\ FbReport(h)
          /\ fbReq[h].out = "conflict" /\ ~fbReq[h].dry
          /\ fbLedger[fbReq[h].b.src].gen = fbReq[h].b.gen)
         => \E c \in fbConf' :
               c.src = fbReq[h].b.src /\ c.gen = fbReq[h].b.gen]_fbVars

\* Sources own what their generations say, and no endpoint is claimed twice.
FbOwnershipExact == FbAppliedExactly /\ FbSharedDistinct

(***************************************************************************)
(* Servers that push their policies to each other: export_bundle numbers a *)
(* snapshot, sync_fleet_policies sends it to every enabled peer, and a     *)
(* peer without the v2 route gets the add-only v1 import instead.          *)
(* The part above models what a peer does with a bundle; here the peer's   *)
(* side is reduced to the generation test, the endpoint test and the       *)
(* replacement of what it holds from that source. The policies are TCP or  *)
(* UDP tunnels, which need no credential and so no binding.                *)
(***************************************************************************)
CONSTANTS
    FsServers,   \* the servers of the Fleet
    FsPorts,     \* public ports, and the names of policies
    FsMaxEdits,  \* bound on what operators change
    FsMaxSyncs   \* bound on syncs

\* a server has a name, which its bundles carry as their source
ASSUME FsAssumption ==
    FsMaxEdits \in Nat /\ FsMaxSyncs \in Nat /\ "" \notin FsServers

VARIABLES
    fsPol,    \* policies of each server: [name, port, owner], owner = "" for
              \* a policy managed locally
    fsGen,    \* fleet_local_state.generation
    fsState,  \* generation each server last installed from each source
    fsNet,    \* requests that may still arrive, any number of times
    fsV2,     \* the server runs a version with Fleet Bundle v2
    fsPeer,   \* the peer rows: <<server, peer>> that are enabled
    fsVer,    \* changes made so far to the policies a server manages locally
    fsHas,    \* the most of a source's changes in any snapshot a server has
              \* installed since the source was last reset there
    fsCount   \* [edits, syncs]

fsVars == <<fsPol, fsGen, fsState, fsNet, fsV2, fsPeer, fsVer, fsHas, fsCount>>

FsPairs == {p \in FsServers \X FsServers : p[1] # p[2]}

FsInit ==
    /\ fsPol = [n \in FsServers |-> {}]
    /\ fsGen = [n \in FsServers |-> 0]
    /\ fsState = [n \in FsServers |-> [m \in FsServers |-> 0]]
    /\ fsNet = {}
    /\ fsV2 = [n \in FsServers |-> FALSE]
    /\ fsPeer = FsPairs
    /\ fsVer = [n \in FsServers |-> 0]
    /\ fsHas = [n \in FsServers |-> [m \in FsServers |-> 0]]
    /\ fsCount = [edits |-> 0, syncs |-> 0]

FsOperator ==
    /\ fsCount.edits < FsMaxEdits
    /\ fsCount' = [fsCount EXCEPT !.edits = @ + 1]

FsManaged(n, m) == {r \in fsPol[n] : r.owner = m}
FsLocal(n) == FsManaged(n, "")
FsOwnedBy(m, pol) == {[r EXCEPT !.owner = m] : r \in pol}

\* a local create; a public port is unique on a server, a name is not
FsCreate(n, name, port) ==
    /\ FsOperator
    /\ \A r \in fsPol[n] : r.port # port
    /\ fsPol' = [fsPol EXCEPT ![n] = @ \cup
                   {[name |-> name, port |-> port, owner |-> ""]}]
    /\ fsVer' = [fsVer EXCEPT ![n] = @ + 1]
    /\ UNCHANGED <<fsGen, fsState, fsNet, fsV2, fsPeer, fsHas>>

FsRemove(n, r) ==
    /\ FsOperator
    /\ r.owner = ""
    /\ fsPol' = [fsPol EXCEPT ![n] = @ \ {r}]
    /\ fsVer' = [fsVer EXCEPT ![n] = @ + 1]
    /\ UNCHANGED <<fsGen, fsState, fsNet, fsV2, fsPeer, fsHas>>

FsTogglePeer(n, m) ==
    /\ FsOperator
    /\ fsPeer' = IF <<n, m>> \in fsPeer THEN fsPeer \ {<<n, m>>}
                                        ELSE fsPeer \cup {<<n, m>>}
    /\ UNCHANGED <<fsPol, fsGen, fsState, fsNet, fsV2, fsVer, fsHas>>

\* reset_fleet_source_v2 forgets the generation and keeps the policies
FsReset(n, m) ==
    /\ FsOperator
    /\ fsState[n][m] # 0
    /\ fsState' = [fsState EXCEPT ![n][m] = 0]
    /\ fsHas' = [fsHas EXCEPT ![n][m] = 0]
    /\ UNCHANGED <<fsPol, fsGen, fsNet, fsV2, fsPeer, fsVer>>

\* mutant: policies installed by a source are exported again
FsExportedEcho(n) == fsPol[n]

\* export_resources without excluded_local_policies
FsExported(n) == FsLocal(n)

\* the v1 export has every TCP and UDP policy
FsLegacyExported(n) == fsPol[n]

\* one transaction reads the policies and reserves the generation
FsBundle(n) ==
    [from |-> n, gen |-> fsGen[n] + 1, ver |-> fsVer[n],
     v2 |-> FsExported(n), v1 |-> FsLegacyExported(n)]

\* the requests to the peers carry the same snapshot; a version without v2
\* sends the v1 import at once
FsSync(n) ==
    /\ fsCount.syncs < FsMaxSyncs
    /\ fsCount' = [fsCount EXCEPT !.syncs = @ + 1]
    /\ fsGen' = IF fsV2[n] THEN [fsGen EXCEPT ![n] = @ + 1] ELSE fsGen
    /\ fsNet' = fsNet \cup
         {[to |-> m, v2 |-> fsV2[n], b |-> FsBundle(n)] :
            m \in {m \in FsServers : <<n, m>> \in fsPeer}}
    /\ UNCHANGED <<fsPol, fsState, fsV2, fsPeer, fsVer, fsHas>>

\* mutant: the generation recorded for the source is not looked at
FsStaleNever(m) == FALSE

FsStale(m) == m.b.gen < fsState[m.to][m.b.from]

FsClash(m) ==
    \E r \in fsPol[m.to], x \in m.b.v2 :
       r.owner # m.b.from /\ r.port = x.port

FsLarger(a, b) == IF a < b THEN b ELSE a

\* reconcile: refused as stale, refused with conflicts, or the source's
\* policies are replaced
FsReconcile(m) ==
    /\ m.v2 /\ fsV2[m.to]
    /\ ~FsStale(m) /\ ~FsClash(m)
    /\ fsPol' = [fsPol EXCEPT ![m.to] =
                   (@ \ FsManaged(m.to, m.b.from)) \cup FsOwnedBy(m.b.from, m.b.v2)]
    /\ fsState' = [fsState EXCEPT ![m.to][m.b.from] = m.b.gen]
    /\ fsHas' = [fsHas EXCEPT ![m.to][m.b.from] = FsLarger(@, m.b.ver)]
    /\ UNCHANGED <<fsGen, fsNet, fsV2, fsPeer, fsVer, fsCount>>

\* 404: the sender falls back to the import
FsNoRoute(m) ==
    /\ m.v2 /\ ~fsV2[m.to]
    /\ fsNet' = fsNet \cup {[to |-> m.to, v2 |-> FALSE, b |-> m.b]}
    /\ UNCHANGED <<fsPol, fsGen, fsState, fsV2, fsPeer, fsVer, fsHas, fsCount>>

\* import_policy_bundle: what is new by name and has a free port is added as
\* the server's own policy, the rest is reported. The route stays in v2.
FsImport(m) ==
    /\ ~m.v2
    /\ LET new == {x \in m.b.v1 : \A r \in fsPol[m.to] :
                                    r.name # x.name /\ r.port # x.port}
       IN  /\ new # {}
           /\ fsPol' = [fsPol EXCEPT ![m.to] = @ \cup FsOwnedBy("", new)]
    /\ fsVer' = [fsVer EXCEPT ![m.to] = @ + 1]
    /\ UNCHANGED <<fsGen, fsState, fsNet, fsV2, fsPeer, fsHas, fsCount>>

FsLost(m) ==
    /\ fsNet' = fsNet \ {m}
    /\ UNCHANGED <<fsPol, fsGen, fsState, fsV2, fsPeer, fsVer, fsHas, fsCount>>

FsUpgrade(n) ==
    /\ ~fsV2[n] /\ fsV2' = [fsV2 EXCEPT ![n] = TRUE]
    /\ UNCHANGED <<fsPol, fsGen, fsState, fsNet, fsPeer, fsVer, fsHas, fsCount>>

FsNext ==
    \/ \E n \in FsServers :
          \/ \E name \in FsPorts, port \in FsPorts : FsCreate(n, name, port)
          \/ \E r \in fsPol[n] : FsRemove(n, r)
          \/ FsSync(n) \/ FsUpgrade(n)
    \/ \E p \in FsPairs : FsTogglePeer(p[1], p[2]) \/ FsReset(p[1], p[2])
    \/ \E m \in fsNet : FsReconcile(m) \/ FsNoRoute(m) \/ FsImport(m) \/ FsLost(m)

FsSpec == FsInit /\ [][FsNext]_fsVars

-----------------------------------------------------------------------------
\* A server that has once installed everything a source changed manages for
\* it exactly what the source manages itself: no snapshot that is repeated,
\* late or from before an upgrade brings a policy back which the source has
\* removed, and none has what the source manages for others. Only a reset of
\* the source on that server makes it start anew.
FsReplicasAgree ==
    \A n, m \in FsServers :
       n # m /\ fsHas[n][m] = fsVer[m] => FsManaged(n, m) = FsOwnedBy(m, FsLocal(m))
=============================================================================
