-------------------------- MODULE UdpReassembly -----------------------------
(***************************************************************************)
(* Datagrams in pieces: the fragments of the UDP data plane (Ur) and those *)
(* of the SOCKS5 associations (Sx).                                        *)
(***************************************************************************)
EXTENDS Naturals, Sequences, FiniteSets, FiniteSetsExt, SequencesExt

(***************************************************************************)
(* linklake-core/udp_reassembly.rs: the reassembler of fragmented          *)
(* datagrams that the server and the client run for each direction of the  *)
(* UDP data plane.  Fragments are lost, repeated and reordered by QUIC     *)
(* datagrams; completed datagrams are remembered for a while, so that a    *)
(* repetition is not delivered twice.                                      *)
(***************************************************************************)
CONSTANTS
    UrFragments,      \* fragments that may arrive, [s, d, len, n, i, size, v]
    UrTimeout,        \* timeout of an incomplete datagram
    UrRetention,      \* completed_retention
    UrCleanup,        \* REASSEMBLY_CLEANUP_INTERVAL
    UrMaxBytes,       \* max_buffered_bytes
    UrMaxPerSession,  \* max_incomplete_per_session
    UrMaxIncomplete,  \* max_incomplete_datagrams
    UrMaxCompleted,   \* max_completed_datagrams
    UrMaxTime,        \* bound on the clock
    UrMaxPushes       \* bound on the fragments pushed

ASSUME UrAssumption ==
    /\ {UrTimeout, UrRetention, UrCleanup, UrMaxTime, UrMaxPushes} \subseteq Nat
    /\ {UrMaxBytes, UrMaxPerSession, UrMaxIncomplete, UrMaxCompleted}
          \subseteq Nat \ {0}

VARIABLES
    urNow,
    urPartials,   \* incomplete datagrams: a set of [key, start, len, n, got]
    urIncomplete, \* incomplete_by_session, 0 for no entry
    urCompleted,  \* completed: a set of [key, at]
    urOrder,      \* completed_order
    urBytes,      \* buffered_bytes
    urCleanupAt,  \* next_cleanup_at
    urGiven,      \* last delivery of a key not evicted or discarded: [key, at]
    urTwice,      \* a datagram was delivered again while it was remembered
    urClosed,     \* sessions discarded; their fragments are not pushed any more
    urPushes

urVars == <<urNow, urPartials, urIncomplete, urCompleted, urOrder, urBytes,
            urCleanupAt, urGiven, urTwice, urClosed, urPushes>>

UrSessions == {f.s : f \in UrFragments}
UrKey(f) == <<f.s, f.d>>

UrInit ==
    /\ urNow = 0 /\ urPartials = {}
    /\ urIncomplete = [s \in UrSessions |-> 0]
    /\ urCompleted = {} /\ urOrder = <<>>
    /\ urBytes = 0 /\ urCleanupAt = 0
    /\ urGiven = {} /\ urTwice = FALSE /\ urClosed = {} /\ urPushes = 0

\* The tables as one record: the steps of push and expire pass it on.
UrTables == [parts |-> urPartials, inc |-> urIncomplete, done |-> urCompleted,
             order |-> urOrder, bytes |-> urBytes]
UrStore(t) ==
    /\ urPartials' = t.parts /\ urIncomplete' = t.inc
    /\ urCompleted' = t.done /\ urOrder' = t.order /\ urBytes' = t.bytes

UrRemovePartials(t, gone) ==
    [t EXCEPT !.parts = @ \ gone,
              !.inc = [s \in UrSessions |-> @[s] - Cardinality({p \in gone : p.key[1] = s})],
              !.bytes = @ - MapThenSumSet(LAMBDA p : p.len, gone)]

\* the entry of the queue still describes the completed datagram
UrCurrent(t, x) == x \in t.done

UrForget(t, x) == [t EXCEPT !.done = @ \ {x}]

\* mutant: the timeout of incomplete datagrams is taken for the retention
UrRetainedBriefly(x) == urNow - x.at < UrTimeout
UrRetained(x) == urNow - x.at < UrRetention

RECURSIVE UrExpireCompleted(_)
UrExpireCompleted(t) ==
    IF t.order = <<>> \/ (UrCurrent(t, Head(t.order)) /\ UrRetained(Head(t.order)))
    THEN t
    ELSE UrExpireCompleted(UrForget([t EXCEPT !.order = Tail(@)], Head(t.order)))

UrCleaned(t) ==
    UrExpireCompleted(
        UrRemovePartials(t, {p \in t.parts : urNow - p.start >= UrTimeout}))

UrDue == urNow >= urCleanupAt
UrAfterExpire == IF UrDue THEN UrCleaned(UrTables) ELSE UrTables
UrNextCleanup == urCleanupAt' = IF UrDue THEN urNow + UrCleanup ELSE urCleanupAt

RECURSIVE UrEvictOldest(_)
UrEvictOldest(t) ==
    IF t.order = <<>> THEN t
    ELSE IF UrCurrent(t, Head(t.order))
    THEN UrForget([t EXCEPT !.order = Tail(@)], Head(t.order))
    ELSE UrEvictOldest([t EXCEPT !.order = Tail(@)])

UrCompact(t) ==
    IF Len(t.order) > 2 * UrMaxCompleted
    THEN [t EXCEPT !.order = SelectSeq(@, LAMBDA x : UrCurrent(t, x))] ELSE t

UrRemember(t, key) ==
    LET x == [key |-> key, at |-> urNow]
        room == IF Cardinality(t.done) >= UrMaxCompleted THEN UrEvictOldest(t) ELSE t
    IN UrCompact([room EXCEPT !.done = {y \in @ : y.key # key} \cup {x},
                              !.order = Append(@, x)])

UrHas(t, key) == \E p \in t.parts : p.key = key
UrPartial(t, key) == CHOOSE p \in t.parts : p.key = key

UrMayInsert(t, f) ==
    /\ Cardinality(t.parts) < UrMaxIncomplete
    /\ t.inc[f.s] < UrMaxPerSession
    /\ t.bytes + f.len <= UrMaxBytes

UrInserted(t, f) ==
    IF UrHas(t, UrKey(f)) THEN t
    ELSE [t EXCEPT !.parts = @ \cup {[key |-> UrKey(f), start |-> urNow, len |-> f.len,
                                      n |-> f.n, got |-> {}]},
                   !.inc[f.s] = @ + 1, !.bytes = @ + f.len]

UrReceived(got) == MapThenSumSet(LAMBDA g : g.size, got)
UrPart(f) == [i |-> f.i, size |-> f.size, v |-> f.v]

UrMismatch(p, f) ==
    \/ p.len # f.len \/ p.n # f.n
    \/ \E g \in p.got : g.i = f.i /\ g # UrPart(f)
    \/ UrReceived(p.got \cup {UrPart(f)}) > p.len

UrWith(t, p, f) ==
    [t EXCEPT !.parts = (@ \ {p}) \cup {[p EXCEPT !.got = @ \cup {UrPart(f)}]}]

\* the outcome of push, with the tables it leaves
UrOutcome(t, f) ==
    LET key == UrKey(f)
        t1 == UrInserted(t, f)
        p == UrPartial(t1, key)
        all == p.got \cup {UrPart(f)}
    IN IF \E x \in t.done : x.key = key THEN [out |-> "duplicate", t |-> t]
       ELSE IF f.len = 0 THEN [out |-> "complete", t |-> UrRemember(t, key)]
       ELSE IF ~UrHas(t, key) /\ ~UrMayInsert(t, f) THEN [out |-> "refused", t |-> t]
       ELSE IF UrMismatch(p, f)
       THEN [out |-> "refused", t |-> UrRemovePartials(t1, {p})]
       ELSE IF UrPart(f) \in p.got THEN [out |-> "duplicate", t |-> t1]
       ELSE IF Cardinality(all) < p.n THEN [out |-> "pending", t |-> UrWith(t1, p, f)]
       ELSE IF UrReceived(all) # p.len
       THEN [out |-> "refused", t |-> UrRemovePartials(t1, {p})]
       ELSE [out |-> "complete", t |-> UrRemember(UrRemovePartials(t1, {p}), key)]

\* the completed datagram that makes room for another one
UrEvicted(t) ==
    IF Cardinality(t.done) < UrMaxCompleted THEN {}
    ELSE {SelectSeq(t.order, LAMBDA x : UrCurrent(t, x))[1].key}

UrPush(f) ==
    LET t == UrAfterExpire
        r == UrOutcome(t, f)
    IN /\ f.s \notin urClosed
       /\ urPushes < UrMaxPushes /\ urPushes' = urPushes + 1
       /\ UrStore(r.t) /\ UrNextCleanup
       /\ IF r.out = "complete"
          THEN /\ urTwice' = (urTwice \/ \E g \in urGiven :
                                 g.key = UrKey(f) /\ urNow - g.at < UrRetention)
               /\ urGiven' = {g \in urGiven : g.key \notin UrEvicted(t) \cup {UrKey(f)}}
                                \cup {[key |-> UrKey(f), at |-> urNow]}
          ELSE UNCHANGED <<urTwice, urGiven>>
       /\ UNCHANGED <<urNow, urClosed>>

UrExpire ==
    /\ UrDue /\ UrStore(UrCleaned(UrTables)) /\ UrNextCleanup
    /\ UNCHANGED <<urNow, urGiven, urTwice, urClosed, urPushes>>

UrDiscardSession(s) ==
    /\ s \notin urClosed /\ urClosed' = urClosed \cup {s}
    /\ UrStore([UrRemovePartials(UrTables, {p \in urPartials : p.key[1] = s})
                  EXCEPT !.done = {x \in @ : x.key[1] # s}])
    /\ urGiven' = {g \in urGiven : g.key[1] # s}
    /\ UNCHANGED <<urNow, urCleanupAt, urTwice, urPushes>>

UrTick ==
    /\ urNow < UrMaxTime /\ urNow' = urNow + 1
    /\ UNCHANGED <<urPartials, urIncomplete, urCompleted, urOrder, urBytes,
                   urCleanupAt, urGiven, urTwice, urClosed, urPushes>>

UrNext ==
    \/ \E f \in UrFragments : UrPush(f)
    \/ \E s \in UrSessions : UrDiscardSession(s)
    \/ UrExpire \/ UrTick

UrSpec == UrInit /\ [][UrNext]_urVars

-----------------------------------------------------------------------------
\* The reserved memory, the per-session counts and the queue of completed
\* datagrams describe exactly what is held, after every refusal, timeout,
\* conflict and discarded session; a datagram that was remembered is found by
\* the queue that will forget it.
UrAccounting ==
    /\ urBytes = MapThenSumSet(LAMBDA p : p.len, urPartials)
    /\ urBytes <= UrMaxBytes
    /\ \A s \in UrSessions :
          urIncomplete[s] = Cardinality({p \in urPartials : p.key[1] = s})
    /\ urCompleted \subseteq ToSet(urOrder)
    /\ Cardinality(urCompleted) <= UrMaxCompleted
    /\ Len(urOrder) <= 2 * UrMaxCompleted

\* A datagram is not delivered a second time within the retention, unless it
\* was the oldest one remembered and had to make room, or its session was
\* discarded.
UrDeliveredOnce == ~urTwice

(***************************************************************************)
(* UDP ASSOCIATE of the SOCKS5 proxies: associations live as long as their *)
(* TCP connection, are bound to a public endpoint by the first datagram    *)
(* that fits exactly one of them, and their fragmented datagrams are       *)
(* reassembled (linklake-core/socks5_fragment.rs) under a budget that all  *)
(* proxies of the process share.                                           *)
(***************************************************************************)
CONSTANTS
    SxAssocs,     \* associations
    SxRuntimeOf,  \* the proxy each of them belongs to
    SxPeer,       \* the address each of them is opened from
    SxEndpoints,  \* public endpoints, pairs of an address and a port
    SxFragments,  \* fragments that may arrive, [t, seq, last, size, v]
    SxEnvelope,   \* bytes charged for the header of a datagram
    SxGap,        \* max_reorder_gap
    SxParts,      \* max_fragments_per_datagram
    SxDatagram,   \* max_bytes_per_datagram
    SxSession,    \* limits of a session: [dg, fr, by]
    SxGlobal,     \* limits of the process: [dg, fr, by]
    SxMaxPushes   \* bound on the datagrams received

ASSUME SxAssumption ==
    /\ SxRuntimeOf \in [SxAssocs -> STRING] /\ SxPeer \in [SxAssocs -> STRING]
    /\ {SxEnvelope, SxGap, SxParts, SxDatagram, SxMaxPushes} \subseteq Nat
    /\ {SxSession, SxGlobal} \subseteq [dg : Nat, fr : Nat, by : Nat]

VARIABLES
    sxPc,      \* associations: "none", "open", "removed", "queued", "closed"
    sxReq,     \* requested endpoint of an association, or "any"
    sxExt,     \* public_endpoint, or SxUnbound
    sxUp,      \* UDP runtimes that run
    sxAsm,     \* assemblies: [a, t, got, final, high]
    sxUse,     \* usage of a session
    sxGlobal,  \* the shared budget
    sxActive,  \* udp_active_associations per proxy
    sxDrain,
    sxPushes

sxFrag == <<sxAsm, sxUse, sxGlobal>>
sxVars == <<sxPc, sxReq, sxExt, sxUp, sxFrag, sxActive, sxDrain, sxPushes>>

SxRuntimes == {SxRuntimeOf[a] : a \in SxAssocs}
SxUnbound == <<"", 0>>
SxZero == [dg |-> 0, fr |-> 0, by |-> 0]

SxInit ==
    /\ sxPc = [a \in SxAssocs |-> "none"]
    /\ sxReq = [a \in SxAssocs |-> "any"] /\ sxExt = [a \in SxAssocs |-> SxUnbound]
    /\ sxUp = SxRuntimes
    /\ sxAsm = {} /\ sxUse = [a \in SxAssocs |-> SxZero] /\ sxGlobal = SxZero
    /\ sxActive = [r \in SxRuntimes |-> 0]
    /\ sxDrain = FALSE /\ sxPushes = 0

-----------------------------------------------------------------------------
(* associations *)

SxOpen(a) ==
    /\ sxPc[a] = "none" /\ ~sxDrain /\ SxRuntimeOf[a] \in sxUp
    /\ sxPc' = [sxPc EXCEPT ![a] = "open"]
    /\ \E q \in {"any", "port"} : sxReq' = [sxReq EXCEPT ![a] = q]
    /\ sxActive' = [sxActive EXCEPT ![SxRuntimeOf[a]] = @ + 1]
    /\ UNCHANGED <<sxExt, sxUp, sxFrag, sxDrain, sxPushes>>

\* the control connection ends, or the proxy is stopped
SxRemove(a) ==
    /\ sxPc[a] = "open" /\ sxPc' = [sxPc EXCEPT ![a] = "removed"]
    /\ sxExt' = [sxExt EXCEPT ![a] = SxUnbound]
    /\ UNCHANGED <<sxReq, sxUp, sxFrag, sxActive, sxDrain, sxPushes>>

SxQueueClose(a) ==
    /\ sxPc[a] = "removed"
    /\ sxPc' = [sxPc EXCEPT ![a] = IF SxRuntimeOf[a] \in sxUp THEN "queued" ELSE "closed"]
    /\ sxActive' = [sxActive EXCEPT ![SxRuntimeOf[a]] = @ - 1]
    /\ UNCHANGED <<sxReq, sxExt, sxUp, sxFrag, sxDrain, sxPushes>>

-----------------------------------------------------------------------------
(* fragments *)

SxAdd(u, v) == [dg |-> u.dg + v.dg, fr |-> u.fr + v.fr, by |-> u.by + v.by]
SxSub(u, v) == [dg |-> u.dg - v.dg, fr |-> u.fr - v.fr, by |-> u.by - v.by]
SxPayload(m) == MapThenSumSet(LAMBDA g : g.size, m.got)
\* what an assembly is charged for
SxCost(m) == [dg |-> 1, fr |-> Cardinality(m.got), by |-> SxEnvelope + SxPayload(m)]
SxCosts(s) == [dg |-> Cardinality(s), fr |-> MapThenSumSet(LAMBDA m : SxCost(m).fr, s),
               by |-> MapThenSumSet(LAMBDA m : SxCost(m).by, s)]

\* remove_assembly for a set of assemblies
SxRelease(b, gone) ==
    [asm |-> b.asm \ gone,
     use |-> [a \in SxAssocs |-> SxSub(b.use[a], SxCosts({m \in gone : m.a = a}))],
     glob |-> SxSub(b.glob, SxCosts(gone))]

SxBook == [asm |-> sxAsm, use |-> sxUse, glob |-> sxGlobal]
SxStore(b) == sxAsm' = b.asm /\ sxUse' = b.use /\ sxGlobal' = b.glob

\* reserve_new_assembly
SxReserveNew(b, a, t) ==
    LET cost == [dg |-> 1, fr |-> 0, by |-> SxEnvelope]
        m == [a |-> a, t |-> t, got |-> {}, final |-> 0, high |-> 0]
    IN IF /\ SxEnvelope <= SxDatagram
          /\ b.use[a].dg < SxSession.dg
          /\ b.use[a].by + SxEnvelope <= SxSession.by
          /\ b.glob.dg < SxGlobal.dg
          /\ b.glob.by + SxEnvelope <= SxGlobal.by
       THEN [ok |-> TRUE,
             b |-> [asm |-> b.asm \cup {m}, use |-> [b.use EXCEPT ![a] = SxAdd(@, cost)],
                    glob |-> SxAdd(b.glob, cost)]]
       ELSE [ok |-> FALSE, b |-> b]

SxMayAdd(b, m, f) ==
    /\ Cardinality(m.got) < SxParts
    /\ SxCost(m).by + f.size <= SxDatagram
    /\ b.use[m.a].fr < SxSession.fr
    /\ b.use[m.a].by + f.size <= SxSession.by
    /\ b.glob.fr < SxGlobal.fr
    /\ b.glob.by + f.size <= SxGlobal.by

SxPart(f) == [seq |-> f.seq, size |-> f.size, v |-> f.v]
SxSeqs(m) == {g.seq : g \in m.got}
SxSame(m, f) == SxPart(f) \in m.got /\ (m.final = f.seq) = f.last
SxContiguous(m) == Max({n \in 0..Cardinality(m.got) : 1..n \subseteq SxSeqs(m)})

\* a fragment that contradicts what was received: the assembly is removed
SxConflict(m, f) ==
    \/ SxGap = 0 /\ f.seq < m.high
    \/ f.seq \in SxSeqs(m) /\ (~SxSame(m, f) \/ f.last)
    \/ m.final # 0 /\ f.seq > m.final
    \/ f.last /\ m.final # 0 /\ m.final # f.seq
SxTooFar(m, f) == f.seq > SxContiguous(m) + SxGap + 1

SxWith(m, f) ==
    [m EXCEPT !.got = @ \cup {SxPart(f)}, !.high = Max({@, f.seq}),
              !.final = IF f.last THEN f.seq ELSE @]
SxComplete(m) == m.final # 0 /\ SxContiguous(m) = m.final

\* reserve_fragment and the rest of push for an assembly
SxAddFragment(b, m, f, created) ==
    LET n == SxWith(m, f)
        cost == [dg |-> 0, fr |-> 1, by |-> f.size]
        grown == [asm |-> (b.asm \ {m}) \cup {n},
                  use |-> [b.use EXCEPT ![m.a] = SxAdd(@, cost)],
                  glob |-> SxAdd(b.glob, cost)]
    IN IF ~SxMayAdd(b, m, f)
       THEN IF created THEN SxRelease(b, {m}) ELSE b
       ELSE IF SxComplete(n) THEN SxRelease(grown, {n}) ELSE grown

SxFound(b, a, t) == {m \in b.asm : m.a = a /\ m.t = t}

SxPushed(b, a, f) ==
    LET known == SxFound(b, a, f.t)
        new == SxReserveNew(b, a, f.t)
    IN IF f.seq = 0 \/ f.seq > SxParts THEN b
       ELSE IF known = {}
       THEN IF f.seq # 1 \/ ~new.ok THEN (IF f.seq # 1 THEN b ELSE new.b)
            ELSE LET m == CHOOSE m \in SxFound(new.b, a, f.t) : TRUE
                 IN SxAddFragment(new.b, m, f, TRUE)
       ELSE LET m == CHOOSE m \in known : TRUE
            IN IF SxConflict(m, f) THEN SxRelease(b, {m})
               ELSE IF SxPart(f) \in m.got \/ SxTooFar(m, f) THEN b
               ELSE SxAddFragment(b, m, f, FALSE)

-----------------------------------------------------------------------------
(* the UDP runtime of a proxy *)

SxOf(r) == {a \in SxAssocs : SxRuntimeOf[a] = r /\ sxPc[a] = "open"}
SxBound(r, e) == {a \in SxOf(r) : sxExt[a] = e}
SxCandidates(r, e) ==
    {a \in SxOf(r) : /\ sxExt[a] = SxUnbound /\ SxPeer[a] = e[1]
                     /\ sxReq[a] = "port" => e[2] = 1}

\* association_for_source: the associations a datagram of e may belong to
SxOwner(r, e) ==
    IF SxBound(r, e) # {} THEN SxBound(r, e)
    ELSE IF ~sxDrain /\ Cardinality(SxCandidates(r, e)) = 1
    THEN SxCandidates(r, e) ELSE {}

SxReceive(r, e, f) ==
    /\ r \in sxUp
    /\ sxPushes < SxMaxPushes /\ sxPushes' = sxPushes + 1
    /\ \E a \in SxOwner(r, e) :
          /\ sxExt' = [sxExt EXCEPT ![a] = e]
          /\ SxStore(SxPushed(SxBook, a, f))
    /\ UNCHANGED <<sxPc, sxReq, sxUp, sxActive, sxDrain>>

\* the queued Close, or CloseSession of the client for an open association
SxClose(a) ==
    /\ SxRuntimeOf[a] \in sxUp /\ sxPc[a] = "queued"
    /\ sxPc' = [sxPc EXCEPT ![a] = "closed"]
    /\ SxStore(SxRelease(SxBook, {m \in sxAsm : m.a = a}))
    /\ UNCHANGED <<sxReq, sxExt, sxUp, sxActive, sxDrain, sxPushes>>

SxClientCloses(a) ==
    /\ SxRuntimeOf[a] \in sxUp /\ \E m \in sxAsm : m.a = a
    /\ SxStore(SxRelease(SxBook, {m \in sxAsm : m.a = a}))
    /\ UNCHANGED <<sxPc, sxReq, sxExt, sxUp, sxActive, sxDrain, sxPushes>>

SxExpire(r) ==
    /\ r \in sxUp
    /\ \E gone \in SUBSET {m \in sxAsm : SxRuntimeOf[m.a] = r} :
          gone # {} /\ SxStore(SxRelease(SxBook, gone))
    /\ UNCHANGED <<sxPc, sxReq, sxExt, sxUp, sxActive, sxDrain, sxPushes>>

\* stop, an error or the end of the data plane; dropping the reassembler
\* returns what its assemblies hold
SxRuntimeEnds(r) ==
    /\ r \in sxUp /\ sxUp' = sxUp \ {r}
    /\ SxStore(SxRelease(SxBook, {m \in sxAsm : SxRuntimeOf[m.a] = r}))
    /\ sxPc' = [a \in SxAssocs |-> IF SxRuntimeOf[a] = r /\ sxPc[a] = "queued"
                                   THEN "closed" ELSE sxPc[a]]
    /\ UNCHANGED <<sxReq, sxExt, sxActive, sxDrain, sxPushes>>

SxBeginDrain ==
    /\ ~sxDrain /\ sxDrain' = TRUE
    /\ UNCHANGED <<sxPc, sxReq, sxExt, sxUp, sxFrag, sxActive, sxPushes>>

SxNext ==
    \/ \E a \in SxAssocs : SxOpen(a) \/ SxRemove(a) \/ SxQueueClose(a)
                           \/ SxClose(a) \/ SxClientCloses(a)
    \/ \E r \in SxRuntimes : SxExpire(r) \/ SxRuntimeEnds(r)
    \/ \E r \in SxRuntimes, e \in SxEndpoints, f \in SxFragments : SxReceive(r, e, f)
    \/ SxBeginDrain

SxSpec == SxInit /\ [][SxNext]_sxVars

-----------------------------------------------------------------------------
\* The budget that all proxies share is exactly what the assemblies hold, for
\* every session and for the process, after every refusal, conflict, timeout,
\* close and lost runtime; and only associations that are still to be closed
\* hold any of it.
SxBudgetExact ==
    /\ sxGlobal = SxCosts(sxAsm)
    /\ \A a \in SxAssocs : sxUse[a] = SxCosts({m \in sxAsm : m.a = a})
    /\ \A m \in sxAsm : sxPc[m.a] \notin {"none", "closed"}
=============================================================================
