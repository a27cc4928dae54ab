--------------------------- MODULE TunnelPairing ---------------------------
(***************************************************************************)
(* A public connection of a registered tunnel is paired with a data        *)
(* connection that the client opens on request: permits are taken, the     *)
(* connection is counted, an entry is put into pending_connections, an     *)
(* Open frame goes through the command channel to the control connection,  *)
(* and the data connection that answers with the entry's id is handed over *)
(* through a oneshot channel.  tpKind is the kind of the tunnel.  HTTP and *)
(* SNI routes bound the whole request by one deadline and watch for the    *)
(* stop all the time; the other kinds do so only once the frame is in the  *)
(* channel.  What the drain report counts of HTTP is the public TCP        *)
(* connection, not the request; here each one carries one request.         *)
(***************************************************************************)
EXTENDS Naturals, Sequences, FiniteSets

CONSTANTS
    TpKinds,        \* kinds explored
    TpConns,        \* public connections
    TpPolicyLimit,  \* permits of the policy
    TpGlobalLimit,  \* global_connection_permits
    TpPendingLimit, \* pending_connection_permits
    TpChannel       \* capacity of the command channel

ASSUME TpAssumption ==
    /\ TpPolicyLimit \in Nat /\ TpGlobalLimit \in Nat /\ TpPendingLimit \in Nat
    /\ TpChannel \in Nat \ {0}

VARIABLES
    tpKind,
    tpStall,     \* the client may stop reading its control connection
    tpDrain,     \* "no", "draining" or "resumed"
    tpStopped,   \* the registration was told to stop
    tpControl,   \* the control loop runs
    tpPc,        \* public connections
    tpActive,    \* active_connections of the statistics
    tpPending,   \* ids in pending_connections
    tpQueue,     \* command channel
    tpWire,      \* frame written to the control connection, not read yet
    tpData       \* data connection per id

tpVars == <<tpKind, tpStall, tpDrain, tpStopped, tpControl, tpPc, tpActive,
            tpPending, tpQueue, tpWire, tpData>>
tpSite == <<tpKind, tpStall>>
tpLink == <<tpStopped, tpControl, tpQueue, tpWire>>

TpDeadlineKinds == {"http", "sni"}
TpDeadline == tpKind \in TpDeadlineKinds
TpAtPc(pcs) == {c \in TpConns : tpPc[c] \in pcs}
\* connections holding a policy permit and a global permit, and a pending one
TpHolding == TpAtPc({"authorised", "admitted", "queueing", "waiting", "joined", "upgraded"})
TpHoldingPending ==
    TpAtPc({"queueing", "waiting"} \cup IF tpKind = "secret" THEN {"admitted"} ELSE {})
TpPermitsLeft ==
    Cardinality(TpHolding) < TpPolicyLimit /\ Cardinality(TpHolding) < TpGlobalLimit
TpPendingLeft == Cardinality(TpHoldingPending) < TpPendingLimit
TpDraining == tpDrain = "draining"

TpInit ==
    /\ tpKind \in TpKinds /\ tpStall \in BOOLEAN
    /\ tpDrain = "no" /\ tpStopped = FALSE /\ tpControl = TRUE
    /\ tpPc = [c \in TpConns |-> "none"]
    /\ tpActive = 0 /\ tpPending = {}
    /\ tpQueue = <<>> /\ tpWire = <<>>
    /\ tpData = [c \in TpConns |-> "none"]

TpGoto(c, pc) == tpPc' = [tpPc EXCEPT ![c] = pc]
\* ActiveConnectionGuard, ConnectionActivity, PublicHttpConnectionActivity or
\* finish_connection
TpCountIn == tpActive' = tpActive + 1
TpCountOut == tpActive' = tpActive - 1

-----------------------------------------------------------------------------
(* admission *)

\* authorize_traffic asks for the lifecycle once more when it has its answer;
\* the permits follow at once, the count only in the task of the connection
TpAuthorise(c, kind) ==
    /\ tpPc[c] = "none" /\ tpKind = kind
    /\ ~tpStopped
    /\ TpGoto(c, IF ~TpDraining /\ TpPermitsLeft THEN "authorised" ELSE "closed")
    /\ UNCHANGED <<tpSite, tpDrain, tpLink, tpActive, tpPending, tpData>>

TpAdmitTcp(c) == TpAuthorise(c, "tcp")
\* "admitted" covers the handshake and, for BIND, the wait for the peer
TpAdmitSocks5(c) == TpAuthorise(c, "socks5")
\* one exchange of a proxy connection
TpAdmitHttpProxy(c) == TpAuthorise(c, "http_proxy")
TpAdmitSni(c) == TpAuthorise(c, "sni")
\* a visitor is a client of its own; its policy is read under the mutation
\* lock, and the provider's registration must have a healthy target
TpAdmitSecret(c) == TpAuthorise(c, "secret")
\* the listener only looks at the lifecycle
TpAcceptHttp(c) ==
    /\ tpPc[c] = "none" /\ tpKind = "http"
    /\ TpGoto(c, IF TpDraining THEN "closed" ELSE "accepted")
    /\ UNCHANGED <<tpSite, tpDrain, tpLink, tpActive, tpPending, tpData>>

\* the spawned task counts; a visitor has its pending permit before that
TpCount(c) ==
    /\ \/ /\ tpPc[c] = "authorised" /\ tpKind = "secret" /\ ~TpPendingLeft
          /\ TpGoto(c, "closed") /\ UNCHANGED tpActive
       \/ /\ tpPc[c] = "authorised" /\ (tpKind = "secret" => TpPendingLeft)
          /\ TpGoto(c, "admitted") /\ TpCountIn
       \/ /\ tpPc[c] = "accepted"
          /\ TpGoto(c, "idle") /\ TpCountIn
    /\ UNCHANGED <<tpSite, tpDrain, tpLink, tpPending, tpData>>

\* proxy_request, up to its awaits and after them: an open HTTP connection
\* stays open, and stays counted, whatever the answer is
TpRequest(c) ==
    /\ tpPc[c] = "idle"
    /\ TpGoto(c, IF TpDraining \/ tpStopped THEN "served" ELSE "requested")
    /\ UNCHANGED <<tpSite, tpDrain, tpLink, tpActive, tpPending, tpData>>
TpAdmitHttp(c) ==
    /\ tpPc[c] = "requested"
    /\ TpGoto(c, IF TpPermitsLeft THEN "admitted" ELSE "served")
    /\ UNCHANGED <<tpSite, tpDrain, tpLink, tpActive, tpPending, tpData>>

TpLeave(c) ==
    IF tpKind = "http" THEN TpGoto(c, "served") /\ UNCHANGED tpActive
    ELSE TpGoto(c, "closed") /\ TpCountOut

\* the SOCKS5 handshake or the request head fails, the meter is closed, or
\* no target is healthy
TpRefuse(c) ==
    /\ tpPc[c] = "admitted" /\ tpKind \in {"socks5", "http_proxy", "http", "sni"}
    /\ TpLeave(c)
    /\ UNCHANGED <<tpSite, tpDrain, tpLink, tpPending, tpData>>

\* the pending permit and the entry
TpReserve(c) ==
    /\ tpPc[c] = "admitted"
    /\ IF tpKind = "secret" \/ TpPendingLeft
       THEN /\ TpGoto(c, "queueing")
            /\ tpPending' = tpPending \cup {c} /\ UNCHANGED tpActive
       ELSE TpLeave(c) /\ UNCHANGED tpPending
    /\ UNCHANGED <<tpSite, tpDrain, tpLink, tpData>>

-----------------------------------------------------------------------------
(* the request to the client *)

\* the entry is removed, and with it the right to be paired; a
\* PendingConnectionGuard that finds the map locked leaves that to a task
TpGiveUp(c) ==
    /\ TpLeave(c)
    /\ \/ tpPending' = tpPending \ {c}
       \/ TpDeadline /\ UNCHANGED tpPending
TpReap(c) ==
    /\ c \in tpPending /\ tpPc[c] \in {"served", "closed"} /\ TpDeadline
    /\ tpPending' = tpPending \ {c}
    /\ UNCHANGED <<tpSite, tpDrain, tpLink, tpPc, tpActive, tpData>>

\* a send succeeds when the channel has room and fails when the control
\* loop is gone
TpSend(c) ==
    /\ tpPc[c] = "queueing"
    /\ IF tpControl
       THEN /\ Len(tpQueue) < TpChannel
            /\ tpQueue' = Append(tpQueue, c)
            /\ TpGoto(c, "waiting")
            /\ UNCHANGED <<tpActive, tpPending>>
       ELSE TpGiveUp(c) /\ UNCHANGED tpQueue
    /\ UNCHANGED <<tpSite, tpDrain, tpStopped, tpControl, tpWire, tpData>>

\* deadline or stop while the channel is full
TpSendGivesUp(c) ==
    /\ tpPc[c] = "queueing" /\ TpDeadline
    /\ TpGiveUp(c)
    /\ UNCHANGED <<tpSite, tpDrain, tpLink, tpData>>

\* a data stream left in the oneshot is dropped with the receiver
TpDropStream(c) ==
    tpData' = [tpData EXCEPT ![c] = IF @ = "handed" THEN "closed" ELSE @]

\* mutant: the entry stays behind
TpWaitLeaks(c) ==
    /\ tpPc[c] = "waiting"
    /\ TpLeave(c) /\ TpDropStream(c)
    /\ UNCHANGED <<tpSite, tpDrain, tpLink, tpPending>>

\* CONNECTION_PAIR_TIMEOUT, a stop, or the sender was dropped; the select
\* may take this branch although a stream is ready
TpWaitGivesUp(c) ==
    /\ tpPc[c] = "waiting"
    /\ TpGiveUp(c) /\ TpDropStream(c)
    /\ UNCHANGED <<tpSite, tpDrain, tpLink>>

TpJoin(c) ==
    /\ tpPc[c] = "waiting" /\ tpData[c] = "handed"
    /\ TpGoto(c, "joined")
    /\ tpData' = [tpData EXCEPT ![c] = "copied"]
    /\ UNCHANGED <<tpSite, tpDrain, tpLink, tpActive, tpPending>>

\* end of either stream, CONNECTION_MAX_LIFETIME, or a stop; of HTTP, the end
\* of the response body, after which the pool has the data connection
TpFinish(c) ==
    /\ tpPc[c] = "joined"
    /\ TpLeave(c)
    /\ tpData' = [tpData EXCEPT ![c] = "closed"]
    /\ UNCHANGED <<tpSite, tpDrain, tpLink, tpPending>>

\* 101 Switching Protocols: hyper hands the streams to a task of their own,
\* the task of the public connection ends and takes its count with it
TpUpgrade(c) ==
    /\ tpPc[c] = "joined" /\ tpKind = "http"
    /\ TpGoto(c, "upgraded") /\ TpCountOut
    /\ UNCHANGED <<tpSite, tpDrain, tpLink, tpPending, tpData>>
TpUpgradeEnds(c) ==
    /\ tpPc[c] = "upgraded"
    /\ TpGoto(c, "closed")
    /\ tpData' = [tpData EXCEPT ![c] = "closed"]
    /\ UNCHANGED <<tpSite, tpDrain, tpLink, tpActive, tpPending>>

\* the public peer closes its HTTP connection, or a timeout of hyper does
TpPublicCloses(c) ==
    /\ tpPc[c] \in {"idle", "served"}
    /\ TpGoto(c, "closed") /\ TpCountOut
    /\ UNCHANGED <<tpSite, tpDrain, tpLink, tpPending, tpData>>

-----------------------------------------------------------------------------
(* the control connection and the client *)

\* the control loop writes a queued frame; while the write blocks it looks
\* neither at the stop nor at the idle timeout
TpWrite ==
    /\ tpControl /\ tpQueue # <<>> /\ tpWire = <<>>
    /\ tpWire' = <<Head(tpQueue)>> /\ tpQueue' = Tail(tpQueue)
    /\ UNCHANGED <<tpSite, tpDrain, tpStopped, tpControl, tpPc,
                   tpActive, tpPending, tpData>>

\* the client reads the frame and a task of it opens a data connection, or
\* fails to: it has no healthy target, or cannot connect
TpClientReads(kinds) ==
    /\ tpKind \in kinds
    /\ tpWire # <<>> /\ tpWire' = <<>>
    /\ \E d \in {"arrived", "none"} : tpData' = [tpData EXCEPT ![Head(tpWire)] = d]
    /\ UNCHANGED <<tpSite, tpDrain, tpStopped, tpControl, tpPc,
                   tpActive, tpPending, tpQueue>>

TpClientTunnel == TpClientReads({"tcp", "http", "sni", "secret"})
\* the proxies connect to the requested target first
TpClientSocks5 == TpClientReads({"socks5"})
TpClientHttpProxy == TpClientReads({"http_proxy"})
TpClient == TpClientTunnel \/ TpClientSocks5 \/ TpClientHttpProxy

\* pair_data_connection: the entry is consumed by the first data connection
\* of its client, draining or not; a late one finds none and is closed
TpPair(c) ==
    /\ tpData[c] = "arrived"
    /\ tpData' = [tpData EXCEPT ![c] = IF c \in tpPending THEN "sending" ELSE "closed"]
    /\ tpPending' = tpPending \ {c}
    /\ UNCHANGED <<tpSite, tpDrain, tpLink, tpPc, tpActive>>

\* the send on the oneshot fails when its receiver is gone
TpHandOver(c) ==
    /\ tpData[c] = "sending"
    /\ tpData' = [tpData EXCEPT ![c] = IF tpPc[c] = "waiting" THEN "handed" ELSE "closed"]
    /\ UNCHANGED <<tpSite, tpDrain, tpLink, tpPc, tpActive, tpPending>>

\* the loop ends on a stop, or with its connection, but not inside a write
TpControlEnds ==
    /\ tpControl /\ tpControl' = FALSE
    /\ tpStopped \/ ~tpStall
    /\ tpQueue = <<>> \/ tpWire = <<>>
    /\ tpStopped' = TRUE /\ tpQueue' = <<>> /\ tpWire' = <<>>
    /\ UNCHANGED <<tpSite, tpDrain, tpPc, tpActive, tpPending, tpData>>

TpStop ==
    /\ ~tpStopped /\ tpStopped' = TRUE
    /\ UNCHANGED <<tpSite, tpDrain, tpControl, tpPc, tpActive,
                   tpPending, tpQueue, tpWire, tpData>>

TpBeginDrain ==
    /\ tpDrain = "no" /\ tpDrain' = "draining"
    /\ UNCHANGED <<tpSite, tpStopped, tpControl, tpPc, tpActive,
                   tpPending, tpQueue, tpWire, tpData>>
TpResume ==
    /\ tpDrain = "draining" /\ tpDrain' = "resumed"
    /\ UNCHANGED <<tpSite, tpStopped, tpControl, tpPc, tpActive,
                   tpPending, tpQueue, tpWire, tpData>>

TpServe(c) ==
    \/ TpCount(c) \/ TpAdmitHttp(c) \/ TpRefuse(c) \/ TpReserve(c)
    \/ TpSend(c) \/ TpSendGivesUp(c) \/ TpWaitGivesUp(c) \/ TpReap(c) \/ TpJoin(c)
    \/ (tpKind # "http" /\ TpFinish(c))

TpServeTcp(c) == tpKind = "tcp" /\ TpServe(c)
TpServeSocks5(c) == tpKind = "socks5" /\ TpServe(c)
TpServeHttpProxy(c) == tpKind = "http_proxy" /\ TpServe(c)
TpServeHttp(c) == tpKind = "http" /\ TpServe(c)
TpServeSni(c) == tpKind = "sni" /\ TpServe(c)
TpServeSecret(c) == tpKind = "secret" /\ TpServe(c)
TpServeAny(c) ==
    \/ TpServeTcp(c) \/ TpServeSocks5(c) \/ TpServeHttpProxy(c)
    \/ TpServeHttp(c) \/ TpServeSni(c) \/ TpServeSecret(c)

\* what the peers of an HTTP connection do in their own time
TpHttpPeer(c) ==
    \/ TpRequest(c) \/ TpUpgrade(c) \/ TpUpgradeEnds(c) \/ TpPublicCloses(c)
    \/ (tpKind = "http" /\ TpFinish(c))

TpAdmitAny(c) ==
    \/ TpAdmitTcp(c) \/ TpAdmitSocks5(c) \/ TpAdmitHttpProxy(c)
    \/ TpAcceptHttp(c) \/ TpAdmitSni(c) \/ TpAdmitSecret(c)

TpNext ==
    \/ \E c \in TpConns : \/ TpAdmitAny(c) \/ TpServeAny(c) \/ TpHttpPeer(c)
                          \/ TpPair(c) \/ TpHandOver(c)
    \/ TpWrite \/ TpClient \/ TpControlEnds
    \/ TpStop \/ TpBeginDrain \/ TpResume

\* tasks and timers of the server run; the client is trusted to read its
\* control connection only when it does not stall, the peers of an HTTP
\* connection are not trusted to end anything
TpFairReads == ~tpStall /\ TpClient
TpFairness ==
    /\ \A c \in TpConns : WF_tpVars(TpServe(c)) /\ WF_tpVars(TpPair(c))
                          /\ WF_tpVars(TpHandOver(c))
    /\ WF_tpVars(TpWrite) /\ WF_tpVars(TpFairReads)
TpSpec == TpInit /\ [][TpNext]_tpVars /\ TpFairness

-----------------------------------------------------------------------------
\* what lifecycle_response reports
TpDrained == tpActive = 0 /\ tpPending = {}

\* The report counts everything it can know: when it says drained, whatever
\* is under way has not been counted yet (its task has not started), or is an
\* upgraded HTTP connection, which the report does not count; only such a one
\* holds a data stream.
TpDrainedIsIdle ==
    TpDrained =>
       /\ TpHolding \subseteq TpAtPc({"authorised", "upgraded"})
       /\ \A c \in TpConns : tpData[c] \in {"handed", "copied"} => tpPc[c] = "upgraded"

\* A drain completes, and its report then stays true: once the server drains,
\* there comes a time from which, unless the drain is taken back, no entry of
\* pending_connections is left and every connection still counted is a public
\* HTTP connection that waits for its peers, which the server does not close.
\* A client that stops reading can hold up the kinds that queue their request
\* without a deadline.
TpDrainCompletes ==
    (TpDraining /\ (TpDeadline \/ ~tpStall)) ~>
       [](\/ tpDrain = "resumed"
          \/ /\ tpPending = {}
             /\ TpHolding \subseteq TpAtPc({"joined", "upgraded"})
             /\ tpActive = IF tpKind = "http"
                           THEN Cardinality(TpAtPc({"idle", "joined", "served"})) ELSE 0)

\* A drain ends, and what it reports is so.
TpDrains == []TpDrainedIsIdle /\ TpDrainCompletes
=============================================================================
