--------------------------- MODULE UdpSessions ------------------------------
(***************************************************************************)
(* UDP tunnels: the sessions of the server (Us) and the end of the client  *)
(* that forwards their datagrams to the targets (Ua).                      *)
(***************************************************************************)
EXTENDS Integers, FiniteSets, Sequences, FiniteSetsExt

(***************************************************************************)
(* The UDP tunnels of one policy: a UDP policy has one public port, a port *)
(* group several, each with a registration and a loop of its own.  A       *)
(* registration offers a one-time ticket, the client's QUIC connection     *)
(* consumes it, and the loop then keeps a session per public endpoint.     *)
(* The loops of a policy share its statistics (statistics_for).            *)
(***************************************************************************)
CONSTANTS
    UsPorts,          \* public ports of the policy
    UsEndpoints,      \* public endpoints, pairs of an address and a port
    UsConns,          \* QUIC connections
    UsPolicyLimit,    \* max_sessions of a loop
    UsGlobalLimit,    \* global_udp_session_permits
    UsSourceLimit,    \* MAX_SESSIONS_PER_SOURCE_IP
    UsSourceEntries,  \* MAX_SOURCE_ADMISSION_ENTRIES
    UsActiveLimit,    \* MAX_ACTIVE_ATTACHMENTS
    UsPendingLimit,   \* MAX_PENDING_ATTACHMENTS
    UsWidth,          \* modulus of usize
    UsMaxOffers,      \* bound on registrations
    UsMaxSessions     \* bound on sessions ever created

ASSUME UsAssumption ==
    /\ UsEndpoints \subseteq STRING \X Nat
    /\ {UsPolicyLimit, UsGlobalLimit, UsSourceLimit, UsSourceEntries,
        UsActiveLimit, UsPendingLimit, UsMaxOffers, UsMaxSessions} \subseteq Nat
    /\ UsWidth \in Nat \ {0}

VARIABLES
    usReg,      \* per port: [pc, ticket, conn, ext], ext the endpoint being authorised
    usTickets,  \* tickets not consumed, cancelled or expired
    usOffers,   \* tickets issued
    usConn,     \* per connection: [pc, port, ticket]
    usByExt,    \* per port: sessions_by_external, 0 for none
    usBySess,   \* per port: external_by_session, a set of [id, ext]
    usIdle,     \* sessions past their idle timeout
    usSources,  \* per port: admission entries, a set of [ip, n]
    usNext,     \* sessions created
    usActive,   \* active_sessions of the policy's statistics
    usDrain

usAttach == <<usReg, usTickets, usOffers, usConn>>
usTables == <<usByExt, usBySess, usIdle, usSources, usNext, usActive>>
usVars == <<usAttach, usTables, usDrain>>

UsIps == {e[1] : e \in UsEndpoints}
UsNoConn == [pc |-> "none", port |-> 0, ticket |-> 0]
UsNobody == <<"", 0>>
UsNoReg == [pc |-> "none", ticket |-> 0, conn |-> "none", ext |-> UsNobody]
UsNoSessions == [e \in UsEndpoints |-> 0]

UsInit ==
    /\ usReg = [p \in UsPorts |-> UsNoReg]
    /\ usTickets = {} /\ usOffers = 0
    /\ usConn = [c \in UsConns |-> UsNoConn]
    /\ usByExt = [p \in UsPorts |-> UsNoSessions]
    /\ usBySess = [p \in UsPorts |-> {}]
    /\ usIdle = {}
    /\ usSources = [p \in UsPorts |-> {}]
    /\ usNext = 0 /\ usActive = 0
    /\ usDrain = FALSE

-----------------------------------------------------------------------------
(* the attachment of a QUIC connection *)

\* reserve_attachment
UsOffer(p) ==
    /\ usReg[p].pc = "none" /\ usOffers < UsMaxOffers
    /\ usOffers' = usOffers + 1
    /\ usTickets' = usTickets \cup {usOffers + 1}
    /\ usReg' = [usReg EXCEPT ![p] = [pc |-> "offered", ticket |-> usOffers + 1,
                                      conn |-> "none", ext |-> UsNobody]]
    /\ UNCHANGED <<usConn, usTables, usDrain>>

UsConnsAt(pcs) == {c \in UsConns : usConn[c].pc \in pcs}
\* holders of an active permit
UsHoldingActive == UsConnsAt({"permit", "consumed", "rejected", "attached"})

UsSetConn(c, pc) == usConn' = [usConn EXCEPT ![c].pc = pc]

\* the client answers an offer it has received, perhaps late or twice; the
\* accept loop refuses it at once without capacity
UsConnect(c, p, t) ==
    /\ usConn[c].pc = "none" /\ t \in 1..usOffers
    /\ usConn' = [usConn EXCEPT ![c] =
         [pc |-> IF /\ Cardinality(UsHoldingActive) < UsActiveLimit
                    /\ Cardinality(UsConnsAt({"pending"})) < UsPendingLimit
                 THEN "pending" ELSE "closed",
          port |-> p, ticket |-> t]]
    /\ UNCHANGED <<usReg, usTickets, usOffers, usTables, usDrain>>

\* the active permit is taken before the ticket, which stays valid without one
UsTakeActive(c) ==
    /\ usConn[c].pc = "pending"
    /\ UsSetConn(c, IF Cardinality(UsHoldingActive) < UsActiveLimit
                    THEN "permit" ELSE "closed")
    /\ UNCHANGED <<usReg, usTickets, usOffers, usTables, usDrain>>

\* ATTACH_OPERATION_TIMEOUT or a broken connection
UsAttachFails(c) ==
    /\ usConn[c].pc \in {"pending", "rejected"}
    /\ UsSetConn(c, "closed")
    /\ UNCHANGED <<usReg, usTickets, usOffers, usTables, usDrain>>

\* consume_ticket
UsConsume(c) ==
    /\ usConn[c].pc = "permit"
    /\ IF usConn[c].ticket \in usTickets
       THEN UsSetConn(c, "consumed") /\ usTickets' = usTickets \ {usConn[c].ticket}
       ELSE UsSetConn(c, "rejected") /\ UNCHANGED usTickets
    /\ UNCHANGED <<usReg, usOffers, usTables, usDrain>>

\* the connection goes to the registration that waits for this ticket
UsHand(c) ==
    LET p == usConn[c].port IN
    /\ usConn[c].pc = "consumed"
    /\ IF usReg[p].pc = "offered" /\ usReg[p].ticket = usConn[c].ticket
       THEN /\ usReg' = [usReg EXCEPT ![p].pc = "attached", ![p].conn = c]
            /\ UsSetConn(c, "attached")
       ELSE UsSetConn(c, "closed") /\ UNCHANGED usReg
    /\ UNCHANGED <<usTickets, usOffers, usTables, usDrain>>

\* wait() ends without a connection; dropping the lease cancels the ticket
UsWaitFails(p) ==
    /\ usReg[p].pc = "offered"
    /\ usTickets' = usTickets \ {usReg[p].ticket}
    /\ usReg' = [usReg EXCEPT ![p] = UsNoReg]
    /\ UNCHANGED <<usOffers, usConn, usTables, usDrain>>

\* the ticket's time is up; the registration has not noticed yet
UsTicketExpires ==
    /\ \E t \in usTickets : usTickets' = usTickets \ {t}
    /\ UNCHANGED <<usReg, usOffers, usConn, usTables, usDrain>>

UsDropConn(p) ==
    usConn' = [c \in UsConns |-> IF c = usReg[p].conn
                                 THEN [usConn[c] EXCEPT !.pc = "closed"] ELSE usConn[c]]

\* port lease, bind, Ready, recheck and installation, or a failure
UsStartLoop(p) ==
    /\ usReg[p].pc = "attached"
    /\ \/ usReg' = [usReg EXCEPT ![p].pc = "running"] /\ UNCHANGED usConn
       \/ usReg' = [usReg EXCEPT ![p] = UsNoReg] /\ UsDropConn(p)
    /\ UNCHANGED <<usTickets, usOffers, usTables, usDrain>>

-----------------------------------------------------------------------------
(* sessions of a loop *)

UsLive(p) == {e \in UsEndpoints : usByExt[p][e] # 0}
UsAllLive == UNION {{<<p, e>> : e \in UsLive(p)} : p \in UsPorts}
UsCount(p, ip) == IF \E s \in usSources[p] : s.ip = ip
                  THEN (CHOOSE s \in usSources[p] : s.ip = ip).n ELSE 0
UsKnown(p, ip) == \E s \in usSources[p] : s.ip = ip

UsAddActive(n) == usActive' = (usActive + n) % UsWidth

\* mutant: the source keeps its slots
UsReleaseNothing(sources, gone) == sources

\* SessionAdmission::release for every session of a set of endpoints
UsRelease(sources, gone) ==
    {[s EXCEPT !.n = s.n - Cardinality({e \in gone : e[1] = s.ip})] : s \in sources}

\* the tables after try_admit, when its rate limits let the session pass
UsAdmitted(sources, ip) ==
    {IF s.ip = ip THEN [s EXCEPT !.n = s.n + 1] ELSE s :
        s \in sources \cup IF \E s \in sources : s.ip = ip THEN {} ELSE {[ip |-> ip, n |-> 0]}}

\* a new source may first have to evict an inactive one
UsRoom(p, ip) ==
    IF UsKnown(p, ip) \/ Cardinality(usSources[p]) < UsSourceEntries
    THEN {usSources[p]}
    ELSE {usSources[p] \ {s} : s \in {x \in usSources[p] : x.n = 0}}

UsRefreshed(p, e) == usIdle' = usIdle \ {<<p, e>>}

\* a datagram of an endpoint with a session
UsReceiveKnown(p, e) ==
    /\ usReg[p].pc = "running" /\ e \in UsLive(p)
    /\ UsRefreshed(p, e)
    /\ UNCHANGED <<usAttach, usByExt, usBySess, usSources, usNext, usActive, usDrain>>

\* a datagram of a new endpoint, unless the server drains: its traffic is
\* authorised, which the loop awaits
UsReceiveAsks(p, e) ==
    /\ usReg[p].pc = "running" /\ e \notin UsLive(p)
    /\ ~usDrain
    /\ usReg' = [usReg EXCEPT ![p].pc = "asking", ![p].ext = e]
    /\ UNCHANGED <<usTickets, usOffers, usConn, usTables, usDrain>>

\* the answer: the loop goes on, with a session when the permits allow one
UsAnswered(p) ==
    /\ usReg[p].pc = "asking"
    /\ usReg' = [usReg EXCEPT ![p].pc = "running", ![p].ext = UsNobody]
    /\ UNCHANGED <<usTickets, usOffers, usConn>>

UsMayOpen(p, e) ==
    /\ usReg[p].ext = e
    /\ Cardinality(UsLive(p)) < UsPolicyLimit
    /\ Cardinality(UsAllLive) < UsGlobalLimit
    /\ UsCount(p, e[1]) < UsSourceLimit

UsReceiveNew(p, e) ==
    /\ UsAnswered(p) /\ UsMayOpen(p, e)
    /\ usNext < UsMaxSessions /\ usNext' = usNext + 1
    /\ \E sources \in UsRoom(p, e[1]) :
          usSources' = [usSources EXCEPT ![p] = UsAdmitted(sources, e[1])]
    /\ usByExt' = [usByExt EXCEPT ![p][e] = usNext + 1]
    /\ usBySess' = [usBySess EXCEPT ![p] = @ \cup {[id |-> usNext + 1, ext |-> e]}]
    /\ UsAddActive(1)
    /\ UNCHANGED <<usIdle, usDrain>>

\* the first datagram cannot be sent, and the session it opened is removed
UsReceiveUnsent(p, e) ==
    /\ UsAnswered(p) /\ UsMayOpen(p, e)
    /\ usNext < UsMaxSessions /\ usNext' = usNext + 1
    /\ \E sources \in UsRoom(p, e[1]) :
          usSources' = [usSources EXCEPT ![p] =
                           UsRelease(UsAdmitted(sources, e[1]), {e})]
    /\ UNCHANGED <<usByExt, usBySess, usIdle, usActive, usDrain>>

\* a rate limit refuses: the source is known from now on
UsReceiveLimited(p, e) ==
    /\ UsAnswered(p) /\ UsMayOpen(p, e) /\ ~UsKnown(p, e[1])
    /\ \E sources \in UsRoom(p, e[1]) :
          usSources' = [usSources EXCEPT ![p] = sources \cup {[ip |-> e[1], n |-> 0]}]
    /\ UNCHANGED <<usByExt, usBySess, usIdle, usNext, usActive, usDrain>>

\* traffic control, a permit or the source's quota refuses
UsReceiveRefused(p) ==
    /\ UsAnswered(p)
    /\ UNCHANGED <<usTables, usDrain>>

\* remove_session for a set of endpoints
UsRemove(p, gone) ==
    /\ usByExt' = [usByExt EXCEPT ![p] =
                     [e \in UsEndpoints |-> IF e \in gone THEN 0 ELSE @[e]]]
    /\ usBySess' = [usBySess EXCEPT ![p] = {s \in @ : s.ext \notin gone}]
    /\ usIdle' = usIdle \ {<<p, e>> : e \in gone}
    /\ usSources' = [usSources EXCEPT ![p] = UsRelease(@, gone)]
    /\ UsAddActive(-Cardinality(gone))

\* CloseSession of the client, for a session of any age
UsCloseSession(p, id) ==
    /\ usReg[p].pc = "running" /\ \E s \in usBySess[p] : s.id = id
    /\ UsRemove(p, {s.ext : s \in {x \in usBySess[p] : x.id = id}})
    /\ UNCHANGED <<usAttach, usNext, usDrain>>

\* a datagram of the target, sent on to the endpoint of its session
UsReply(p, id) ==
    /\ usReg[p].pc = "running"
    /\ \E s \in usBySess[p] : s.id = id /\ UsRefreshed(p, s.ext)
    /\ UNCHANGED <<usAttach, usByExt, usBySess, usSources, usNext, usActive, usDrain>>

UsTimePasses(p, e) ==
    /\ usReg[p].pc = "running" /\ e \in UsLive(p)
    /\ usIdle' = usIdle \cup {<<p, e>>}
    /\ UNCHANGED <<usAttach, usByExt, usBySess, usSources, usNext, usActive, usDrain>>

\* the sweep expires idle sessions and forgets sources without sessions that
\* have not been seen for long
UsSweep(p) ==
    LET gone == {e \in UsLive(p) : <<p, e>> \in usIdle} IN
    /\ usReg[p].pc = "running" /\ gone # {}
    /\ UsRemove(p, gone)
    /\ UNCHANGED <<usAttach, usNext, usDrain>>

UsForgetSource(p) ==
    /\ usReg[p].pc = "running"
    /\ \E s \in usSources[p] :
          s.n = 0 /\ usSources' = [usSources EXCEPT ![p] = @ \ {s}]
    /\ UNCHANGED <<usAttach, usByExt, usBySess, usIdle, usNext, usActive, usDrain>>

\* stop, control connection or data plane closed: both tables are cleared
\* and the policy's statistic is set to zero
UsLoopEnds(p) ==
    /\ usReg[p].pc = "running"
    /\ usByExt' = [usByExt EXCEPT ![p] = UsNoSessions]
    /\ usBySess' = [usBySess EXCEPT ![p] = {}]
    /\ usIdle' = {x \in usIdle : x[1] # p}
    /\ usSources' = [usSources EXCEPT ![p] = {}]
    /\ usActive' = 0
    /\ usReg' = [usReg EXCEPT ![p] = UsNoReg] /\ UsDropConn(p)
    /\ UNCHANGED <<usTickets, usOffers, usNext, usDrain>>

UsBeginDrain ==
    ~usDrain /\ usDrain' = TRUE /\ UNCHANGED <<usAttach, usTables>>

UsNext ==
    \/ \E p \in UsPorts : UsOffer(p) \/ UsWaitFails(p) \/ UsStartLoop(p)
                          \/ UsSweep(p) \/ UsForgetSource(p) \/ UsLoopEnds(p)
                          \/ UsReceiveRefused(p)
    \/ \E c \in UsConns : UsTakeActive(c) \/ UsAttachFails(c) \/ UsConsume(c) \/ UsHand(c)
    \/ \E c \in UsConns, p \in UsPorts, t \in 1..UsMaxOffers :
          usReg[p].ticket = t /\ UsConnect(c, p, t)
    \/ \E p \in UsPorts, e \in UsEndpoints :
          UsReceiveKnown(p, e) \/ UsReceiveAsks(p, e) \/ UsReceiveNew(p, e)
          \/ UsReceiveUnsent(p, e) \/ UsReceiveLimited(p, e) \/ UsTimePasses(p, e)
    \/ \E p \in UsPorts, id \in 1..UsMaxSessions : UsCloseSession(p, id) \/ UsReply(p, id)
    \/ UsTicketExpires \/ UsBeginDrain

UsSpec == UsInit /\ [][UsNext]_usVars

-----------------------------------------------------------------------------
\* The three tables of a loop agree after every path: each session id leads
\* back to the endpoint that holds it, so a reply reaches its own peer, and a
\* source is charged for exactly its live sessions, so it can use its quota
\* again.  A connection holds an active attachment only as long as its
\* registration owns it.
UsTablesAgree ==
    /\ \A p \in UsPorts :
          /\ usBySess[p] = {[id |-> usByExt[p][e], ext |-> e] : e \in UsLive(p)}
          /\ \A ip \in UsIps :
                UsCount(p, ip) = Cardinality({e \in UsLive(p) : e[1] = ip})
    /\ \A c \in UsConnsAt({"attached"}) : usReg[usConn[c].port].conn = c

\* "drained" is the truth for UDP: the policy's statistic is zero only when no
\* loop of the policy has a session.
UsDrainedIsIdle == usActive = 0 => UsAllLive = {}

(***************************************************************************)
(* linklake-client/udp_agent.rs: the client's end of a UDP tunnel. One     *)
(* loop owns the sessions; each session has a worker task with the target  *)
(* socket and a bounded queue; the queues of all tunnels share one byte    *)
(* budget. The server opens sessions by sending datagrams, which may be    *)
(* lost, delayed and reordered; both ends close sessions over the reliable *)
(* control stream. Every datagram costs one unit of the budget.            *)
(***************************************************************************)
CONSTANTS
    UaIds,         \* session ids the server uses
    UaQueue,       \* SESSION_QUEUE_CAPACITY
    UaBudget,      \* UDP_QUEUE_BUDGET_BYTES
    UaMaxSends,    \* bound on datagrams the server sends
    UaMaxFaults    \* bound on failing targets, idle and expired entries, losses

ASSUME UaAssumption == {UaQueue, UaBudget, UaMaxSends, UaMaxFaults} \subseteq Nat

VARIABLES
    uaUp,        \* the data plane is established
    uaSessions,  \* sessions: ids with a target session
    uaClosed,    \* closed_sessions, while retained
    uaWorker,    \* worker task of each id: "none", "idle", "sending"
    uaQueued,    \* datagrams in the queue of each id
    uaUsed,      \* permits taken from the budget
    uaEvents,    \* SessionEvent::Close waiting for the loop, in order
    uaOpen,      \* sessions of the server
    uaEnded,     \* sessions the server has ended; ids are never used again
    uaNet,       \* datagrams on the way to the client
    uaToServer,  \* CloseSession frames on the way to the server, in order
    uaToClient,  \* CloseSession frames on the way to the client, in order
    uaSends, uaFaults

uaVars == <<uaUp, uaSessions, uaClosed, uaWorker, uaQueued, uaUsed, uaEvents,
            uaOpen, uaEnded, uaNet, uaToServer, uaToClient, uaSends, uaFaults>>
uaTasks == <<uaWorker, uaQueued, uaUsed, uaEvents>>
uaWire == <<uaOpen, uaEnded, uaNet, uaToServer, uaToClient>>

UaFault == uaFaults < UaMaxFaults /\ uaFaults' = uaFaults + 1
UaHeld(s) == uaQueued[s] + (IF uaWorker[s] = "sending" THEN 1 ELSE 0)

UaInit ==
    /\ uaUp = TRUE
    /\ uaSessions = {} /\ uaClosed = {}
    /\ uaWorker = [s \in UaIds |-> "none"]
    /\ uaQueued = [s \in UaIds |-> 0]
    /\ uaUsed = 0 /\ uaEvents = <<>>
    /\ uaOpen = {} /\ uaEnded = {} /\ uaNet = [s \in UaIds |-> 0]
    /\ uaToServer = <<>> /\ uaToClient = <<>>
    /\ uaSends = 0 /\ uaFaults = 0

-----------------------------------------------------------------------------
\* The server's end, as far as the client sees it.

UaServerSend(s) ==
    /\ uaUp /\ uaSends < UaMaxSends /\ uaSends' = uaSends + 1
    /\ s \notin uaEnded
    /\ uaOpen' = uaOpen \cup {s}
    /\ uaNet' = [uaNet EXCEPT ![s] = @ + 1]
    /\ UNCHANGED <<uaEnded, uaUp, uaSessions, uaClosed, uaTasks, uaToServer, uaToClient,
                   uaFaults>>

UaServerCloses(s) ==
    /\ uaUp /\ s \in uaOpen /\ UaFault
    /\ uaOpen' = uaOpen \ {s} /\ uaEnded' = uaEnded \cup {s}
    /\ uaToClient' = Append(uaToClient, s)
    /\ UNCHANGED <<uaUp, uaSessions, uaClosed, uaTasks, uaNet, uaToServer, uaSends>>

UaServerLearns ==
    /\ uaToServer # <<>>
    /\ uaOpen' = uaOpen \ {Head(uaToServer)}
    /\ uaEnded' = uaEnded \cup {Head(uaToServer)}
    /\ uaToServer' = Tail(uaToServer)
    /\ UNCHANGED <<uaUp, uaSessions, uaClosed, uaTasks, uaNet, uaToClient, uaSends,
                   uaFaults>>

UaLose(s) ==
    /\ uaNet[s] > 0 /\ UaFault
    /\ uaNet' = [uaNet EXCEPT ![s] = @ - 1]
    /\ UNCHANGED <<uaUp, uaSessions, uaClosed, uaTasks, uaOpen, uaEnded, uaToServer,
                   uaToClient, uaSends>>

-----------------------------------------------------------------------------
\* Closing a session. Dropping the TargetSession aborts its worker, and with
\* it go the queue and the permits of what was queued or being sent.

UaDrop(s) ==
    /\ uaSessions' = uaSessions \ {s}
    /\ uaWorker' = [uaWorker EXCEPT ![s] = "none"]
    /\ uaQueued' = [uaQueued EXCEPT ![s] = 0]
    /\ uaUsed' = uaUsed - UaHeld(s)

UaSendClose(s) == uaToServer' = Append(uaToServer, s)

\* the session goes, its id is retained as closed and the server is told
UaCloseSession(s) ==
    /\ UaDrop(s)
    /\ uaClosed' = uaClosed \cup {s}
    /\ UaSendClose(s)

\* a CloseSession frame of the server
UaControlClose ==
    /\ uaUp /\ uaToClient # <<>>
    /\ UaDrop(Head(uaToClient))
    /\ uaClosed' = uaClosed \cup {Head(uaToClient)}
    /\ uaToClient' = Tail(uaToClient)
    /\ UNCHANGED <<uaUp, uaEvents, uaOpen, uaEnded, uaNet, uaToServer, uaSends, uaFaults>>

\* a worker reported that its target failed
UaSessionEvent ==
    /\ uaUp /\ uaEvents # <<>>
    /\ IF Head(uaEvents) \in uaSessions THEN UaCloseSession(Head(uaEvents))
       ELSE UNCHANGED <<uaSessions, uaClosed, uaWorker, uaQueued, uaUsed, uaToServer>>
    /\ uaEvents' = Tail(uaEvents)
    /\ UNCHANGED <<uaUp, uaOpen, uaEnded, uaNet, uaToClient, uaSends, uaFaults>>

\* the cleanup tick finds the session idle
UaIdle(s) ==
    /\ uaUp /\ s \in uaSessions /\ UaFault
    /\ UaCloseSession(s)
    /\ UNCHANGED <<uaUp, uaEvents, uaOpen, uaEnded, uaNet, uaToClient, uaSends>>

\* CLOSED_SESSION_RETENTION passes
UaForget(s) ==
    /\ uaUp /\ s \in uaClosed /\ UaFault
    /\ uaClosed' = uaClosed \ {s}
    /\ UNCHANGED <<uaUp, uaSessions, uaTasks, uaWire, uaSends>>

-----------------------------------------------------------------------------
\* A datagram arrives whole. A closed id is ignored; an unknown one gets a
\* target session, or is refused when no target is healthy or its socket
\* fails; a known one queues the datagram.

\* enqueue_datagram: the budget first, then the queue, which is closed once
\* the worker has returned
UaEnqueue(s) ==
    IF uaUsed = UaBudget \/ (uaWorker[s] # "none" /\ uaQueued[s] = UaQueue)
    THEN UNCHANGED <<uaSessions, uaClosed, uaWorker, uaQueued, uaUsed, uaToServer>>
    ELSE IF uaWorker[s] = "none" THEN UaCloseSession(s)
    ELSE /\ uaQueued' = [uaQueued EXCEPT ![s] = @ + 1]
         /\ uaUsed' = uaUsed + 1
         /\ UNCHANGED <<uaSessions, uaClosed, uaWorker, uaToServer>>

UaCreate(s) ==
    /\ uaSessions' = uaSessions \cup {s}
    /\ uaWorker' = [uaWorker EXCEPT ![s] = "idle"]
    /\ IF uaUsed < UaBudget
       THEN /\ uaQueued' = [uaQueued EXCEPT ![s] = 1] /\ uaUsed' = uaUsed + 1
       ELSE UNCHANGED <<uaQueued, uaUsed>>
    /\ UNCHANGED <<uaClosed, uaToServer>>

\* no healthy target, or the socket cannot be made
UaRefuse(s) ==
    /\ uaClosed' = uaClosed \cup {s}
    /\ UaSendClose(s)
    /\ UNCHANGED <<uaSessions, uaWorker, uaQueued, uaUsed>>

UaDatagram(s) ==
    /\ uaUp /\ uaNet[s] > 0
    /\ uaNet' = [uaNet EXCEPT ![s] = @ - 1]
    /\ \/ /\ s \in uaClosed
          /\ UNCHANGED <<uaSessions, uaClosed, uaWorker, uaQueued, uaUsed,
                         uaToServer, uaFaults>>
       \/ s \notin uaClosed /\ s \in uaSessions /\ UaEnqueue(s) /\ UNCHANGED uaFaults
       \/ s \notin uaClosed \cup uaSessions /\ UaCreate(s) /\ UNCHANGED uaFaults
       \/ s \notin uaClosed \cup uaSessions /\ UaFault /\ UaRefuse(s)
    /\ UNCHANGED <<uaUp, uaEvents, uaOpen, uaEnded, uaToClient, uaSends>>

-----------------------------------------------------------------------------
\* The worker: run_target_session.

UaTake(s) ==
    /\ uaWorker[s] = "idle" /\ uaQueued[s] > 0
    /\ uaWorker' = [uaWorker EXCEPT ![s] = "sending"]
    /\ uaQueued' = [uaQueued EXCEPT ![s] = @ - 1]
    /\ UNCHANGED <<uaUp, uaSessions, uaClosed, uaUsed, uaEvents, uaWire, uaSends,
                   uaFaults>>

UaSent(s) ==
    /\ uaWorker[s] = "sending"
    /\ uaWorker' = [uaWorker EXCEPT ![s] = "idle"]
    /\ uaUsed' = uaUsed - 1
    /\ UNCHANGED <<uaUp, uaSessions, uaClosed, uaQueued, uaEvents, uaWire, uaSends,
                   uaFaults>>

\* the target's socket fails: the worker returns, its queue is dropped with
\* it, and the loop is told
UaTargetFails(s) ==
    /\ uaWorker[s] # "none" /\ UaFault
    /\ uaUsed' = uaUsed - UaHeld(s)
    /\ uaWorker' = [uaWorker EXCEPT ![s] = "none"]
    /\ uaQueued' = [uaQueued EXCEPT ![s] = 0]
    /\ uaEvents' = Append(uaEvents, s)
    /\ UNCHANGED <<uaUp, uaSessions, uaClosed, uaWire, uaSends>>

\* the loop ends with the data plane; a new session of the tunnel starts
\* from an empty table, the budget is the same
UaDataPlaneLost ==
    /\ uaUp /\ UaFault
    /\ uaUp' = FALSE
    /\ uaSessions' = {} /\ uaClosed' = {} /\ uaEvents' = <<>>
    /\ uaUsed' = uaUsed - MapThenSumSet(UaHeld, UaIds)
    /\ uaWorker' = [s \in UaIds |-> "none"]
    /\ uaQueued' = [s \in UaIds |-> 0]
    /\ uaOpen' = {} /\ uaEnded' = uaEnded \cup uaOpen
    /\ uaNet' = [s \in UaIds |-> 0]
    /\ uaToServer' = <<>> /\ uaToClient' = <<>>
    /\ UNCHANGED uaSends

UaReconnect ==
    /\ ~uaUp /\ uaUp' = TRUE
    /\ UNCHANGED <<uaSessions, uaClosed, uaTasks, uaWire, uaSends, uaFaults>>

UaNext ==
    \/ UaServerLearns \/ UaControlClose \/ UaSessionEvent
    \/ UaDataPlaneLost \/ UaReconnect
    \/ \E s \in UaIds :
          \/ UaServerSend(s) \/ UaServerCloses(s) \/ UaLose(s)
          \/ UaDatagram(s) \/ UaIdle(s) \/ UaForget(s)
          \/ UaTake(s) \/ UaSent(s) \/ UaTargetFails(s)

UaSpec == UaInit /\ [][UaNext]_uaVars

-----------------------------------------------------------------------------
\* The shared budget is exactly what is queued or being sent: sessions that
\* close, workers that return early and lost data planes give back every
\* permit, so the tunnels never starve.
UaBudgetExact == uaUsed = MapThenSumSet(UaHeld, UaIds)
=============================================================================
