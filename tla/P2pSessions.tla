---------------------------- MODULE P2pSessions ----------------------------
(***************************************************************************)
(* One connection of a secret visitor: the session the server offers       *)
(* (p2p_control.rs), the race between the provider's candidates, the       *)
(* ticket the provider has validated, the relay through the server the     *)
(* visitor falls back to, and the provider's candidate registration (both  *)
(* in linklake-client/main.rs). A stream is the numbers 1, 2, ... of its   *)
(* bytes; the Noise and Iroh transports either deliver them or break.      *)
(***************************************************************************)
EXTENDS Naturals, Sequences, FiniteSets

CONSTANTS
    PpPolicies,   \* path policies: "prefer_direct", "direct_only", "relay_only"
    PpBytes,      \* length of the visitor's stream
    PpMaxFaults   \* bound on refused, broken or lost steps and restarts

ASSUME PpAssumption == PpBytes \in Nat /\ PpMaxFaults \in Nat

VARIABLES
    ppPolicy,    \* path_policy of the visitor
    ppIroh,      \* the provider's Iroh endpoint: "none", "building", "ready"
    ppNode,      \* candidates in the node catalogue
    ppFresh,     \* the catalogue's row is at most 120 seconds old
    ppSession,   \* pending session of the offer: "none", "pending", "expired"
    ppPc,        \* progress of the visitor
    ppWhy,       \* what made the visitor's connection fail
    ppOffer,     \* candidates of the offer
    ppConn,      \* direct connections, by transport
    ppWinner,    \* transport that won the race, "" for none
    ppRead,      \* bytes read from the local connection
    ppGot,       \* bytes each leg delivered to its target connection
    ppFaults

ppVars == <<ppPolicy, ppIroh, ppNode, ppFresh, ppSession, ppPc, ppWhy, ppOffer,
            ppConn, ppWinner, ppRead, ppGot, ppFaults>>
ppProvider == <<ppIroh, ppNode, ppFresh>>
ppStream == <<ppRead, ppGot>>

PpTransports == {"tcp", "iroh"}
PpLegs == {"direct", "relay"}

PpFault == ppFaults < PpMaxFaults /\ ppFaults' = ppFaults + 1
PpConnIs(t, s) == ppConn[t] = s
PpSetConn(t, s) == ppConn' = [ppConn EXCEPT ![t] = s]

\* the visitor's task ends with an error
PpFail(why) == ppPc' = "failed" /\ ppWhy' = why

PpInit ==
    /\ ppPolicy \in PpPolicies
    /\ ppIroh = "building" /\ ppNode = {"tcp"} /\ ppFresh = TRUE
    /\ ppSession = "none"
    /\ ppPc = "accepted" /\ ppWhy = "" /\ ppOffer = {}
    /\ ppConn = [t \in PpTransports |-> "none"] /\ ppWinner = ""
    /\ ppRead = 0 /\ ppGot = [l \in PpLegs |-> <<>>]
    /\ ppFaults = 0

-----------------------------------------------------------------------------
\* The provider: run_p2p_provider.

PpIrohBuilt ==
    /\ ppIroh = "building"
    /\ \/ ppIroh' = "ready" /\ UNCHANGED ppFaults
       \/ PpFault /\ ppIroh' = "none"
    /\ UNCHANGED <<ppPolicy, ppNode, ppFresh, ppSession, ppPc, ppWhy, ppOffer,
                   ppConn, ppWinner, ppStream>>

PpIrohRetry ==
    /\ ppIroh = "none" /\ ppIroh' = "building"
    /\ UNCHANGED <<ppPolicy, ppNode, ppFresh, ppSession, ppPc, ppWhy, ppOffer,
                   ppConn, ppWinner, ppStream, ppFaults>>

\* p2p_candidates
PpCandidates == {"tcp"} \cup (IF ppIroh = "ready" THEN {"iroh"} ELSE {})

\* the server's register_node: the catalogue's row is replaced
PpUpsert(candidates) == ppNode' = candidates /\ ppFresh' = TRUE

\* refresh_p2p_registration
PpRegister ==
    /\ <<ppNode, ppFresh>> # <<PpCandidates, TRUE>>
    /\ PpUpsert(PpCandidates)
    /\ UNCHANGED <<ppPolicy, ppIroh, ppSession, ppPc, ppWhy, ppOffer, ppConn,
                   ppWinner, ppStream, ppFaults>>

\* 120 seconds without a refresh
PpStale ==
    /\ ppFresh /\ PpFault /\ ppFresh' = FALSE
    /\ UNCHANGED <<ppPolicy, ppIroh, ppNode, ppSession, ppPc, ppWhy, ppOffer,
                   ppConn, ppWinner, ppStream>>

-----------------------------------------------------------------------------
\* The visitor up to the winner of the race.

PpStart ==
    /\ ppPc = "accepted"
    /\ ppPc' = IF ppPolicy = "relay_only" THEN "connect" ELSE "request"
    /\ UNCHANGED <<ppPolicy, ppProvider, ppSession, ppWhy, ppOffer, ppConn,
                   ppWinner, ppStream, ppFaults>>

\* the server's request_session: a pending session and the fresh candidates
PpGrantOffer ==
    /\ ppSession' = "pending"
    /\ ppOffer' = IF ppFresh THEN ppNode ELSE {}

\* the visitor gets an offer, a refusal, or no control connection
PpRequest ==
    /\ ppPc = "request"
    /\ \/ /\ PpGrantOffer
          /\ ppPc' = IF ppOffer' = {} THEN "fallback" ELSE "dial"
          /\ UNCHANGED <<ppWhy, ppFaults>>
       \/ /\ PpFault /\ ppPc' = "fallback"
          /\ UNCHANGED <<ppSession, ppWhy, ppOffer>>
       \/ PpFault /\ PpFail("server") /\ UNCHANGED <<ppSession, ppOffer>>
    /\ UNCHANGED <<ppPolicy, ppProvider, ppConn, ppWinner, ppStream>>

\* dial_p2p_candidate
PpDial(t) ==
    /\ ppPc = "dial" /\ t \in ppOffer /\ PpConnIs(t, "none")
    /\ \/ /\ t = "tcp" \/ ppIroh = "ready"
          /\ PpSetConn(t, "open") /\ UNCHANGED ppFaults
       \/ /\ t = "iroh" /\ ppIroh # "ready"
          /\ PpSetConn(t, "closed") /\ UNCHANGED ppFaults
       \/ PpFault /\ PpSetConn(t, "closed")
    /\ UNCHANGED <<ppPolicy, ppProvider, ppSession, ppPc, ppWhy, ppOffer,
                   ppWinner, ppStream>>

\* the first attempt to finish wins, the others are aborted
PpWin(t) ==
    /\ ppPc = "dial" /\ PpConnIs(t, "open")
    /\ ppWinner' = t /\ ppPc' = "ticket"
    /\ UNCHANGED <<ppPolicy, ppProvider, ppSession, ppWhy, ppOffer, ppConn,
                   ppStream, ppFaults>>

PpNoWinner ==
    /\ ppPc = "dial" /\ \A t \in ppOffer : PpConnIs(t, "closed")
    /\ ppPc' = "fallback"
    /\ UNCHANGED <<ppPolicy, ppProvider, ppSession, ppWhy, ppOffer, ppConn,
                   ppWinner, ppStream, ppFaults>>

\* mutant: every connection that opened gets the ticket
PpSendTicketToAll ==
    /\ ppPc = "ticket"
    /\ ppConn' = [t \in PpTransports |->
                     IF PpConnIs(t, "open") THEN "ticketed" ELSE ppConn[t]]
    /\ ppPc' = "handshake"
    /\ UNCHANGED <<ppPolicy, ppProvider, ppSession, ppWhy, ppOffer, ppWinner,
                   ppStream, ppFaults>>

\* only the winner's connection carries the ticket
PpSendTicket ==
    /\ ppPc = "ticket"
    /\ ppConn' = [t \in PpTransports |->
                     IF t = ppWinner /\ PpConnIs(t, "open") THEN "ticketed"
                     ELSE IF PpConnIs(t, "open") THEN "closed" ELSE ppConn[t]]
    /\ ppPc' = "handshake"
    /\ UNCHANGED <<ppPolicy, ppProvider, ppSession, ppWhy, ppOffer, ppWinner,
                   ppStream, ppFaults>>

-----------------------------------------------------------------------------
\* The provider's side of a direct connection: handle_p2p_direct and
\* handle_p2p_iroh.

\* the server's validate_ticket: consume_session takes the session out
PpConsume(t) ==
    /\ PpSetConn(t, IF ppSession = "pending" THEN "granted" ELSE "closed")
    /\ ppSession' = "none"

\* the provider reads the ticket and has it validated
PpValidate(t) ==
    /\ PpConnIs(t, "ticketed")
    /\ \/ /\ PpConsume(t)
          /\ UNCHANGED ppFaults
       \/ PpFault /\ PpSetConn(t, "closed") /\ UNCHANGED ppSession
    /\ UNCHANGED <<ppPolicy, ppProvider, ppPc, ppWhy, ppOffer, ppWinner, ppStream>>

\* the target is connected and the handshake answered
PpReady(t) ==
    /\ PpConnIs(t, "granted")
    /\ \/ PpSetConn(t, "up") /\ UNCHANGED ppFaults
       \/ PpFault /\ PpSetConn(t, "closed")
    /\ UNCHANGED <<ppPolicy, ppProvider, ppSession, ppPc, ppWhy, ppOffer,
                   ppWinner, ppStream>>

-----------------------------------------------------------------------------
\* The visitor from the handshake on. A failing Noise handshake ends the
\* task; a failing Iroh stream and a relay that breaks lead to the fallback.

PpHandshake ==
    /\ ppPc = "handshake"
    /\ \/ PpConnIs(ppWinner, "up") /\ ppPc' = "direct" /\ UNCHANGED ppWhy
       \/ /\ PpConnIs(ppWinner, "closed")
          /\ IF ppWinner = "tcp" THEN PpFail("peer")
                                 ELSE ppPc' = "fallback" /\ UNCHANGED ppWhy
    /\ UNCHANGED <<ppPolicy, ppProvider, ppSession, ppOffer, ppConn, ppWinner,
                   ppStream, ppFaults>>

\* relay_encrypted, relay_tcp_quic: a byte is delivered or lost with the
\* connection that breaks
PpDirectByte ==
    /\ ppPc = "direct" /\ ppRead < PpBytes
    /\ ppRead' = ppRead + 1
    /\ \/ /\ ppGot' = [ppGot EXCEPT !.direct = Append(@, ppRead + 1)]
          /\ UNCHANGED <<ppPc, ppConn, ppFaults>>
       \/ /\ PpFault /\ PpSetConn(ppWinner, "closed") /\ ppPc' = "fallback"
          /\ UNCHANGED ppGot
    /\ UNCHANGED <<ppPolicy, ppProvider, ppSession, ppWhy, ppOffer, ppWinner>>

PpRelayByte ==
    /\ ppPc = "relay" /\ ppRead < PpBytes
    /\ ppRead' = ppRead + 1
    /\ ppGot' = [ppGot EXCEPT !.relay = Append(@, ppRead + 1)]
    /\ UNCHANGED <<ppPolicy, ppProvider, ppSession, ppPc, ppWhy, ppOffer, ppConn,
                   ppWinner, ppFaults>>

PpEnd ==
    /\ ppPc \in {"direct", "relay"} /\ ppRead = PpBytes
    /\ ppPc' = "done"
    /\ UNCHANGED <<ppPolicy, ppProvider, ppSession, ppWhy, ppOffer, ppConn,
                   ppWinner, ppStream, ppFaults>>

\* the fallback is reported, and must be acknowledged, before the relay
PpFallback ==
    /\ ppPc = "fallback"
    /\ \/ ppPolicy = "direct_only" /\ PpFail("policy") /\ UNCHANGED ppFaults
       \/ /\ ppPolicy # "direct_only" /\ ppPc' = "connect"
          /\ UNCHANGED <<ppWhy, ppFaults>>
       \/ ppPolicy # "direct_only" /\ PpFault /\ PpFail("server")
    /\ UNCHANGED <<ppPolicy, ppProvider, ppSession, ppOffer, ppConn, ppWinner,
                   ppStream>>

\* ConnectSecretTunnel
PpConnectRelay ==
    /\ ppPc = "connect"
    /\ \/ ppPc' = "relay" /\ UNCHANGED <<ppWhy, ppFaults>>
       \/ PpFault /\ PpFail("server")
    /\ UNCHANGED <<ppPolicy, ppProvider, ppSession, ppOffer, ppConn, ppWinner,
                   ppStream>>

-----------------------------------------------------------------------------
\* the ticket's 30 seconds pass, or the server restarts and forgets its
\* pending sessions
PpExpire ==
    /\ ppSession = "pending" /\ PpFault
    /\ ppSession' \in {"none", "expired"}
    /\ UNCHANGED <<ppPolicy, ppProvider, ppPc, ppWhy, ppOffer, ppConn, ppWinner,
                   ppStream>>

PpVisit ==
    \/ PpStart \/ PpRequest \/ PpNoWinner \/ PpSendTicket \/ PpHandshake
    \/ PpDirectByte \/ PpRelayByte \/ PpEnd \/ PpFallback \/ PpConnectRelay

PpNext ==
    \/ PpIrohBuilt \/ PpIrohRetry \/ PpRegister \/ PpStale
    \/ \E t \in PpTransports : PpDial(t) \/ PpWin(t) \/ PpValidate(t) \/ PpReady(t)
    \/ PpVisit \/ PpExpire

PpSpec == PpInit /\ [][PpNext]_ppVars

-----------------------------------------------------------------------------
\* The one-time ticket is spent on the connection the visitor uses: only the
\* winner of the race is ever let through to the target, so a losing
\* connection cannot use the ticket up.
PpGrantIsWinner ==
    \A t \in PpTransports : ppConn[t] \in {"granted", "up"} => t = ppWinner

\* A visitor that prefers the direct path does not give up because the
\* direct path failed: it goes on to the relay.
PpPreferFallsBack ==
    ppPolicy = "prefer_direct" /\ ppPc = "failed" => ppWhy # "peer"

=============================================================================
