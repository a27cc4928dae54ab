------------------------------ MODULE MCServing ------------------------------
(***************************************************************************)
(* The components that serve: accounts and client identities, tunnels and  *)
(* their UDP and SOCKS5 sessions, peer-to-peer sessions, the HTTP back-end *)
(* pools and the HTTP proxy, Fleet health and the outbox shared by two     *)
(* servers.  They share no variable: an initial state picks the one that   *)
(* moves (focus), and every property speaks of one.                        *)
(***************************************************************************)
EXTENDS FleetHealth, AdminSessions, ClientRegistry, TunnelRegistry, UdpSessions,
        UdpReassembly, P2pSessions, HttpPools, HttpProxyExchange

CONSTANTS p1, p2

VARIABLES
    focus,
    shared, leader, rule, incident, row, batch, received   \* of AlertOutbox

Outbox == INSTANCE AlertOutbox WITH
    Process <- {p1, p2}, Subject <- {"client"}, Channel <- {"webhook"},
    Delivery <- 1..2, MaxAttempts <- 2, LeaseSeconds <- 3, SendTimeout <- 1,
    BackoffBase <- 1, BackoffMax <- 1, Cooldown <- 1, Retention <- 1,
    Capacity <- 1, ClaimLimit <- 1
aoVars == <<shared, leader, rule, incident, row, batch, received>>

\* p1 and p2 are the two server processes of the outbox and, in the components
\* that number nothing by them, the two sessions, requests or connections
MCSymmetry == Permutations({p1, p2})

MCDefault == [success |-> 2, failure |-> 3, cooldown |-> 1]
MCConfigs == {MCDefault, [success |-> 3, failure |-> 2, cooldown |-> 2]}

MCStored == {TnNoRow, [keys |-> {"k1"}, val |-> 1, on |-> TRUE]}

\* two ports of one address and one of another
MCEndpoints == {<<"a", 1>>, <<"a", 2>>, <<"b", 1>>}

\* whole and split datagrams of two sessions, one fragment with two contents
MCFragment(s, d, l, n, i, z, v) ==
    [s |-> s, d |-> d, len |-> l, n |-> n, i |-> i, size |-> z, v |-> v]
MCFragments ==
    {MCFragment("a", 1, 2, 2, 0, 1, 1), MCFragment("a", 1, 2, 2, 1, 1, 1),
     MCFragment("a", 1, 2, 2, 1, 1, 2), MCFragment("a", 2, 2, 1, 0, 2, 1),
     MCFragment("b", 1, 0, 1, 0, 0, 1), MCFragment("b", 2, 3, 2, 0, 1, 1),
     MCFragment("b", 2, 3, 2, 1, 1, 1)}

\* two associations of one source at one tunnel, a third elsewhere
MCRuntimeOf == [a1 |-> "r1", a2 |-> "r1", a3 |-> "r2"]
MCPeer == [a1 |-> "x", a2 |-> "x", a3 |-> "y"]
MCSxEndpoints == {<<"x", 1>>, <<"x", 2>>, <<"y", 1>>}
MCPiece(t, q, l, z, v) == [t |-> t, seq |-> q, last |-> l, size |-> z, v |-> v]
MCPieces ==
    {MCPiece("t", 0, TRUE, 1, 1), MCPiece("t", 1, FALSE, 1, 1),
     MCPiece("t", 2, FALSE, 1, 1), MCPiece("t", 2, TRUE, 2, 1),
     MCPiece("t", 3, TRUE, 1, 1),
     MCPiece("u", 1, FALSE, 1, 1)}
MCLimit(d, f, b) == [dg |-> d, fr |-> f, by |-> b]
MCSession == MCLimit(2, 3, 5)
MCGlobal == MCLimit(3, 4, 5)

MCvars == <<vars, aoVars, auVars, crVars, tnVars, usVars, urVars, sxVars,
            ppVars, uaVars, h1Vars, h2Vars, hxVars, focus>>

MCFh(A) ==
    /\ focus = "health" /\ A
    /\ UNCHANGED <<aoVars, auVars, crVars, tnVars, usVars, urVars, sxVars,
                   ppVars, uaVars, h1Vars, h2Vars, hxVars, focus>>
MCAo(A) ==
    /\ focus = "outbox" /\ A
    /\ UNCHANGED <<vars, auVars, crVars, tnVars, usVars, urVars, sxVars,
                   ppVars, uaVars, h1Vars, h2Vars, hxVars, focus>>
MCAu(A) ==
    /\ focus = "accounts" /\ A
    /\ UNCHANGED <<vars, aoVars, crVars, tnVars, usVars, urVars, sxVars,
                   ppVars, uaVars, h1Vars, h2Vars, hxVars, focus>>
MCCr(A) ==
    /\ focus = "clients" /\ A
    /\ UNCHANGED <<vars, aoVars, auVars, tnVars, usVars, urVars, sxVars,
                   ppVars, uaVars, h1Vars, h2Vars, hxVars, focus>>
MCTn(A) ==
    /\ focus = "tunnels" /\ A
    /\ UNCHANGED <<vars, aoVars, auVars, crVars, usVars, urVars, sxVars,
                   ppVars, uaVars, h1Vars, h2Vars, hxVars, focus>>
MCUs(A) ==
    /\ focus = "udp" /\ A
    /\ UNCHANGED <<vars, aoVars, auVars, crVars, tnVars, urVars, sxVars,
                   ppVars, uaVars, h1Vars, h2Vars, hxVars, focus>>
MCUr(A) ==
    /\ focus = "fragments" /\ A
    /\ UNCHANGED <<vars, aoVars, auVars, crVars, tnVars, usVars, sxVars,
                   ppVars, uaVars, h1Vars, h2Vars, hxVars, focus>>
MCSx(A) ==
    /\ focus = "socks5" /\ A
    /\ UNCHANGED <<vars, aoVars, auVars, crVars, tnVars, usVars, urVars,
                   ppVars, uaVars, h1Vars, h2Vars, hxVars, focus>>
MCPp(A) ==
    /\ focus = "p2p" /\ A
    /\ UNCHANGED <<vars, aoVars, auVars, crVars, tnVars, usVars, urVars,
                   sxVars, uaVars, h1Vars, h2Vars, hxVars, focus>>
MCUa(A) ==
    /\ focus = "agent" /\ A
    /\ UNCHANGED <<vars, aoVars, auVars, crVars, tnVars, usVars, urVars,
                   sxVars, ppVars, h1Vars, h2Vars, hxVars, focus>>
MCH1(A) ==
    /\ focus = "http1" /\ A
    /\ UNCHANGED <<vars, aoVars, auVars, crVars, tnVars, usVars, urVars,
                   sxVars, ppVars, uaVars, h2Vars, hxVars, focus>>
MCH2(A) ==
    /\ focus = "http2" /\ A
    /\ UNCHANGED <<vars, aoVars, auVars, crVars, tnVars, usVars, urVars,
                   sxVars, ppVars, uaVars, h1Vars, hxVars, focus>>
MCHx(A) ==
    /\ focus = "proxy" /\ A
    /\ UNCHANGED <<vars, aoVars, auVars, crVars, tnVars, usVars, urVars,
                   sxVars, ppVars, uaVars, h1Vars, h2Vars, focus>>

MCInit ==
    /\ focus \in {"health", "outbox", "accounts", "clients", "tunnels", "udp", "fragments",
                  "socks5", "p2p", "agent", "http1", "http2", "proxy"}
    /\ Init /\ Outbox!Init /\ AuInit /\ CrInit /\ TnInit /\ UsInit /\ UrInit
    /\ SxInit /\ PpInit /\ UaInit /\ H1Init /\ H2Init /\ HxInit
    /\ focus # "outbox" => shared
    /\ focus # "accounts" => auPg
    /\ focus # "clients" => crPg
    /\ focus # "tunnels" => tnKind = "tcp" /\ \A p \in TnPolicies : tnRow[p] = TnNoRow
    /\ focus # "p2p" => ppPolicy = "relay_only"

MCNext ==
    \/ MCFh(Next) \/ MCAo(Outbox!Next) \/ MCAu(AuNext) \/ MCCr(CrNext) \/ MCTn(TnNext)
    \/ MCUs(UsNext) \/ MCUr(UrNext) \/ MCSx(SxNext) \/ MCPp(PpNext)
    \/ MCUa(UaNext) \/ MCH1(H1Next) \/ MCH2(H2Next) \/ MCHx(HxNext)

MCSpec == MCInit /\ [][MCNext]_MCvars

-----------------------------------------------------------------------------
\* The outbox two servers share: a delivery has one sender at a time, is only
\* marked delivered once it was received, and the queue keeps its capacity.
MCOutboxSound ==
    /\ Outbox!OneSenderAtATime /\ Outbox!DeliveredWasReceived
    /\ Outbox!QueueBounded

\* What a limit counts is what is in use: the UDP sessions of a tunnel and its
\* source entries, incomplete UDP datagrams, SOCKS5 fragments against both
\* budgets, the datagrams an agent has queued, the permits of the HTTP/1.1
\* pool and the active streams of the HTTP/2 pool. A count left behind on one
\* error path would use the limit up for good.
MCCountsExact ==
    /\ UsTablesAgree /\ UrAccounting /\ SxBudgetExact
    /\ UaBudgetExact /\ H1Reclaimable /\ H2ActiveExact
=============================================================================
