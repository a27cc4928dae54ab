----------------------------- MODULE MCSettling -----------------------------
(***************************************************************************)
(* Three components whose work must come to an end, in one state space:    *)
(* the notification outbox of one server, the pairing of public            *)
(* connections with data connections under a drain, and the configuration  *)
(* a server manages for a client.  They share no variable; an initial      *)
(* state picks the one that moves (focus).                                 *)
(***************************************************************************)
EXTENDS AlertOutbox, TunnelPairing, ManagedConfig

CONSTANT p1

VARIABLE focus

MCvars == <<vars, tpVars, mcVars, focus>>

MCConfigs == {<<"tcp", 1, "a">>, <<"tcp", 1, "b">>, <<"proxy", 1, "a">>}
MCLocal == {<<"tcp", 1, "a">>}

MCOutbox(A) == focus = "outbox" /\ A /\ UNCHANGED <<tpVars, mcVars, focus>>
MCPairing(A) == focus = "pairing" /\ A /\ UNCHANGED <<vars, mcVars, focus>>
MCConfig(A) == focus = "config" /\ A /\ UNCHANGED <<vars, tpVars, focus>>
MCAny(A, B, C) == MCOutbox(A) \/ MCPairing(B) \/ MCConfig(C)

MCInit ==
    /\ focus \in {"outbox", "pairing", "config"}
    /\ Init /\ TpInit /\ McInit
    /\ focus # "outbox" => shared
    /\ focus # "pairing" => tpKind = "tcp" /\ ~tpStall
    /\ focus # "config" => mcMode = "managed"

MCNext == MCAny(Next, TpNext, McNext)

\* The fairness of the three modules. A behaviour keeps its focus, so weak
\* fairness of a disjunction is weak fairness of the disjunct in focus.
MCSpec ==
    /\ MCInit /\ [][MCNext]_MCvars
    /\ WF_MCvars(MCAny(Tick, TpServe(1), McStart))
    /\ WF_MCvars(MCAny(ClaimSome(p1), TpServe(2), McSupervise))
    /\ WF_MCvars(MCAny(Send(p1), TpPair(1), McServe(1)))
    /\ WF_MCvars(MCAny(Settle(p1), TpPair(2), McServe(2)))
    /\ WF_MCvars(MCPairing(TpHandOver(1))) /\ WF_MCvars(MCPairing(TpHandOver(2)))
    /\ WF_MCvars(MCPairing(TpWrite)) /\ WF_MCvars(MCPairing(TpFairReads))

-----------------------------------------------------------------------------
\* McConverges where the configuration moves: when policies and faults stop,
\* the client runs the server's policies and the server records that it does.
MCConfigConverges == focus = "config" => McConverges
=============================================================================
