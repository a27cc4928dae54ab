------------------------- MODULE HttpProxyExchange --------------------------
(***************************************************************************)
(* linklake-server/http_proxy_tunnel.rs: a public connection of a forward  *)
(* HTTP proxy. It reads requests one after the other, leases a back-end    *)
(* connection for each, copies the request body and the response at the    *)
(* same time, and keeps either connection only where it knows that a       *)
(* message has ended. Streams are sequences of message parts that name the *)
(* request they belong to; clients may pipeline, back ends may answer      *)
(* before they have read the body, and either may close.                   *)
(***************************************************************************)
EXTENDS Naturals, Sequences, FiniteSets

CONSTANTS
    HxClients,       \* public connections
    HxBackends,      \* back-end connections of one origin
    HxMaxRequests,   \* MAX_REQUESTS_PER_CONNECTION
    HxBodies,        \* numbers of parts a request body may have
    HxAhead,         \* bound on requests a client sends ahead
    HxMaxSends       \* bound on requests sent

ASSUME HxAssumption == {HxMaxRequests, HxAhead, HxMaxSends} \subseteq Nat /\ HxBodies \subseteq Nat

HxFramings == {"none", "length", "eof"}

VARIABLES
    hxSends,    \* requests sent on all connections
    hxSent,     \* client: [k, left] requests begun, body parts not yet sent
    hxIn,       \* parts from the client the proxy has not read
    hxPc,       \* proxy: "reading", "acquire", "exchange", "tunnel",
                \* "closed"
    hxCur,      \* request in progress: [k, body, keep], and the copies:
                \* left, requested, answer, persistent, until
    hxLease,    \* back end of each exchange, 0 for none
    hxIdle,     \* back ends in the pool
    hxOpen,     \* back ends ever connected
    hxReq,      \* parts the back end has not read
    hxBk,       \* back end: [owner, left, answered], owner <<>> for none
    hxResp      \* parts from the back end the proxy has not read

hxVars == <<hxSends, hxSent, hxIn, hxPc, hxCur, hxLease, hxIdle, hxOpen, hxReq, hxBk, hxResp>>
hxClient == <<hxSends, hxSent, hxIn>>
hxBackend == <<hxReq, hxBk, hxResp>>

HxNone == [k |-> 0, body |-> 0, keep |-> FALSE, left |-> 0, requested |-> FALSE,
           answer |-> "wait", persistent |-> FALSE, until |-> "none"]
HxFree == [owner |-> <<>>, left |-> 0, answered |-> FALSE]
\* a back end reads the next request once it has read and answered this one
HxProgress(r) == IF r.left = 0 /\ r.answered THEN HxFree ELSE r
HxGoto(c, pc) == hxPc' = [hxPc EXCEPT ![c] = pc]
HxRequest(c) == <<c, hxCur[c].k>>
HxIsHead(part) == part.part # "body"

HxInit ==
    /\ hxSends = 0
    /\ hxSent = [c \in HxClients |-> [k |-> 0, left |-> 0]]
    /\ hxIn = [c \in HxClients |-> <<>>]
    /\ hxPc = [c \in HxClients |-> "reading"]
    /\ hxCur = [c \in HxClients |-> HxNone]
    /\ hxLease = [c \in HxClients |-> 0]
    /\ hxIdle = {} /\ hxOpen = {}
    /\ hxReq = [b \in HxBackends |-> <<>>]
    /\ hxBk = [b \in HxBackends |-> HxFree]
    /\ hxResp = [b \in HxBackends |-> <<>>]

-----------------------------------------------------------------------------
\* The client sends whole requests in order, without waiting for answers.

HxClientHead(c) ==
    /\ hxPc[c] # "closed"
    /\ hxSent[c].left = 0
    /\ hxSends < HxMaxSends /\ hxSends' = hxSends + 1
    /\ Len(SelectSeq(hxIn[c], HxIsHead)) < HxAhead
    /\ \E body \in HxBodies, kind \in {"head", "connect"} :
          /\ kind = "connect" => body = 0
          /\ hxSent' = [hxSent EXCEPT ![c] = [k |-> @.k + 1, left |-> body]]
          /\ hxIn' = [hxIn EXCEPT ![c] = Append(@,
               [part |-> kind, k |-> hxSent[c].k + 1, body |-> body])]
    /\ UNCHANGED <<hxPc, hxCur, hxLease, hxIdle, hxOpen, hxBackend>>

HxClientBody(c) ==
    /\ hxPc[c] # "closed" /\ hxSent[c].left > 0
    /\ hxSent' = [hxSent EXCEPT ![c].left = @ - 1]
    /\ hxIn' = [hxIn EXCEPT ![c] = Append(@,
         [part |-> "body", k |-> hxSent[c].k, body |-> 0])]
    /\ UNCHANGED <<hxSends, hxPc, hxCur, hxLease, hxIdle, hxOpen, hxBackend>>

-----------------------------------------------------------------------------
\* A back end reads requests in order and answers each once, at any time
\* after its head.

HxBackendHead(b) ==
    /\ hxReq[b] # <<>> /\ hxBk[b].owner = <<>>
    /\ hxBk' = [hxBk EXCEPT ![b] = [owner |-> Head(hxReq[b]).owner,
                                    left |-> Head(hxReq[b]).body, answered |-> FALSE]]
    /\ hxReq' = [hxReq EXCEPT ![b] = Tail(@)]
    /\ UNCHANGED <<hxClient, hxPc, hxCur, hxLease, hxIdle, hxOpen, hxResp>>

HxBackendBody(b) ==
    /\ hxReq[b] # <<>> /\ hxBk[b].left > 0
    /\ hxBk' = [hxBk EXCEPT ![b] = HxProgress([@ EXCEPT !.left = hxBk[b].left - 1])]
    /\ hxReq' = [hxReq EXCEPT ![b] = Tail(@)]
    /\ UNCHANGED <<hxClient, hxPc, hxCur, hxLease, hxIdle, hxOpen, hxResp>>

HxAnswer(owner, framing) ==
    <<[part |-> "head", owner |-> owner, framing |-> framing]>>
       \o (IF framing = "none" THEN <<>>
           ELSE <<[part |-> "body", owner |-> owner, framing |-> framing]>>)

HxBackendAnswers(b) ==
    /\ hxBk[b].owner # <<>> /\ ~hxBk[b].answered
    /\ \E framing \in HxFramings, info \in BOOLEAN :
          hxResp' = [hxResp EXCEPT ![b] = @
             \o (IF info THEN <<[part |-> "info", owner |-> hxBk[b].owner,
                                 framing |-> "none"]>> ELSE <<>>)
             \o HxAnswer(hxBk[b].owner, framing)]
    /\ hxBk' = [hxBk EXCEPT ![b] = HxProgress([@ EXCEPT !.answered = TRUE])]
    /\ UNCHANGED <<hxClient, hxPc, hxCur, hxLease, hxIdle, hxOpen, hxReq>>

-----------------------------------------------------------------------------
\* Reading a request: the next part is taken as its head.

HxClose(c) ==
    /\ HxGoto(c, "closed")
    /\ hxIn' = [hxIn EXCEPT ![c] = <<>>]
    /\ hxSent' = [hxSent EXCEPT ![c] = [k |-> 0, left |-> 0]]
    /\ hxCur' = [hxCur EXCEPT ![c] = HxNone]
    /\ UNCHANGED hxSends

HxReadRequest(c) ==
    /\ hxPc[c] = "reading" /\ hxIn[c] # <<>>
    /\ \E keep \in BOOLEAN : LET head == Head(hxIn[c]) IN
       /\ hxCur' = [hxCur EXCEPT ![c] =
             [HxNone EXCEPT !.k = head.k, !.body = head.body, !.left = head.body,
                            !.keep = keep /\ head.k < HxMaxRequests]]
       /\ HxGoto(c, IF head.part = "connect" THEN "tunnel" ELSE "acquire")
    /\ hxIn' = [hxIn EXCEPT ![c] = Tail(@)]
    /\ UNCHANGED <<hxSends, hxSent, hxLease, hxIdle, hxOpen, hxBackend>>

\* a malformed or unauthenticated request is answered and the connection
\* closed; it also ends with the policy, its lifetime and the client
HxReject(c) ==
    /\ hxPc[c] = "reading"
    /\ HxClose(c)
    /\ UNCHANGED <<hxLease, hxIdle, hxOpen, hxBackend>>

\* no agent answers in time or the pool is full: 502 and the connection ends
HxPairFails(c) ==
    /\ hxPc[c] = "acquire"
    /\ HxClose(c)
    /\ UNCHANGED <<hxLease, hxIdle, hxOpen, hxBackend>>

\* CONNECT: bytes are copied both ways until either side ends
HxTunnelEnds(c) ==
    /\ hxPc[c] = "tunnel"
    /\ HxClose(c)
    /\ UNCHANGED <<hxLease, hxIdle, hxOpen, hxBackend>>

\* acquire_or_connect, then the head is written
HxAcquire(c) ==
    /\ hxPc[c] = "acquire"
    /\ \E b \in HxBackends :
          /\ IF hxIdle # {} THEN b \in hxIdle ELSE b \notin hxOpen
          /\ hxIdle' = hxIdle \ {b} /\ hxOpen' = hxOpen \cup {b}
          /\ hxLease' = [hxLease EXCEPT ![c] = b]
          /\ hxReq' = [hxReq EXCEPT ![b] = Append(@,
               [part |-> "head", owner |-> HxRequest(c), body |-> hxCur[c].body])]
    /\ HxGoto(c, "exchange")
    /\ UNCHANGED <<hxClient, hxCur, hxBk, hxResp>>

-----------------------------------------------------------------------------
\* The exchange: two copies run at once.

HxCopyRequestBody(c) ==
    /\ hxPc[c] = "exchange" /\ hxCur[c].left > 0 /\ hxIn[c] # <<>>
    /\ hxCur[c].answer # "done"
    /\ hxIn' = [hxIn EXCEPT ![c] = Tail(@)]
    /\ hxReq' = [hxReq EXCEPT ![hxLease[c]] = Append(@,
         [part |-> Head(hxIn[c]).part, owner |-> HxRequest(c), body |-> 0])]
    /\ hxCur' = [hxCur EXCEPT ![c].left = @ - 1]
    /\ UNCHANGED <<hxSends, hxSent, hxPc, hxLease, hxIdle, hxOpen, hxBk, hxResp>>

\* the select! takes the finished request first
HxRequestFinished(c) ==
    /\ hxPc[c] = "exchange" /\ hxCur[c].left = 0 /\ ~hxCur[c].requested
    /\ hxCur[c].answer # "done"
    /\ hxCur' = [hxCur EXCEPT ![c].requested = TRUE]
    /\ UNCHANGED <<hxClient, hxPc, hxLease, hxIdle, hxOpen, hxBackend>>

\* the response head says how its body ends and whether the connection persists
HxResponseHead(c, framing) ==
    \E persistent \in BOOLEAN :
       hxCur' = [hxCur EXCEPT ![c].persistent = persistent, ![c].until = framing,
                    ![c].answer = IF framing = "none" THEN "done" ELSE "body"]

\* the body is copied to its length, its last chunk or the end of the stream
HxResponseBody(c) == hxCur' = [hxCur EXCEPT ![c].answer = "done"]

\* copy_http_response: informational heads pass, then the head and the body
HxCopyResponse(c) ==
    /\ hxPc[c] = "exchange" /\ hxCur[c].answer \in {"wait", "body"}
    /\ LET b == hxLease[c]
           part == Head(hxResp[b])
       IN /\ hxResp[b] # <<>>
          /\ \/ hxCur[c].answer = "wait" /\ part.part = "info" /\ UNCHANGED hxCur
             \/ /\ hxCur[c].answer = "wait" /\ part.part # "info"
                /\ HxResponseHead(c, part.framing)
             \/ hxCur[c].answer = "body" /\ HxResponseBody(c)
          /\ hxResp' = [hxResp EXCEPT ![b] = Tail(@)]
    /\ UNCHANGED <<hxClient, hxPc, hxLease, hxIdle, hxOpen, hxReq, hxBk>>

\* mutant: a response that is complete before the request body keeps the
\* connections
HxBackendReusableEarly(c) == hxCur[c].persistent /\ hxCur[c].until # "eof"

\* the back end is kept after a persistent, delimited response to a request
\* that was sent whole before it
HxBackendReusable(c) ==
    hxCur[c].persistent /\ hxCur[c].until # "eof" /\ hxCur[c].requested

\* the client is kept when it asked for it, sent no body and can tell where
\* the response ends
HxClientReusable(c) ==
    /\ hxCur[c].keep /\ hxCur[c].body = 0
    /\ hxCur[c].until # "eof" /\ hxCur[c].requested

HxDiscard(b) ==
    /\ hxReq' = [hxReq EXCEPT ![b] = <<>>]
    /\ hxBk' = [hxBk EXCEPT ![b] = HxFree]
    /\ hxResp' = [hxResp EXCEPT ![b] = <<>>]

\* recycle or discard the lease, read the next request or close
HxFinish(c) ==
    /\ hxPc[c] = "exchange" /\ hxCur[c].answer = "done"
    /\ LET b == hxLease[c] IN
       /\ IF HxBackendReusable(c)
          THEN hxIdle' = hxIdle \cup {b} /\ UNCHANGED hxBackend
          ELSE HxDiscard(b) /\ UNCHANGED hxIdle
       /\ hxLease' = [hxLease EXCEPT ![c] = 0]
    /\ IF HxClientReusable(c)
       THEN HxGoto(c, "reading") /\ hxCur' = [hxCur EXCEPT ![c] = HxNone]
            /\ UNCHANGED hxClient
       ELSE HxClose(c)
    /\ UNCHANGED hxOpen

\* an error or an idle timeout of either copy, the lifetime, the policy's
\* stop: the lease is discarded and the connection closed
HxAbort(c) ==
    /\ hxPc[c] = "exchange"
    /\ hxLease' = [hxLease EXCEPT ![c] = 0]
    /\ HxDiscard(hxLease[c]) /\ HxClose(c)
    /\ UNCHANGED <<hxIdle, hxOpen>>

HxNext ==
    \/ \E c \in HxClients :
          \/ HxClientHead(c) \/ HxClientBody(c) \/ HxReadRequest(c) \/ HxReject(c)
          \/ HxPairFails(c) \/ HxTunnelEnds(c) \/ HxAcquire(c) \/ HxCopyRequestBody(c) \/ HxRequestFinished(c)
          \/ HxCopyResponse(c) \/ HxFinish(c) \/ HxAbort(c)
    \/ \E b \in HxBackends :
          \/ HxBackendHead(b) \/ HxBackendBody(b) \/ HxBackendAnswers(b)

HxSpec == HxInit /\ [][HxNext]_hxVars

-----------------------------------------------------------------------------
\* No message is ever taken for another. The part the proxy reads as a
\* request is the head of one; a back end reads heads as heads and bodies
\* as the bodies of their own requests; and what the proxy copies as the
\* response to a request is the back end's answer to that request, with
\* pipelining clients, early answers and reused connections.
HxNoDesync ==
    /\ \A c \in HxClients : hxPc[c] = "reading" =>
          IF hxIn[c] = <<>> THEN hxSent[c].left = 0 ELSE Head(hxIn[c]).part # "body"
    /\ \A b \in HxBackends : hxReq[b] # <<>> =>
          /\ hxBk[b].owner = <<>> => Head(hxReq[b]).part = "head"
          /\ hxBk[b].left > 0 => /\ Head(hxReq[b]).part = "body"
                                 /\ Head(hxReq[b]).owner = hxBk[b].owner
    /\ \A c \in HxClients : hxPc[c] = "exchange" /\ hxResp[hxLease[c]] # <<>> =>
          Head(hxResp[hxLease[c]]).owner = HxRequest(c)

=============================================================================
