--------------------------- MODULE HttpProxyProofs ---------------------------
(***************************************************************************)
(* Proofs about HttpProxyExchange, for any set of public connections and   *)
(* back ends, any sizes of request bodies and any number of requests.      *)
(***************************************************************************)
EXTENDS HttpProxyExchange, TLAPS

HxOwners == HxClients \X Nat
HxPcs == {"reading", "acquire", "exchange", "tunnel", "closed"}
HxInParts == [part : {"head", "connect", "body"}, k : Nat, body : Nat]
HxReqParts == [part : {"head", "body"}, owner : HxOwners, body : Nat]
HxRespParts == [part : {"info", "head", "body"}, owner : HxOwners, framing : HxFramings]
HxSents == [k : Nat, left : Nat]
HxCurs == [k : Nat, body : Nat, keep : BOOLEAN, left : Nat, requested : BOOLEAN,
           answer : {"wait", "body", "done"}, persistent : BOOLEAN, until : HxFramings]
HxBks == [owner : HxOwners \cup {<<>>}, left : Nat, answered : BOOLEAN]

HxTypeOK ==
    /\ hxSent \in [HxClients -> HxSents]
    /\ hxIn \in [HxClients -> Seq(HxInParts)]
    /\ hxPc \in [HxClients -> HxPcs]
    /\ hxCur \in [HxClients -> HxCurs]
    /\ hxLease \in [HxClients -> HxBackends \cup {0}]
    /\ hxIdle \subseteq hxOpen /\ hxOpen \subseteq HxBackends
    /\ hxReq \in [HxBackends -> Seq(HxReqParts)]
    /\ hxBk \in [HxBackends -> HxBks]
    /\ hxResp \in [HxBackends -> Seq(HxRespParts)]

\* s continues a request of which n body parts are still to come, every head
\* is followed by its body, and the last request lacks e parts: left[i] parts
\* of a body follow the part i
HxCounts(s, left) ==
    \A i \in 1..Len(s) :
       IF s[i].part = "body" THEN left[i - 1] = left[i] + 1
       ELSE /\ left[i - 1] = 0 /\ left[i] = s[i].body
            /\ s[i].part = "connect" => s[i].body = 0
HxStream(s, n, e) ==
    \E left \in [0..Len(s) -> Nat] : left[0] = n /\ left[Len(s)] = e /\ HxCounts(s, left)

\* what the proxy has not read from a client goes on where the proxy stopped
HxClientOk(pc, cur, in, sent) ==
    /\ pc = "reading" => HxStream(in, 0, sent.left)
    /\ pc \in {"acquire", "exchange"} => HxStream(in, cur.left, sent.left)
    /\ cur.left <= cur.body
    /\ cur.requested => cur.left = 0
    /\ pc = "acquire" => cur.answer = "wait" /\ cur.left = cur.body

\* a back end has at most one exchange, and none while it is idle
HxLeasesOk ==
    \A c \in HxClients : hxPc[c] = "exchange" =>
       /\ hxLease[c] \in hxOpen \ hxIdle
       /\ \A d \in HxClients : hxPc[d] = "exchange" /\ hxLease[d] = hxLease[c] => d = c

HxBkOk(bk) ==
    /\ bk.owner = <<>> => bk.left = 0 /\ ~bk.answered
    /\ bk.answered => bk.left > 0

HxOnlyBodies(s, o) == \A i \in 1..Len(s) : s[i].part = "body" /\ s[i].owner = o
\* no request that the back end has begun to read waits for its answer
HxSettled(bk) == bk.owner = <<>> \/ bk.answered

\* without an exchange: at most the rest of a body that was answered early
HxIdleOk(req, bk, resp) ==
    /\ HxOnlyBodies(req, bk.owner) /\ Len(req) = bk.left
    /\ HxSettled(bk) /\ resp = <<>>

\* what is left of the answer to o
HxRest(s, o, answer) ==
    /\ \A i \in 1..Len(s) : s[i].owner = o
    /\ answer = "done" => s = <<>>
    /\ answer = "body" => Len(s) = 1
    /\ answer = "wait" =>
         \/ Len(s) = 1 /\ s[1].part = "head" /\ s[1].framing = "none"
         \/ Len(s) = 2 /\ s[1].part = "head" /\ s[1].framing # "none"
         \/ Len(s) = 2 /\ s[1].part = "info" /\ s[2].part = "head" /\ s[2].framing = "none"
         \/ Len(s) = 3 /\ s[1].part = "info" /\ s[2].part = "head" /\ s[2].framing # "none"

\* the back end has not read the head of request o: before it is the rest of
\* an answered request, after it the part of its body that was copied
HxUnread(o, cur, req, bk, resp) ==
    /\ Len(req) = bk.left + 1 + cur.body - cur.left
    /\ \A i \in 1..Len(req) :
          /\ req[i].part = IF i = bk.left + 1 THEN "head" ELSE "body"
          /\ req[i].owner = IF i < bk.left + 1 THEN bk.owner ELSE o
    /\ req[bk.left + 1].body = cur.body
    /\ HxSettled(bk) /\ resp = <<>> /\ cur.answer = "wait"

\* the back end has read it
HxRead(o, cur, req, bk, resp) ==
    /\ Len(req) + cur.left = bk.left
    /\ HxOnlyBodies(req, o)
    /\ bk.owner \in {<<>>, o}
    /\ HxSettled(bk) => HxRest(resp, o, cur.answer)
    /\ ~HxSettled(bk) => resp = <<>> /\ cur.answer = "wait"

HxBusy(o, cur, req, bk, resp) ==
    HxUnread(o, cur, req, bk, resp) \/ HxRead(o, cur, req, bk, resp)

\* The inductive invariant of the exchanges.
HxIInv ==
    /\ HxTypeOK
    /\ \A c \in HxClients : HxClientOk(hxPc[c], hxCur[c], hxIn[c], hxSent[c])
    /\ HxLeasesOk
    /\ \A b \in HxBackends : HxBkOk(hxBk[b])
    /\ \A c \in HxClients : hxPc[c] = "exchange" =>
          HxBusy(<<c, hxCur[c].k>>, hxCur[c], hxReq[hxLease[c]], hxBk[hxLease[c]],
                 hxResp[hxLease[c]])
    /\ \A b \in HxBackends :
          (\A c \in HxClients : hxPc[c] = "exchange" => hxLease[c] # b) =>
          HxIdleOk(hxReq[b], hxBk[b], hxResp[b])

-----------------------------------------------------------------------------
\* the parts of a sequence without its first one
LEMMA HxTail ==
    ASSUME NEW S, NEW s \in Seq(S), s # <<>>
    PROVE  /\ Tail(s) \in Seq(S) /\ Len(s) \in Nat \ {0} /\ Len(Tail(s)) = Len(s) - 1
           /\ \A i \in 1..Len(Tail(s)) : Tail(s)[i] = s[i + 1]
           /\ Head(s) = s[1] /\ s[1] \in S
OBVIOUS

\* the parts of a sequence with one more
LEMMA HxAppend ==
    ASSUME NEW S, NEW s \in Seq(S), NEW x \in S
    PROVE  /\ Append(s, x) \in Seq(S) /\ Len(s) \in Nat /\ Len(Append(s, x)) = Len(s) + 1
           /\ \A i \in 1..Len(s) : Append(s, x)[i] = s[i]
           /\ Append(s, x)[Len(s) + 1] = x
OBVIOUS

\* A stream stays well formed when the client sends the next part in order.
LEMMA HxStreamGrows ==
    ASSUME NEW s \in Seq(HxInParts), NEW n, NEW e \in Nat, HxStream(s, n, e),
           NEW x \in HxInParts, NEW m \in Nat,
           IF x.part = "body" THEN e = m + 1
           ELSE e = 0 /\ m = x.body /\ (x.part = "connect" => x.body = 0)
    PROVE  HxStream(Append(s, x), n, m)
<1> DEFINE u == Append(s, x)
<1>1. /\ Len(s) \in Nat /\ Len(u) = Len(s) + 1 /\ u[Len(s) + 1] = x
      /\ \A i \in 1..Len(s) : u[i] = s[i]
  BY HxAppend
<1> HIDE DEF u
<1>2. PICK left \in [0..Len(s) -> Nat] : left[0] = n /\ left[Len(s)] = e /\ HxCounts(s, left)
  BY Zenon DEF HxStream
<1> DEFINE more == [i \in 0..Len(u) |-> IF i <= Len(s) THEN left[i] ELSE m]
<1>3. more \in [0..Len(u) -> Nat] /\ more[0] = n /\ more[Len(u)] = m
  BY <1>1, <1>2
<1>4. more[Len(s)] = e /\ \A i \in 0..Len(s) : more[i] = left[i]
  BY <1>1, <1>2
<1> HIDE DEF more
<1>5. HxCounts(u, more)
  <2> SUFFICES ASSUME NEW i \in 1..Len(u)
               PROVE  IF u[i].part = "body" THEN more[i - 1] = more[i] + 1
                      ELSE /\ more[i - 1] = 0 /\ more[i] = u[i].body
                           /\ u[i].part = "connect" => u[i].body = 0
    BY Zenon DEF HxCounts
  <2>1. CASE i = Len(s) + 1
    BY <1>1, <1>3, <1>4, <2>1
  <2>2. CASE i \in 1..Len(s)
    <3>1. u[i] = s[i] /\ more[i] = left[i] /\ more[i - 1] = left[i - 1]
      BY <1>1, <1>4, <2>2
    <3> QED BY <1>2, <2>2, <3>1, Zenon DEF HxCounts
  <2> QED BY <1>1, <2>1, <2>2
<1> QED BY <1>3, <1>5, Zenon DEF HxStream, u

\* A stream whose first part is read: after a body a head comes first, before
\* the end of a body a part of it.
LEMMA HxStreamShrinks ==
    ASSUME NEW s \in Seq(HxInParts), s # <<>>, NEW n \in Nat, NEW e, HxStream(s, n, e)
    PROVE  /\ n > 0 => s[1].part = "body" /\ HxStream(Tail(s), n - 1, e)
           /\ n = 0 => s[1].part # "body" /\ HxStream(Tail(s), s[1].body, e)
           /\ s[1].part = "connect" => s[1].body = 0
<1> DEFINE u == Tail(s)
<1>1. /\ Len(s) \in Nat \ {0} /\ Len(u) = Len(s) - 1 /\ s[1] \in HxInParts
      /\ \A i \in 1..Len(u) : u[i] = s[i + 1]
  BY HxTail
<1> HIDE DEF u
<1>2. PICK left \in [0..Len(s) -> Nat] : left[0] = n /\ left[Len(s)] = e /\ HxCounts(s, left)
  BY Zenon DEF HxStream
<1> DEFINE less == [i \in 0..Len(u) |-> left[i + 1]]
<1>3. /\ less \in [0..Len(u) -> Nat] /\ less[0] = left[1] /\ less[Len(u)] = e
      /\ \A i \in 0..Len(u) : less[i] = left[i + 1]
  BY <1>1, <1>2
<1>4. IF s[1].part = "body" THEN n = left[1] + 1
      ELSE n = 0 /\ left[1] = s[1].body /\ (s[1].part = "connect" => s[1].body = 0)
  BY <1>1, <1>2 DEF HxCounts
<1> HIDE DEF less
<1>5. HxCounts(u, less)
  <2> SUFFICES ASSUME NEW i \in 1..Len(u)
               PROVE  IF u[i].part = "body" THEN less[i - 1] = less[i] + 1
                      ELSE /\ less[i - 1] = 0 /\ less[i] = u[i].body
                           /\ u[i].part = "connect" => u[i].body = 0
    BY Zenon DEF HxCounts
  <2>1. i + 1 \in 1..Len(s) /\ u[i] = s[i + 1] /\ less[i - 1] = left[(i + 1) - 1]
        /\ less[i] = left[i + 1]
    BY <1>1, <1>3
  <2> QED BY <1>2, <2>1, Zenon DEF HxCounts
<1>6. HxStream(u, left[1], e)
  BY <1>3, <1>5, Zenon DEF HxStream
<1>7. left[1] \in Nat
  BY <1>1, <1>2
<1>8. n > 0 => s[1].part = "body" /\ left[1] = n - 1
  BY <1>4, <1>7
<1>9. n = 0 => s[1].part # "body" /\ left[1] = s[1].body
  BY <1>4, <1>7
<1>10. s[1].part = "connect" => s[1].body = 0
  BY <1>4
<1> QED BY <1>6, <1>8, <1>9, <1>10, Zenon DEF u

-----------------------------------------------------------------------------
\* A step of the client, or one of the proxy outside an exchange, keeps the
\* invariant when it keeps the client's part of it.
LEMMA HxClientSide ==
    ASSUME HxIInv, HxTypeOK', NEW c \in HxClients,
           UNCHANGED <<hxLease, hxIdle, hxOpen, hxReq, hxBk, hxResp>>,
           \A d \in HxClients \ {c} : /\ hxPc'[d] = hxPc[d] /\ hxCur'[d] = hxCur[d]
                                      /\ hxIn'[d] = hxIn[d] /\ hxSent'[d] = hxSent[d],
           \/ hxPc'[c] = hxPc[c] /\ hxCur'[c] = hxCur[c]
           \/ hxPc[c] # "exchange" /\ hxPc'[c] # "exchange",
           HxClientOk(hxPc'[c], hxCur'[c], hxIn'[c], hxSent'[c])
    PROVE  HxIInv'
<1>1. \A d \in HxClients : /\ hxPc'[d] = "exchange" <=> hxPc[d] = "exchange"
                           /\ hxPc[d] = "exchange" => hxCur'[d] = hxCur[d]
  BY Zenon
<1>2. \A d \in HxClients : HxClientOk(hxPc'[d], hxCur'[d], hxIn'[d], hxSent'[d])
  BY Zenon DEF HxIInv
<1>3. HxLeasesOk'
  BY <1>1, Zenon DEF HxIInv, HxLeasesOk
<1> QED BY <1>1, <1>2, <1>3, Zenon DEF HxIInv

\* A step of a back end keeps the invariant when it keeps the back end's part
\* of it, with the exchange that holds it or without one.
LEMMA HxBackSide ==
    ASSUME HxIInv, HxTypeOK', NEW b \in HxBackends,
           UNCHANGED <<hxSent, hxIn, hxPc, hxCur, hxLease, hxIdle, hxOpen>>,
           \A x \in HxBackends \ {b} : /\ hxReq'[x] = hxReq[x] /\ hxBk'[x] = hxBk[x]
                                       /\ hxResp'[x] = hxResp[x],
           HxBkOk(hxBk'[b]),
           \A o, cur : o \in HxOwners /\ cur \in HxCurs /\ cur.left <= cur.body
                       /\ HxBusy(o, cur, hxReq[b], hxBk[b], hxResp[b])
                       => HxBusy(o, cur, hxReq'[b], hxBk'[b], hxResp'[b]),
           HxIdleOk(hxReq[b], hxBk[b], hxResp[b]) => HxIdleOk(hxReq'[b], hxBk'[b], hxResp'[b])
    PROVE  HxIInv'
<1>1. \A x \in HxBackends : HxBkOk(hxBk'[x])
  BY Zenon DEF HxIInv
<1>2. HxLeasesOk'
  BY Zenon DEF HxIInv, HxLeasesOk
<1>3. ASSUME NEW c \in HxClients, hxPc[c] = "exchange"
      PROVE  HxBusy(<<c, hxCur[c].k>>, hxCur[c], hxReq'[hxLease[c]], hxBk'[hxLease[c]],
                    hxResp'[hxLease[c]])
  <2>1. hxLease[c] \in HxBackends
    BY <1>3, Zenon DEF HxIInv, HxLeasesOk, HxTypeOK
  <2>2. hxCur[c] \in HxCurs
    BY Zenon DEF HxIInv, HxTypeOK
  <2>3. <<c, hxCur[c].k>> \in HxOwners
    BY <2>2 DEF HxCurs, HxOwners
  <2>4. hxCur[c].left <= hxCur[c].body
    BY Zenon DEF HxIInv, HxClientOk
  <2>5. HxBusy(<<c, hxCur[c].k>>, hxCur[c], hxReq[hxLease[c]], hxBk[hxLease[c]],
               hxResp[hxLease[c]])
    BY <1>3, Zenon DEF HxIInv
  <2> QED BY <2>1, <2>2, <2>3, <2>4, <2>5, Zenon
<1>4. ASSUME NEW x \in HxBackends,
             \A c \in HxClients : hxPc[c] = "exchange" => hxLease[c] # x
      PROVE  HxIdleOk(hxReq'[x], hxBk'[x], hxResp'[x])
  BY <1>4, Zenon DEF HxIInv
<1> QED BY <1>1, <1>2, <1>3, <1>4, Zenon DEF HxIInv

\* A step of one of the two copies of an exchange keeps the invariant when it
\* keeps what the exchange and its back end have in common.
LEMMA HxExchangeSide ==
    ASSUME HxIInv, HxTypeOK', NEW c \in HxClients, hxPc[c] = "exchange",
           UNCHANGED <<hxPc, hxLease, hxIdle, hxOpen, hxBk>>,
           \A d \in HxClients \ {c} : /\ hxCur'[d] = hxCur[d]
                                      /\ hxIn'[d] = hxIn[d] /\ hxSent'[d] = hxSent[d],
           \A x \in HxBackends \ {hxLease[c]} : hxReq'[x] = hxReq[x] /\ hxResp'[x] = hxResp[x],
           HxClientOk(hxPc[c], hxCur'[c], hxIn'[c], hxSent'[c]),
           HxBusy(<<c, hxCur'[c].k>>, hxCur'[c], hxReq'[hxLease[c]], hxBk[hxLease[c]],
                  hxResp'[hxLease[c]])
    PROVE  HxIInv'
<1>1. \A d \in HxClients : HxClientOk(hxPc'[d], hxCur'[d], hxIn'[d], hxSent'[d])
  BY Zenon DEF HxIInv
<1>2. HxLeasesOk'
  BY Zenon DEF HxIInv, HxLeasesOk
<1>3. ASSUME NEW d \in HxClients, hxPc[d] = "exchange"
      PROVE  HxBusy(<<d, hxCur'[d].k>>, hxCur'[d], hxReq'[hxLease[d]], hxBk[hxLease[d]],
                    hxResp'[hxLease[d]])
  <2>1. CASE d = c
    BY <2>1, Zenon
  <2>2. CASE d # c
    <3>1. hxLease[d] \in HxBackends /\ hxLease[d] # hxLease[c]
      BY <1>3, <2>2, Zenon DEF HxIInv, HxLeasesOk, HxTypeOK
    <3> QED BY <1>3, <2>2, <3>1, Zenon DEF HxIInv
  <2> QED BY <2>1, <2>2, Zenon
<1>4. ASSUME NEW x \in HxBackends,
             \A d \in HxClients : hxPc[d] = "exchange" => hxLease[d] # x
      PROVE  HxIdleOk(hxReq'[x], hxBk[x], hxResp'[x])
  BY <1>4, Zenon DEF HxIInv
<1>5. \A x \in HxBackends : HxBkOk(hxBk'[x])
  BY Zenon DEF HxIInv
<1> QED BY <1>1, <1>2, <1>3, <1>4, <1>5, Zenon DEF HxIInv

\* The end of an exchange keeps the invariant when its back end is left as one
\* without an exchange, in the pool or discarded.
LEMMA HxEndSide ==
    ASSUME HxIInv, HxTypeOK', NEW c \in HxClients, hxPc[c] = "exchange",
           hxPc'[c] # "exchange", UNCHANGED hxOpen,
           hxIdle' \subseteq hxIdle \cup {hxLease[c]},
           \A d \in HxClients \ {c} : /\ hxPc'[d] = hxPc[d] /\ hxCur'[d] = hxCur[d]
                                      /\ hxIn'[d] = hxIn[d] /\ hxSent'[d] = hxSent[d]
                                      /\ hxLease'[d] = hxLease[d],
           \A x \in HxBackends \ {hxLease[c]} : /\ hxReq'[x] = hxReq[x] /\ hxBk'[x] = hxBk[x]
                                                /\ hxResp'[x] = hxResp[x],
           HxClientOk(hxPc'[c], hxCur'[c], hxIn'[c], hxSent'[c]),
           HxBkOk(hxBk'[hxLease[c]]),
           HxIdleOk(hxReq'[hxLease[c]], hxBk'[hxLease[c]], hxResp'[hxLease[c]])
    PROVE  HxIInv'
<1>1. \A d \in HxClients : HxClientOk(hxPc'[d], hxCur'[d], hxIn'[d], hxSent'[d])
  BY Zenon DEF HxIInv
<1>2. ASSUME NEW d \in HxClients, hxPc'[d] = "exchange"
      PROVE  /\ d \in HxClients \ {c} /\ hxPc[d] = "exchange" /\ hxLease'[d] = hxLease[d]
             /\ hxLease[d] # hxLease[c] /\ hxLease[d] \in hxOpen \ hxIdle
             /\ hxLease[d] \in HxBackends /\ hxCur'[d] = hxCur[d]
  <2>1. d \in HxClients \ {c}
    BY <1>2, Zenon
  <2>2. hxPc[d] = "exchange" /\ hxLease'[d] = hxLease[d] /\ hxCur'[d] = hxCur[d]
    BY <1>2, <2>1, Zenon
  <2> QED BY <2>1, <2>2, Zenon DEF HxIInv, HxLeasesOk, HxTypeOK
<1>3. HxLeasesOk'
  <2> SUFFICES ASSUME NEW d \in HxClients, hxPc'[d] = "exchange"
               PROVE  /\ hxLease'[d] \in hxOpen \ hxIdle'
                      /\ \A x \in HxClients :
                            hxPc'[x] = "exchange" /\ hxLease'[x] = hxLease'[d] => x = d
    BY Zenon DEF HxLeasesOk
  <2>1. hxLease'[d] \in hxOpen \ hxIdle'
    BY <1>2, Zenon
  <2>2. ASSUME NEW x \in HxClients, hxPc'[x] = "exchange", hxLease'[x] = hxLease'[d]
        PROVE  x = d
    <3>1. hxPc[x] = "exchange" /\ hxPc[d] = "exchange" /\ hxLease[x] = hxLease[d]
      BY <1>2, <2>2, Zenon
    <3> QED BY <3>1, Zenon DEF HxIInv, HxLeasesOk
  <2> QED BY <2>1, <2>2, Zenon
<1>4. ASSUME NEW d \in HxClients, hxPc'[d] = "exchange"
      PROVE  HxBusy(<<d, hxCur'[d].k>>, hxCur'[d], hxReq'[hxLease'[d]], hxBk'[hxLease'[d]],
                    hxResp'[hxLease'[d]])
  <2>1. /\ hxPc[d] = "exchange" /\ hxLease'[d] = hxLease[d] /\ hxCur'[d] = hxCur[d]
        /\ hxLease[d] \in HxBackends \ {hxLease[c]}
    BY <1>2, <1>4, Zenon
  <2> QED BY <2>1, Zenon DEF HxIInv
<1>5. ASSUME NEW x \in HxBackends,
             \A d \in HxClients : hxPc'[d] = "exchange" => hxLease'[d] # x
      PROVE  HxIdleOk(hxReq'[x], hxBk'[x], hxResp'[x])
  <2>1. CASE x = hxLease[c]
    BY <2>1, Zenon
  <2>2. CASE x # hxLease[c]
    <3>1. ASSUME NEW d \in HxClients, hxPc[d] = "exchange" PROVE hxLease[d] # x
      BY <1>5, <2>2, <3>1, Zenon
    <3>2. hxReq'[x] = hxReq[x] /\ hxBk'[x] = hxBk[x] /\ hxResp'[x] = hxResp[x]
      BY <2>2, Zenon
    <3> QED BY <3>1, <3>2, Zenon DEF HxIInv
  <2> QED BY <2>1, <2>2, Zenon
<1>6. \A x \in HxBackends : HxBkOk(hxBk'[x])
  BY Zenon DEF HxIInv
<1> QED BY <1>1, <1>3, <1>4, <1>5, <1>6, Zenon DEF HxIInv

\* the owner of a request is not the owner of none
LEMMA HxOwnerReal == ASSUME NEW o \in HxOwners PROVE o # <<>>
<1>1. PICK c \in HxClients, k \in Nat : o = <<c, k>>
  BY DEF HxOwners
<1>2. <<c, k>> # <<>>
  OBVIOUS
<1> QED BY <1>1, <1>2, Zenon

\* one entry of a table changes
LEMMA HxUpdate ==
    ASSUME NEW A, NEW B, NEW f \in [A -> B], NEW a \in A, NEW v \in B,
           NEW g, g = [f EXCEPT ![a] = v]
    PROVE  g \in [A -> B] /\ g[a] = v /\ \A x \in A \ {a} : g[x] = f[x]
OBVIOUS

-----------------------------------------------------------------------------
\* the state of one client
LEMMA HxClientFields ==
    ASSUME HxIInv, NEW c \in HxClients
    PROVE  /\ hxSent[c] \in HxSents /\ hxIn[c] \in Seq(HxInParts) /\ hxPc[c] \in HxPcs
           /\ hxCur[c] \in HxCurs /\ HxClientOk(hxPc[c], hxCur[c], hxIn[c], hxSent[c])
BY Zenon DEF HxIInv, HxTypeOK

\* A client that sends the next part in order keeps the invariant.
LEMMA HxClientSends ==
    ASSUME HxIInv, NEW c \in HxClients, NEW x \in HxInParts, NEW t \in HxSents,
           hxIn' = [hxIn EXCEPT ![c] = Append(hxIn[c], x)],
           hxSent' = [hxSent EXCEPT ![c] = t],
           IF x.part = "body" THEN hxSent[c].left = t.left + 1
           ELSE /\ hxSent[c].left = 0 /\ t.left = x.body
                /\ x.part = "connect" => x.body = 0,
           UNCHANGED <<hxPc, hxCur, hxLease, hxIdle, hxOpen, hxReq, hxBk, hxResp>>
    PROVE  HxIInv'
<1> USE HxClientFields
<1>1. Append(hxIn[c], x) \in Seq(HxInParts) /\ hxSent[c].left \in Nat /\ t.left \in Nat
  BY DEF HxSents
<1>2. /\ hxIn' \in [HxClients -> Seq(HxInParts)] /\ hxIn'[c] = Append(hxIn[c], x)
      /\ \A d \in HxClients \ {c} : hxIn'[d] = hxIn[d]
  BY <1>1, HxUpdate, Zenon DEF HxIInv, HxTypeOK
<1>3. /\ hxSent' \in [HxClients -> HxSents] /\ hxSent'[c] = t
      /\ \A d \in HxClients \ {c} : hxSent'[d] = hxSent[d]
  BY HxUpdate, Zenon DEF HxIInv, HxTypeOK
<1>4. HxTypeOK'
  BY <1>2, <1>3, Zenon DEF HxIInv, HxTypeOK
<1>5. \A n : HxStream(hxIn[c], n, hxSent[c].left) => HxStream(Append(hxIn[c], x), n, t.left)
  BY <1>1, HxStreamGrows, Zenon
<1>6. HxClientOk(hxPc'[c], hxCur'[c], hxIn'[c], hxSent'[c])
  BY <1>2, <1>3, <1>5, Zenon DEF HxClientOk
<1> QED BY <1>2, <1>3, <1>4, <1>6, HxClientSide, Zenon

\* The client sends the head of a request.
LEMMA HxClientHeadKeeps ==
    ASSUME HxIInv, NEW c \in HxClients, HxClientHead(c) PROVE HxIInv'
<1>1. PICK body \in HxBodies, kind \in {"head", "connect"} :
         /\ kind = "connect" => body = 0
         /\ hxSent' = [hxSent EXCEPT ![c] = [k |-> @.k + 1, left |-> body]]
         /\ hxIn' = [hxIn EXCEPT ![c] = Append(@,
              [part |-> kind, k |-> hxSent[c].k + 1, body |-> body])]
  BY Zenon DEF HxClientHead
<1> DEFINE x == [part |-> kind, k |-> hxSent[c].k + 1, body |-> body]
           t == [k |-> hxSent[c].k + 1, left |-> body]
<1>2. body \in Nat
  BY HxAssumption, Zenon DEF HxAssumption
<1>3. hxSent[c].k + 1 \in Nat
  BY HxClientFields DEF HxSents
<1>4. /\ x \in HxInParts /\ t \in HxSents
      /\ x.part = kind /\ x.body = body /\ t.left = body
  BY <1>2, <1>3, Zenon DEF HxInParts, HxSents
<1>5. hxIn' = [hxIn EXCEPT ![c] = Append(hxIn[c], x)] /\ hxSent' = [hxSent EXCEPT ![c] = t]
  BY <1>1, Zenon
<1>6. kind # "body"
  OBVIOUS
<1> HIDE DEF x, t
<1>7. /\ hxSent[c].left = 0
      /\ UNCHANGED <<hxPc, hxCur, hxLease, hxIdle, hxOpen, hxReq, hxBk, hxResp>>
  BY Zenon DEF HxClientHead, hxBackend
<1>8. IF x.part = "body" THEN hxSent[c].left = t.left + 1
      ELSE /\ hxSent[c].left = 0 /\ t.left = x.body
           /\ x.part = "connect" => x.body = 0
  BY <1>1, <1>4, <1>6, <1>7, Zenon
<1> QED BY <1>4, <1>5, <1>7, <1>8, HxClientSends, Zenon

\* The client sends a part of its body.
LEMMA HxClientBodyKeeps ==
    ASSUME HxIInv, NEW c \in HxClients, HxClientBody(c) PROVE HxIInv'
<1> DEFINE x == [part |-> "body", k |-> hxSent[c].k, body |-> 0]
           t == [hxSent[c] EXCEPT !.left = hxSent[c].left - 1]
<1>1. /\ x \in HxInParts /\ t \in HxSents /\ x.part = "body"
      /\ hxSent[c].left = t.left + 1
  BY HxClientFields DEF HxInParts, HxSents, HxClientBody
<1>2. hxIn' = [hxIn EXCEPT ![c] = Append(hxIn[c], x)] /\ hxSent' = [hxSent EXCEPT ![c] = t]
  BY DEF HxClientBody
<1> HIDE DEF x, t
<1> QED BY <1>1, <1>2, HxClientSends, Zenon DEF HxClientBody, hxBackend

\* read_proxy_request: the proxy takes the next part for the head of a request,
\* and it is one.
LEMMA HxReadRequestKeeps ==
    ASSUME HxIInv, NEW c \in HxClients, HxReadRequest(c) PROVE HxIInv'
<1> USE HxClientFields
<1>1. PICK keep \in BOOLEAN :
         /\ hxCur' = [hxCur EXCEPT ![c] =
               [HxNone EXCEPT !.k = Head(hxIn[c]).k, !.body = Head(hxIn[c]).body,
                              !.left = Head(hxIn[c]).body,
                              !.keep = keep /\ Head(hxIn[c]).k < HxMaxRequests]]
         /\ HxGoto(c, IF Head(hxIn[c]).part = "connect" THEN "tunnel" ELSE "acquire")
  BY Zenon DEF HxReadRequest
<1> DEFINE h == Head(hxIn[c])
           cur == [HxNone EXCEPT !.k = h.k, !.body = h.body, !.left = h.body,
                                 !.keep = keep /\ h.k < HxMaxRequests]
           pc == IF h.part = "connect" THEN "tunnel" ELSE "acquire"
<1>2. /\ hxIn[c] # <<>> /\ hxPc[c] = "reading" /\ hxIn' = [hxIn EXCEPT ![c] = Tail(hxIn[c])]
      /\ hxCur' = [hxCur EXCEPT ![c] = cur] /\ hxPc' = [hxPc EXCEPT ![c] = pc]
      /\ UNCHANGED <<hxSent, hxLease, hxIdle, hxOpen, hxReq, hxBk, hxResp>>
  BY <1>1, Zenon DEF HxReadRequest, HxGoto, hxBackend
<1>3. Tail(hxIn[c]) \in Seq(HxInParts) /\ h = hxIn[c][1] /\ h \in HxInParts
  BY <1>2, HxTail, Zenon
<1> HIDE DEF h
<1>4. HxStream(hxIn[c], 0, hxSent[c].left) /\ 0 \in Nat
  BY <1>2, Zenon DEF HxClientOk
<1>5. HxStream(Tail(hxIn[c]), h.body, hxSent[c].left)
  BY <1>2, <1>3, <1>4, HxStreamShrinks, Zenon
<1>6. h.k \in Nat /\ h.body \in Nat /\ (keep /\ h.k < HxMaxRequests) \in BOOLEAN
  BY <1>3, Zenon DEF HxInParts
<1>7. /\ cur \in HxCurs /\ cur.left = h.body /\ cur.body = h.body /\ cur.answer = "wait"
      /\ cur.requested = FALSE
  BY <1>6, Zenon DEF HxCurs, HxNone, HxFramings
<1>8. pc \in {"tunnel", "acquire"} /\ pc \in HxPcs
  BY Zenon DEF HxPcs
<1> HIDE DEF cur, pc
<1>9. /\ hxIn' \in [HxClients -> Seq(HxInParts)] /\ hxIn'[c] = Tail(hxIn[c])
      /\ \A d \in HxClients \ {c} : hxIn'[d] = hxIn[d]
  BY <1>2, <1>3, HxUpdate, Zenon DEF HxIInv, HxTypeOK
<1>10. /\ hxCur' \in [HxClients -> HxCurs] /\ hxCur'[c] = cur
       /\ \A d \in HxClients \ {c} : hxCur'[d] = hxCur[d]
  BY <1>2, <1>7, HxUpdate, Zenon DEF HxIInv, HxTypeOK
<1>11. /\ hxPc' \in [HxClients -> HxPcs] /\ hxPc'[c] = pc
       /\ \A d \in HxClients \ {c} : hxPc'[d] = hxPc[d]
  BY <1>2, <1>8, HxUpdate, Zenon DEF HxIInv, HxTypeOK
<1>12. HxTypeOK'
  BY <1>2, <1>9, <1>10, <1>11, Zenon DEF HxIInv, HxTypeOK
<1>13. cur.left <= cur.body
  BY <1>6, <1>7
<1>14. HxClientOk(pc, cur, Tail(hxIn[c]), hxSent[c])
  BY <1>5, <1>7, <1>8, <1>13, Zenon DEF HxClientOk
<1> QED BY <1>2, <1>8, <1>9, <1>10, <1>11, <1>12, <1>14, HxClientSide, Zenon

\* a connection that is closed
LEMMA HxCloseFields ==
    ASSUME HxIInv, NEW c \in HxClients, HxClose(c)
    PROVE  /\ hxPc' \in [HxClients -> HxPcs] /\ hxPc'[c] = "closed"
           /\ hxIn' \in [HxClients -> Seq(HxInParts)]
           /\ hxSent' \in [HxClients -> HxSents]
           /\ hxCur' \in [HxClients -> HxCurs]
           /\ \A d \in HxClients \ {c} : /\ hxPc'[d] = hxPc[d] /\ hxCur'[d] = hxCur[d]
                                         /\ hxIn'[d] = hxIn[d] /\ hxSent'[d] = hxSent[d]
           /\ HxClientOk(hxPc'[c], hxCur'[c], hxIn'[c], hxSent'[c])
<1>1. /\ hxPc' = [hxPc EXCEPT ![c] = "closed"] /\ hxIn' = [hxIn EXCEPT ![c] = <<>>]
      /\ hxSent' = [hxSent EXCEPT ![c] = [k |-> 0, left |-> 0]]
      /\ hxCur' = [hxCur EXCEPT ![c] = HxNone]
  BY Zenon DEF HxClose, HxGoto
<1>2. /\ "closed" \in HxPcs /\ <<>> \in Seq(HxInParts) /\ [k |-> 0, left |-> 0] \in HxSents
      /\ HxNone \in HxCurs /\ HxNone.left <= HxNone.body /\ HxNone.requested = FALSE
  BY DEF HxPcs, HxSents, HxNone, HxCurs, HxFramings
<1>3. /\ hxPc' \in [HxClients -> HxPcs] /\ hxPc'[c] = "closed"
      /\ \A d \in HxClients \ {c} : hxPc'[d] = hxPc[d]
  BY <1>1, <1>2, HxUpdate, Zenon DEF HxIInv, HxTypeOK
<1>4. /\ hxIn' \in [HxClients -> Seq(HxInParts)]
      /\ \A d \in HxClients \ {c} : hxIn'[d] = hxIn[d]
  BY <1>1, <1>2, HxUpdate, Zenon DEF HxIInv, HxTypeOK
<1>5. /\ hxSent' \in [HxClients -> HxSents]
      /\ \A d \in HxClients \ {c} : hxSent'[d] = hxSent[d]
  BY <1>1, <1>2, HxUpdate, Zenon DEF HxIInv, HxTypeOK
<1>6. /\ hxCur' \in [HxClients -> HxCurs] /\ hxCur'[c] = HxNone
      /\ \A d \in HxClients \ {c} : hxCur'[d] = hxCur[d]
  BY <1>1, <1>2, HxUpdate, Zenon DEF HxIInv, HxTypeOK
<1>7. HxClientOk("closed", HxNone, hxIn'[c], hxSent'[c])
  BY <1>2, Zenon DEF HxClientOk
<1> QED BY <1>3, <1>4, <1>5, <1>6, <1>7, Zenon

\* A connection that is rejected, finds no back end or ends its tunnel keeps
\* the invariant.
LEMMA HxClosesKeep ==
    ASSUME HxIInv, NEW c \in HxClients, HxReject(c) \/ HxPairFails(c) \/ HxTunnelEnds(c)
    PROVE  HxIInv'
<1>1. /\ hxPc[c] # "exchange" /\ HxClose(c)
      /\ UNCHANGED <<hxLease, hxIdle, hxOpen, hxReq, hxBk, hxResp>>
  BY Zenon DEF HxReject, HxPairFails, HxTunnelEnds, hxBackend
<1>2. HxTypeOK'
  BY <1>1, HxCloseFields, Zenon DEF HxIInv, HxTypeOK
<1>3. hxPc'[c] # "exchange"
  BY <1>1, HxCloseFields, Zenon
<1> QED BY <1>1, <1>2, <1>3, HxCloseFields, HxClientSide, Zenon

-----------------------------------------------------------------------------
\* an exchange and its back end
LEMMA HxExchangeFields ==
    ASSUME HxIInv, NEW c \in HxClients, hxPc[c] = "exchange"
    PROVE  /\ hxLease[c] \in HxBackends
           /\ hxReq[hxLease[c]] \in Seq(HxReqParts)
           /\ hxBk[hxLease[c]] \in HxBks /\ HxBkOk(hxBk[hxLease[c]])
           /\ hxResp[hxLease[c]] \in Seq(HxRespParts)
           /\ <<c, hxCur[c].k>> \in HxOwners
           /\ HxBusy(<<c, hxCur[c].k>>, hxCur[c], hxReq[hxLease[c]], hxBk[hxLease[c]],
                     hxResp[hxLease[c]])
<1>1. hxLease[c] \in HxBackends
  BY Zenon DEF HxIInv, HxLeasesOk, HxTypeOK
<1>2. hxCur[c].k \in Nat
  BY HxClientFields, Zenon DEF HxCurs
<1>3. <<c, hxCur[c].k>> \in HxOwners
  BY <1>2 DEF HxOwners
<1> QED BY <1>1, <1>3, Zenon DEF HxIInv, HxTypeOK

\* one more part of the body is on its way to the back end
LEMMA HxBusyCopies ==
    ASSUME NEW o \in HxOwners, NEW cur \in HxCurs, NEW req \in Seq(HxReqParts),
           NEW bk \in HxBks, NEW resp, HxBusy(o, cur, req, bk, resp),
           cur.left > 0, cur.left <= cur.body,
           NEW cur2 \in HxCurs, cur2.left = cur.left - 1, cur2.body = cur.body,
           cur2.answer = cur.answer,
           NEW x \in HxReqParts, x.part = "body", x.owner = o
    PROVE  HxBusy(o, cur2, Append(req, x), bk, resp)
<1> DEFINE req2 == Append(req, x)
<1>1. /\ Len(req) \in Nat /\ Len(req2) = Len(req) + 1 /\ req2[Len(req) + 1] = x
      /\ \A i \in 1..Len(req) : req2[i] = req[i]
  BY HxAppend
<1>2. /\ cur.left \in Nat /\ cur.body \in Nat /\ bk.left \in Nat
      /\ cur2.left \in Nat /\ cur2.body \in Nat
  BY Zenon DEF HxCurs, HxBks
<1> HIDE DEF req2
<1>l. Len(req) \in Nat /\ Len(req2) = Len(req) + 1
  BY <1>1, Zenon
<1>h. /\ cur.left > 0 /\ cur.left <= cur.body /\ cur2.left = cur.left - 1
      /\ cur2.body = cur.body
  OBVIOUS
<1>3. CASE HxUnread(o, cur, req, bk, resp)
  <2>1. Len(req2) = bk.left + 1 + cur2.body - cur2.left /\ bk.left + 1 \in 1..Len(req)
    <3>1. Len(req) = bk.left + 1 + cur.body - cur.left
      BY <1>3, Zenon DEF HxUnread
    <3>2. Len(req) + 1 = bk.left + 1 + cur2.body - cur2.left
      <4>1. bk.left + 1 + cur2.body - cur2.left = bk.left + 1 + cur.body - (cur.left - 1)
        BY <1>h, Zenon
      <4>2. bk.left + 1 + cur.body - (cur.left - 1) = bk.left + 1 + cur.body - cur.left + 1
        BY ONLY <1>2
      <4> QED BY <3>1, <4>1, <4>2, Zenon
    <3>3. bk.left + 1 \in 1..Len(req)
      BY ONLY <1>l, <1>h, <1>2, <3>1
    <3> QED BY <1>l, <3>2, <3>3, Zenon
  <2>2. ASSUME NEW i \in 1..Len(req2)
        PROVE  /\ req2[i].part = IF i = bk.left + 1 THEN "head" ELSE "body"
               /\ req2[i].owner = IF i < bk.left + 1 THEN bk.owner ELSE o
    <3>1. CASE i \in 1..Len(req)
      BY <1>1, <1>3, <3>1, Zenon DEF HxUnread
    <3>2. CASE i = Len(req) + 1
      <4>1. i # bk.left + 1 /\ ~(i < bk.left + 1)
        BY <1>1, <1>2, <2>1, <3>2
      <4>2. req2[i] = x
        BY <1>1, <3>2, Zenon
      <4> QED BY <4>1, <4>2, Zenon
    <3> QED BY <1>1, <3>1, <3>2
  <2>3. req2[bk.left + 1].body = cur2.body
    BY <1>1, <1>3, <2>1, Zenon DEF HxUnread
  <2>4. HxUnread(o, cur2, req2, bk, resp)
    BY <1>3, <2>1, <2>2, <2>3, Zenon DEF HxUnread
  <2> QED BY <2>4, Zenon DEF HxBusy, req2
<1>4. CASE HxRead(o, cur, req, bk, resp)
  <2>1. Len(req2) + cur2.left = bk.left
    <3>1. Len(req) + cur.left = bk.left
      BY <1>4, Zenon DEF HxRead
    <3> QED BY ONLY <1>l, <1>h, <1>2, <3>1
  <2>2. HxOnlyBodies(req2, o)
    BY <1>1, <1>4 DEF HxRead, HxOnlyBodies
  <2>3. HxRead(o, cur2, req2, bk, resp)
    BY <1>4, <2>1, <2>2, Zenon DEF HxRead
  <2> QED BY <2>3, Zenon DEF HxBusy, req2
<1> QED BY <1>3, <1>4, Zenon DEF HxBusy

\* copy_request_body keeps the invariant: what it copies is the body of
\* the request in progress.
LEMMA HxCopyRequestBodyKeeps ==
    ASSUME HxIInv, NEW c \in HxClients, HxCopyRequestBody(c) PROVE HxIInv'
<1> USE HxClientFields
<1> DEFINE b == hxLease[c]
           o == <<c, hxCur[c].k>>
           x == [part |-> Head(hxIn[c]).part, owner |-> o, body |-> 0]
           cur == [hxCur[c] EXCEPT !.left = hxCur[c].left - 1]
<1>1. /\ hxPc[c] = "exchange" /\ hxCur[c].left > 0 /\ hxIn[c] # <<>>
      /\ hxIn' = [hxIn EXCEPT ![c] = Tail(hxIn[c])]
      /\ UNCHANGED <<hxSent, hxPc, hxLease, hxIdle, hxOpen, hxBk, hxResp>>
  BY Zenon DEF HxCopyRequestBody
<1>2. hxReq' = [hxReq EXCEPT ![b] = Append(hxReq[b], x)] /\ hxCur' = [hxCur EXCEPT ![c] = cur]
  BY DEF HxCopyRequestBody, HxRequest
<1>3. Tail(hxIn[c]) \in Seq(HxInParts) /\ Head(hxIn[c]) = hxIn[c][1]
  BY <1>1, HxTail, Zenon
<1>4. HxStream(hxIn[c], hxCur[c].left, hxSent[c].left) /\ hxCur[c].left \in Nat
  BY <1>1, Zenon DEF HxClientOk, HxCurs
<1>5. hxIn[c][1].part = "body" /\ HxStream(Tail(hxIn[c]), hxCur[c].left - 1, hxSent[c].left)
  BY <1>1, <1>4, HxStreamShrinks, Zenon
<1>6. o \in HxOwners
  BY <1>1, HxExchangeFields, Zenon
<1> HIDE DEF o
<1>7. x \in HxReqParts /\ x.part = "body" /\ x.owner = o
  BY <1>3, <1>5, <1>6, Zenon DEF HxReqParts
<1>8. /\ cur \in HxCurs /\ cur.left = hxCur[c].left - 1 /\ cur.body = hxCur[c].body
      /\ cur.answer = hxCur[c].answer /\ cur.k = hxCur[c].k
      /\ cur.requested = hxCur[c].requested
  BY <1>1 DEF HxCurs
<1> HIDE DEF x, cur
<1>9. hxCur[c].left <= hxCur[c].body /\ hxCur[c].requested = FALSE
  BY <1>1 DEF HxClientOk, HxCurs
<1>10. HxBusy(o, cur, Append(hxReq[b], x), hxBk[b], hxResp[b])
  BY <1>1, <1>6, <1>7, <1>8, <1>9, HxExchangeFields, HxBusyCopies, Zenon DEF o
<1>11. cur.left <= cur.body
  BY <1>4, <1>8, <1>9 DEF HxCurs
<1>12. HxClientOk("exchange", cur, Tail(hxIn[c]), hxSent[c])
  BY <1>5, <1>8, <1>9, <1>11, Zenon DEF HxClientOk
<1>13. /\ hxIn' \in [HxClients -> Seq(HxInParts)] /\ hxIn'[c] = Tail(hxIn[c])
       /\ \A d \in HxClients \ {c} : hxIn'[d] = hxIn[d]
  BY <1>1, <1>3, HxUpdate, Zenon DEF HxIInv, HxTypeOK
<1>14. /\ hxCur' \in [HxClients -> HxCurs] /\ hxCur'[c] = cur
       /\ \A d \in HxClients \ {c} : hxCur'[d] = hxCur[d]
  BY <1>2, <1>8, HxUpdate, Zenon DEF HxIInv, HxTypeOK
<1>15. Append(hxReq[b], x) \in Seq(HxReqParts) /\ b \in HxBackends
  BY <1>1, <1>7, HxExchangeFields, HxAppend, Zenon
<1>16. /\ hxReq' \in [HxBackends -> Seq(HxReqParts)] /\ hxReq'[b] = Append(hxReq[b], x)
       /\ \A y \in HxBackends \ {b} : hxReq'[y] = hxReq[y]
  BY <1>2, <1>15, HxUpdate, Zenon DEF HxIInv, HxTypeOK
<1>17. HxTypeOK'
  BY <1>1, <1>13, <1>14, <1>16, Zenon DEF HxIInv, HxTypeOK
<1>18. HxBusy(<<c, hxCur'[c].k>>, hxCur'[c], hxReq'[b], hxBk[b], hxResp'[b])
  BY <1>1, <1>8, <1>10, <1>14, <1>16, Zenon DEF o
<1> HIDE DEF b
<1> QED BY <1>1, <1>12, <1>13, <1>14, <1>16, <1>17, <1>18, HxExchangeSide, Zenon DEF b

\* a step of the exchange that changes its own state and what the back end
\* has answered
LEMMA HxExchangeMoves ==
    ASSUME HxIInv, NEW c \in HxClients, hxPc[c] = "exchange", NEW cur \in HxCurs,
           NEW resp \in Seq(HxRespParts),
           hxCur' = [hxCur EXCEPT ![c] = cur],
           \/ UNCHANGED hxResp /\ resp = hxResp[hxLease[c]]
           \/ hxResp' = [hxResp EXCEPT ![hxLease[c]] = resp],
           UNCHANGED <<hxSent, hxIn, hxPc, hxLease, hxIdle, hxOpen, hxReq, hxBk>>,
           cur.k = hxCur[c].k, cur.left = hxCur[c].left, cur.body = hxCur[c].body,
           cur.requested => cur.left = 0,
           HxBusy(<<c, cur.k>>, cur, hxReq[hxLease[c]], hxBk[hxLease[c]], resp)
    PROVE  HxIInv'
<1> USE HxClientFields
<1>1. /\ hxCur' \in [HxClients -> HxCurs] /\ hxCur'[c] = cur
      /\ \A d \in HxClients \ {c} : hxCur'[d] = hxCur[d]
  BY HxUpdate, Zenon DEF HxIInv, HxTypeOK
<1>2. hxLease[c] \in HxBackends /\ hxResp \in [HxBackends -> Seq(HxRespParts)]
  BY HxExchangeFields, Zenon DEF HxIInv, HxTypeOK
<1>3. /\ hxResp' \in [HxBackends -> Seq(HxRespParts)] /\ hxResp'[hxLease[c]] = resp
      /\ \A x \in HxBackends \ {hxLease[c]} : hxResp'[x] = hxResp[x]
  <2>1. CASE UNCHANGED hxResp /\ resp = hxResp[hxLease[c]]
    BY <1>2, <2>1, Zenon
  <2>2. CASE hxResp' = [hxResp EXCEPT ![hxLease[c]] = resp]
    BY <1>2, <2>2, HxUpdate, Zenon
  <2> QED BY <2>1, <2>2, Zenon
<1>4. HxTypeOK'
  BY <1>1, <1>3, Zenon DEF HxIInv, HxTypeOK
<1>5. HxClientOk(hxPc[c], hxCur'[c], hxIn'[c], hxSent'[c])
  BY <1>1, Zenon DEF HxClientOk
<1>6. HxBusy(<<c, hxCur'[c].k>>, hxCur'[c], hxReq'[hxLease[c]], hxBk[hxLease[c]],
             hxResp'[hxLease[c]])
  BY <1>1, <1>3, Zenon
<1> QED BY <1>1, <1>3, <1>4, <1>5, <1>6, HxExchangeSide, Zenon

\* The request was sent whole: the select! takes note of it.
LEMMA HxRequestFinishedKeeps ==
    ASSUME HxIInv, NEW c \in HxClients, HxRequestFinished(c) PROVE HxIInv'
<1> DEFINE cur == [hxCur[c] EXCEPT !.requested = TRUE]
           resp == hxResp[hxLease[c]]
<1>1. /\ hxPc[c] = "exchange" /\ hxCur[c].left = 0
      /\ UNCHANGED <<hxSent, hxIn, hxPc, hxLease, hxIdle, hxOpen, hxReq, hxBk, hxResp>>
  BY Zenon DEF HxRequestFinished, hxClient, hxBackend
<1>2. hxCur' = [hxCur EXCEPT ![c] = cur]
  BY DEF HxRequestFinished
<1>3. /\ cur \in HxCurs /\ cur.k = hxCur[c].k /\ cur.left = hxCur[c].left
      /\ cur.body = hxCur[c].body /\ cur.answer = hxCur[c].answer
  BY HxClientFields, Zenon DEF HxCurs
<1> HIDE DEF cur
<1>4. resp \in Seq(HxRespParts) /\ HxBusy(<<c, hxCur[c].k>>, hxCur[c], hxReq[hxLease[c]],
                                           hxBk[hxLease[c]], resp)
  BY <1>1, HxExchangeFields, Zenon
<1> HIDE DEF resp
<1>5. HxBusy(<<c, cur.k>>, cur, hxReq[hxLease[c]], hxBk[hxLease[c]], resp)
  BY <1>3, <1>4, Zenon DEF HxBusy, HxUnread, HxRead
<1>6. hxPc[c] = "exchange" /\ (cur.requested => cur.left = 0)
  BY <1>1, <1>3, Zenon
<1>7. UNCHANGED hxResp /\ resp = hxResp[hxLease[c]]
  BY <1>1, Zenon DEF resp
<1> QED BY <1>1, <1>2, <1>3, <1>4, <1>5, <1>6, <1>7, HxExchangeMoves, Zenon

\* The proxy takes the next part of the answer; what is left follows it.
LEMMA HxRestShrinks ==
    ASSUME NEW o, NEW s \in Seq(HxRespParts), s # <<>>, NEW answer, HxRest(s, o, answer)
    PROVE  /\ answer = "wait" /\ s[1].part = "info" => HxRest(Tail(s), o, "wait")
           /\ answer = "wait" /\ s[1].part # "info" /\ s[1].framing = "none" =>
                HxRest(Tail(s), o, "done")
           /\ answer = "wait" /\ s[1].part # "info" /\ s[1].framing # "none" =>
                HxRest(Tail(s), o, "body")
           /\ answer = "body" => HxRest(Tail(s), o, "done")
<1> DEFINE u == Tail(s)
<1>1. /\ u \in Seq(HxRespParts) /\ Len(s) \in Nat \ {0} /\ Len(u) = Len(s) - 1
      /\ \A i \in 1..Len(u) : u[i] = s[i + 1]
  BY HxTail
<1> HIDE DEF u
<1>l. Len(s) \in Nat \ {0} /\ Len(u) = Len(s) - 1
  BY <1>1, Zenon
<1>2. \A i \in 1..Len(u) : u[i].owner = o
  <2> TAKE i \in 1..Len(u)
  <2>1. i + 1 \in 1..Len(s)
    BY <1>l
  <2> QED BY <1>1, <2>1, Zenon DEF HxRest
<1>3. Len(s) = 1 => u = <<>>
  BY <1>1
<1>4. ASSUME answer = "wait", s[1].part = "info" PROVE HxRest(u, o, "wait")
  <2>1. CASE Len(s) = 2 /\ s[2].part = "head" /\ s[2].framing = "none"
    <3>1. Len(u) = 1 /\ 1 \in 1..Len(u) /\ 1 + 1 = 2
      BY <1>l, <2>1
    <3>2. u[1] = s[2]
      BY <1>1, <3>1, Zenon
    <3> QED BY <1>2, <2>1, <3>1, <3>2, Zenon DEF HxRest
  <2>2. CASE Len(s) = 3 /\ s[2].part = "head" /\ s[2].framing # "none"
    <3>1. Len(u) = 2 /\ 1 \in 1..Len(u) /\ 1 + 1 = 2
      BY <1>l, <2>2
    <3>2. u[1] = s[2]
      BY <1>1, <3>1, Zenon
    <3> QED BY <1>2, <2>2, <3>1, <3>2, Zenon DEF HxRest
  <2>3. "info" # "head"
    OBVIOUS
  <2> QED BY <1>4, <2>1, <2>2, <2>3, Zenon DEF HxRest
<1>5. ASSUME answer = "wait", s[1].part # "info", s[1].framing = "none"
      PROVE  HxRest(u, o, "done")
  <2>1. Len(s) = 1
    BY <1>5, Zenon DEF HxRest
  <2> QED BY <1>2, <1>3, <2>1, Zenon DEF HxRest
<1>6. ASSUME answer = "wait", s[1].part # "info", s[1].framing # "none"
      PROVE  HxRest(u, o, "body")
  <2>1. Len(s) = 2
    BY <1>6, Zenon DEF HxRest
  <2>2. Len(u) = 1
    BY <1>l, <2>1
  <2> QED BY <1>2, <2>2, Zenon DEF HxRest
<1>7. ASSUME answer = "body" PROVE HxRest(u, o, "done")
  <2>1. Len(s) = 1
    BY <1>7, Zenon DEF HxRest
  <2> QED BY <1>2, <1>3, <2>1, Zenon DEF HxRest
<1> QED BY <1>4, <1>5, <1>6, <1>7, Zenon DEF u

\* copy_http_response keeps the invariant: it stops where the answer ends.
LEMMA HxCopyResponseKeeps ==
    ASSUME HxIInv, NEW c \in HxClients, HxCopyResponse(c) PROVE HxIInv'
<1> USE HxClientFields
<1> DEFINE b == hxLease[c]
           o == <<c, hxCur[c].k>>
           s == hxResp[b]
<1>1. /\ hxPc[c] = "exchange" /\ hxCur[c].answer \in {"wait", "body"} /\ s # <<>>
      /\ hxResp' = [hxResp EXCEPT ![b] = Tail(s)]
      /\ UNCHANGED <<hxSent, hxIn, hxPc, hxLease, hxIdle, hxOpen, hxReq, hxBk>>
      /\ \/ hxCur[c].answer = "wait" /\ Head(s).part = "info" /\ UNCHANGED hxCur
         \/ /\ hxCur[c].answer = "wait" /\ Head(s).part # "info"
            /\ HxResponseHead(c, Head(s).framing)
         \/ hxCur[c].answer = "body" /\ HxResponseBody(c)
  BY Zenon DEF HxCopyResponse, hxClient
<1>2. /\ s \in Seq(HxRespParts)
      /\ HxBusy(o, hxCur[c], hxReq[b], hxBk[b], s)
  BY <1>1, HxExchangeFields, Zenon
<1> HIDE DEF s
<1>3. /\ Tail(s) \in Seq(HxRespParts) /\ Head(s) = s[1] /\ s[1].framing \in HxFramings
  <2>1. Tail(s) \in Seq(HxRespParts) /\ Head(s) = s[1] /\ s[1] \in HxRespParts
    BY <1>1, <1>2, HxTail, Zenon
  <2> QED BY <2>1, Zenon DEF HxRespParts
<1>4. HxRead(o, hxCur[c], hxReq[b], hxBk[b], s) /\ HxSettled(hxBk[b])
  BY <1>1, <1>2, Zenon DEF HxBusy, HxUnread, HxRead
<1>5. HxRest(s, o, hxCur[c].answer)
  BY <1>4, Zenon DEF HxRead
<1>6. ASSUME NEW cur \in HxCurs, hxCur' = [hxCur EXCEPT ![c] = cur],
             cur.k = hxCur[c].k, cur.left = hxCur[c].left, cur.body = hxCur[c].body,
             cur.requested = hxCur[c].requested, HxRest(Tail(s), o, cur.answer)
      PROVE  HxIInv'
  <2>1. HxBusy(<<c, cur.k>>, cur, hxReq[b], hxBk[b], Tail(s))
    BY <1>4, <1>6, Zenon DEF HxBusy, HxRead
  <2>2. cur.requested => cur.left = 0
    BY <1>6, Zenon DEF HxClientOk
  <2> QED BY <1>1, <1>3, <1>6, <2>1, <2>2, HxExchangeMoves, Zenon
<1>7. CASE hxCur[c].answer = "wait" /\ Head(s).part = "info" /\ UNCHANGED hxCur
  <2>1. hxCur' = [hxCur EXCEPT ![c] = hxCur[c]]
    BY <1>7 DEF HxIInv, HxTypeOK
  <2>2. HxRest(Tail(s), o, hxCur[c].answer)
    BY <1>1, <1>2, <1>3, <1>5, <1>7, HxRestShrinks, Zenon
  <2> QED BY <1>6, <2>1, <2>2, Zenon
<1>8. CASE hxCur[c].answer = "wait" /\ Head(s).part # "info" /\ HxResponseHead(c, Head(s).framing)
  <2> DEFINE f == s[1].framing
  <2>1. f \in HxFramings
    BY <1>3, Zenon
  <2>2. HxResponseHead(c, f)
    BY <1>3, <1>8, Zenon
  <2>3. IF f = "none" THEN HxRest(Tail(s), o, "done") ELSE HxRest(Tail(s), o, "body")
    BY <1>1, <1>2, <1>3, <1>5, <1>8, HxRestShrinks, Zenon
  <2> HIDE DEF f
  <2>4. PICK persistent \in BOOLEAN :
           hxCur' = [hxCur EXCEPT ![c].persistent = persistent, ![c].until = f,
                        ![c].answer = IF f = "none" THEN "done" ELSE "body"]
    BY <2>2, Zenon DEF HxResponseHead
  <2> DEFINE a == IF f = "none" THEN "done" ELSE "body"
             cur == [hxCur[c] EXCEPT !.persistent = persistent, !.until = f, !.answer = a]
  <2>5. hxCur' = [hxCur EXCEPT ![c] = cur]
    BY <2>4 DEF HxIInv, HxTypeOK, HxCurs
  <2>6. a \in {"wait", "body", "done"} /\ HxRest(Tail(s), o, a)
    BY <2>3, Zenon
  <2> HIDE DEF a
  <2>7. /\ cur \in HxCurs /\ cur.k = hxCur[c].k /\ cur.left = hxCur[c].left
        /\ cur.body = hxCur[c].body /\ cur.requested = hxCur[c].requested /\ cur.answer = a
    BY <2>1, <2>6, Zenon DEF HxCurs
  <2> HIDE DEF cur
  <2> QED BY <1>6, <2>5, <2>6, <2>7, Zenon
<1>9. CASE hxCur[c].answer = "body" /\ HxResponseBody(c)
  <2> DEFINE cur == [hxCur[c] EXCEPT !.answer = "done"]
  <2>1. hxCur' = [hxCur EXCEPT ![c] = cur]
    BY <1>9 DEF HxResponseBody
  <2>2. /\ cur \in HxCurs /\ cur.k = hxCur[c].k /\ cur.left = hxCur[c].left
        /\ cur.body = hxCur[c].body /\ cur.requested = hxCur[c].requested
        /\ cur.answer = "done"
    BY Zenon DEF HxCurs
  <2>3. HxRest(Tail(s), o, cur.answer)
    BY <1>1, <1>2, <1>5, <1>9, <2>2, HxRestShrinks, Zenon
  <2> HIDE DEF cur
  <2> QED BY <1>6, <2>1, <2>2, <2>3, Zenon
<1> QED BY <1>1, <1>7, <1>8, <1>9, Zenon

-----------------------------------------------------------------------------
\* the state of one back end
LEMMA HxBackFields ==
    ASSUME HxIInv, NEW b \in HxBackends
    PROVE  /\ hxReq[b] \in Seq(HxReqParts) /\ hxBk[b] \in HxBks /\ HxBkOk(hxBk[b])
           /\ hxResp[b] \in Seq(HxRespParts)
BY Zenon DEF HxIInv, HxTypeOK

\* a back end reads the next part
LEMMA HxBackReads ==
    ASSUME HxIInv, NEW b \in HxBackends, hxReq[b] # <<>>, NEW bk \in HxBks, HxBkOk(bk),
           hxBk' = [hxBk EXCEPT ![b] = bk],
           hxReq' = [hxReq EXCEPT ![b] = Tail(hxReq[b])],
           UNCHANGED <<hxSent, hxIn, hxPc, hxCur, hxLease, hxIdle, hxOpen, hxResp>>,
           \A o, cur : o \in HxOwners /\ cur \in HxCurs /\ cur.left <= cur.body
                       /\ HxBusy(o, cur, hxReq[b], hxBk[b], hxResp[b])
                       => HxBusy(o, cur, Tail(hxReq[b]), bk, hxResp[b]),
           HxIdleOk(hxReq[b], hxBk[b], hxResp[b]) => HxIdleOk(Tail(hxReq[b]), bk, hxResp[b])
    PROVE  HxIInv'
<1>1. Tail(hxReq[b]) \in Seq(HxReqParts)
  BY HxBackFields, HxTail, Zenon
<1>2. /\ hxBk' \in [HxBackends -> HxBks] /\ hxBk'[b] = bk
      /\ \A x \in HxBackends \ {b} : hxBk'[x] = hxBk[x]
  BY HxUpdate, Zenon DEF HxIInv, HxTypeOK
<1>3. /\ hxReq' \in [HxBackends -> Seq(HxReqParts)] /\ hxReq'[b] = Tail(hxReq[b])
      /\ \A x \in HxBackends \ {b} : hxReq'[x] = hxReq[x]
  BY <1>1, HxUpdate, Zenon DEF HxIInv, HxTypeOK
<1>4. HxTypeOK'
  BY <1>2, <1>3, Zenon DEF HxIInv, HxTypeOK
<1>5. \A o, cur : o \in HxOwners /\ cur \in HxCurs /\ cur.left <= cur.body
                  /\ HxBusy(o, cur, hxReq[b], hxBk[b], hxResp[b])
                  => HxBusy(o, cur, hxReq'[b], hxBk'[b], hxResp'[b])
  BY <1>2, <1>3, Zenon
<1>6. HxIdleOk(hxReq[b], hxBk[b], hxResp[b]) => HxIdleOk(hxReq'[b], hxBk'[b], hxResp'[b])
  BY <1>2, <1>3, Zenon
<1> QED BY <1>2, <1>3, <1>4, <1>5, <1>6, HxBackSide, Zenon

\* A back end reads the head of a request.
LEMMA HxBackendHeadKeeps ==
    ASSUME HxIInv, NEW b \in HxBackends, HxBackendHead(b) PROVE HxIInv'
<1> USE HxBackFields
<1> DEFINE s == hxReq[b]
           h == Head(s)
           u == Tail(s)
           bk == [owner |-> h.owner, left |-> h.body, answered |-> FALSE]
<1>1. /\ s # <<>> /\ hxBk[b].owner = <<>>
      /\ hxBk' = [hxBk EXCEPT ![b] = bk] /\ hxReq' = [hxReq EXCEPT ![b] = Tail(hxReq[b])]
      /\ UNCHANGED <<hxSent, hxIn, hxPc, hxCur, hxLease, hxIdle, hxOpen, hxResp>>
  BY Zenon DEF HxBackendHead, hxClient
<1>2. s \in Seq(HxReqParts)
  BY Zenon
<1>3. /\ u \in Seq(HxReqParts) /\ Len(s) \in Nat \ {0} /\ Len(u) = Len(s) - 1
      /\ \A i \in 1..Len(u) : u[i] = s[i + 1]
      /\ h = s[1] /\ s[1] \in HxReqParts
  BY <1>1, <1>2, HxTail
<1> HIDE DEF s, h, u
<1>l. Len(s) \in Nat \ {0} /\ Len(u) = Len(s) - 1
  BY <1>3, Zenon
<1>4. h.owner \in HxOwners /\ h.body \in Nat /\ h.owner # <<>>
  BY <1>3, HxOwnerReal, Zenon DEF HxReqParts
<1>5. /\ bk \in HxBks /\ bk.owner = h.owner /\ bk.left = h.body /\ bk.answered = FALSE
  BY <1>4, Zenon DEF HxBks
<1> HIDE DEF bk
<1>6. HxBkOk(bk) /\ ~HxSettled(bk)
  BY <1>4, <1>5, Zenon DEF HxBkOk, HxSettled
<1>7. hxBk[b].left = 0
  BY <1>1, Zenon DEF HxBkOk
<1>8. ASSUME NEW o, NEW cur, cur \in HxCurs, cur.left <= cur.body,
             HxBusy(o, cur, s, hxBk[b], hxResp[b])
      PROVE  HxBusy(o, cur, u, bk, hxResp[b])
  <2>0. cur.left \in Nat /\ cur.body \in Nat
    BY <1>8, Zenon DEF HxCurs
  <2>1. ~HxRead(o, cur, s, hxBk[b], hxResp[b])
    <3>1. HxRead(o, cur, s, hxBk[b], hxResp[b]) => Len(s) + cur.left = 0
      BY <1>7, Zenon DEF HxRead
    <3> QED BY <1>l, <2>0, <3>1
  <2>2. HxUnread(o, cur, s, hxBk[b], hxResp[b])
    BY <1>8, <2>1, Zenon DEF HxBusy
  <2>3. 0 + 1 = 1 /\ 1 \in 1..Len(s) /\ ~(1 < 1)
    BY <1>l
  <2>4. h.owner = o /\ h.body = cur.body
    BY <1>3, <1>7, <2>2, <2>3, Zenon DEF HxUnread
  <2>5. Len(u) + cur.left = bk.left
    <3>1. Len(s) = 0 + 1 + cur.body - cur.left
      BY <1>7, <2>2, Zenon DEF HxUnread
    <3> QED BY <1>l, <1>5, <2>0, <2>4, <3>1
  <2>6. HxOnlyBodies(u, o)
    <3> SUFFICES ASSUME NEW i \in 1..Len(u) PROVE u[i].part = "body" /\ u[i].owner = o
      BY Zenon DEF HxOnlyBodies
    <3>1. i + 1 \in 1..Len(s) /\ i + 1 # 0 + 1 /\ ~(i + 1 < 0 + 1)
      BY <1>l
    <3> QED BY <1>3, <1>7, <2>2, <3>1, Zenon DEF HxUnread
  <2>7. HxRead(o, cur, u, bk, hxResp[b])
    BY <1>5, <1>6, <2>2, <2>4, <2>5, <2>6, Zenon DEF HxRead, HxUnread
  <2> QED BY <2>7, Zenon DEF HxBusy
<1>9. ~HxIdleOk(s, hxBk[b], hxResp[b])
  <2>1. HxIdleOk(s, hxBk[b], hxResp[b]) => Len(s) = 0
    BY <1>7, Zenon DEF HxIdleOk
  <2> QED BY <1>l, <2>1
<1> QED BY <1>1, <1>5, <1>6, <1>8, <1>9, HxBackReads, Zenon DEF s, u

\* A back end reads a part of a body.
LEMMA HxBackendBodyKeeps ==
    ASSUME HxIInv, NEW b \in HxBackends, HxBackendBody(b) PROVE HxIInv'
<1> USE HxBackFields
<1> DEFINE s == hxReq[b]
           u == Tail(s)
           old == hxBk[b]
           less == [hxBk[b] EXCEPT !.left = hxBk[b].left - 1]
           bk == HxProgress(less)
<1>1. /\ s # <<>> /\ old.left > 0
      /\ hxBk' = [hxBk EXCEPT ![b] = bk] /\ hxReq' = [hxReq EXCEPT ![b] = Tail(hxReq[b])]
      /\ UNCHANGED <<hxSent, hxIn, hxPc, hxCur, hxLease, hxIdle, hxOpen, hxResp>>
  BY Zenon DEF HxBackendBody, hxClient
<1>2. s \in Seq(HxReqParts) /\ old \in HxBks /\ HxBkOk(old)
  BY Zenon
<1>3. /\ u \in Seq(HxReqParts) /\ Len(s) \in Nat \ {0} /\ Len(u) = Len(s) - 1
      /\ \A i \in 1..Len(u) : u[i] = s[i + 1]
  BY <1>1, <1>2, HxTail
<1> HIDE DEF s, u
<1>l. Len(s) \in Nat \ {0} /\ Len(u) = Len(s) - 1
  BY <1>3, Zenon
<1>4. /\ less \in HxBks /\ less.left = old.left - 1 /\ less.owner = old.owner
      /\ less.answered = old.answered /\ old.left \in Nat \ {0} /\ old.owner # <<>>
      /\ old.answered \in BOOLEAN
  BY <1>1, <1>2 DEF HxBks, HxBkOk
<1> HIDE DEF less, old
<1>5. /\ bk \in HxBks /\ bk.left = old.left - 1 /\ HxBkOk(bk)
      /\ bk.owner = old.owner \/ (bk.owner = <<>> /\ bk.left = 0)
      /\ HxSettled(bk) <=> HxSettled(old)
  <2>1. CASE less.left = 0 /\ less.answered
    <3>1. bk = HxFree
      BY <2>1, Zenon DEF HxProgress
    <3>2. HxFree \in HxBks /\ HxFree.owner = <<>> /\ HxFree.left = 0
          /\ HxFree.answered = FALSE
      BY DEF HxFree, HxBks
    <3>3. bk \in HxBks /\ bk.left = 0 /\ bk.owner = <<>> /\ bk.answered = FALSE
      BY <3>1, <3>2, Zenon
    <3>4. HxSettled(bk) /\ HxSettled(old) /\ HxBkOk(bk)
      BY <1>4, <2>1, <3>3, Zenon DEF HxSettled, HxBkOk
    <3> QED BY <1>4, <2>1, <3>3, <3>4, Zenon
  <2>2. CASE ~(less.left = 0 /\ less.answered)
    <3>1. bk = less
      BY <2>2, Zenon DEF HxProgress
    <3>2. less.answered => less.left > 0
      BY <1>4, <2>2 DEF HxBks
    <3> QED BY <1>4, <3>1, <3>2, Zenon DEF HxSettled, HxBkOk
  <2> QED BY <2>1, <2>2, Zenon
<1> HIDE DEF bk
<1>6. ASSUME NEW o, NEW cur, cur \in HxCurs, cur.left <= cur.body,
             HxBusy(o, cur, s, old, hxResp[b])
      PROVE  HxBusy(o, cur, u, bk, hxResp[b])
  <2>0. cur.left \in Nat /\ cur.body \in Nat
    BY <1>6, Zenon DEF HxCurs
  <2>1. CASE HxRead(o, cur, s, old, hxResp[b])
    <3>1. Len(u) + cur.left = bk.left
      <4>1. Len(s) + cur.left = old.left
        BY <2>1, Zenon DEF HxRead
      <4> QED BY <1>l, <1>4, <1>5, <2>0, <4>1
    <3>2. HxOnlyBodies(u, o)
      <4> SUFFICES ASSUME NEW i \in 1..Len(u) PROVE u[i].part = "body" /\ u[i].owner = o
        BY Zenon DEF HxOnlyBodies
      <4>1. i + 1 \in 1..Len(s)
        BY <1>l
      <4> QED BY <1>3, <2>1, <4>1, Zenon DEF HxRead, HxOnlyBodies
    <3>3. HxRead(o, cur, u, bk, hxResp[b])
      BY <1>5, <2>1, <3>1, <3>2, Zenon DEF HxRead
    <3> QED BY <3>3, Zenon DEF HxBusy
  <2>2. CASE HxUnread(o, cur, s, old, hxResp[b])
    <3>1. Len(s) = old.left + 1 + cur.body - cur.left
      BY <2>2, Zenon DEF HxUnread
    <3>2. Len(u) = bk.left + 1 + cur.body - cur.left
      BY <1>l, <1>4, <1>5, <2>0, <3>1
    <3>3. ASSUME NEW i \in 1..Len(u)
          PROVE  /\ u[i].part = IF i = bk.left + 1 THEN "head" ELSE "body"
                 /\ u[i].owner = IF i < bk.left + 1 THEN bk.owner ELSE o
      <4>1. /\ i + 1 \in 1..Len(s) /\ (i + 1 = old.left + 1 <=> i = bk.left + 1)
            /\ i + 1 < old.left + 1 <=> i < bk.left + 1
        BY <1>l, <1>4, <1>5
      <4>2. u[i] = s[i + 1]
        BY <1>3, Zenon
      <4>3. /\ s[i + 1].part = IF i + 1 = old.left + 1 THEN "head" ELSE "body"
            /\ s[i + 1].owner = IF i + 1 < old.left + 1 THEN old.owner ELSE o
        BY <2>2, <4>1, Zenon DEF HxUnread
      <4>4. i < bk.left + 1 => bk.owner = old.owner
        BY <1>l, <1>5 DEF HxBks
      <4> QED BY <4>1, <4>2, <4>3, <4>4, Zenon
    <3>4. u[bk.left + 1].body = cur.body
      <4>1. bk.left + 1 \in 1..Len(u) /\ (bk.left + 1) + 1 = old.left + 1
        BY <1>l, <1>4, <1>5, <1>6, <2>0, <3>2
      <4>2. u[bk.left + 1] = s[old.left + 1]
        <5>1. u[bk.left + 1] = s[(bk.left + 1) + 1]
          BY <1>3, <4>1, Zenon
        <5> QED BY <4>1, <5>1, Zenon
      <4> QED BY <2>2, <4>2, Zenon DEF HxUnread
    <3>5. HxUnread(o, cur, u, bk, hxResp[b])
      BY <1>5, <2>2, <3>2, <3>3, <3>4, Zenon DEF HxUnread
    <3> QED BY <3>5, Zenon DEF HxBusy
  <2> QED BY <1>6, <2>1, <2>2, Zenon DEF HxBusy
<1>7. ASSUME HxIdleOk(s, old, hxResp[b]) PROVE HxIdleOk(u, bk, hxResp[b])
  <2>1. Len(u) = bk.left
    <3>1. Len(s) = old.left
      BY <1>7, Zenon DEF HxIdleOk
    <3> QED BY <1>l, <1>4, <1>5, <3>1
  <2>2. HxOnlyBodies(u, bk.owner)
    <3> SUFFICES ASSUME NEW i \in 1..Len(u)
                 PROVE  u[i].part = "body" /\ u[i].owner = bk.owner
      BY Zenon DEF HxOnlyBodies
    <3>1. i + 1 \in 1..Len(s) /\ bk.left # 0
      BY <1>l, <2>1
    <3> QED BY <1>3, <1>5, <1>7, <3>1, Zenon DEF HxIdleOk, HxOnlyBodies
  <2> QED BY <1>5, <1>7, <2>1, <2>2, Zenon DEF HxIdleOk
<1> QED BY <1>1, <1>5, <1>6, <1>7, HxBackReads, Zenon DEF s, u, old

\* the parts of a sequence that goes on with another
LEMMA HxConcat ==
    ASSUME NEW S, NEW s \in Seq(S), NEW t \in Seq(S)
    PROVE  /\ s \o t \in Seq(S) /\ Len(s) \in Nat /\ Len(t) \in Nat
           /\ Len(s \o t) = Len(s) + Len(t)
           /\ \A i \in 1..Len(s) : (s \o t)[i] = s[i]
           /\ \A i \in 1..Len(t) : (s \o t)[Len(s) + i] = t[i]
OBVIOUS

\* an answer: perhaps an informational head, then the head and the body
LEMMA HxAnswerRest ==
    ASSUME NEW o \in HxOwners, NEW framing \in HxFramings, NEW info \in BOOLEAN
    PROVE  LET a == <<>> \o (IF info THEN <<[part |-> "info", owner |-> o,
                                              framing |-> "none"]>> ELSE <<>>)
           IN /\ a \o HxAnswer(o, framing) \in Seq(HxRespParts)
              /\ HxRest(a \o HxAnswer(o, framing), o, "wait")
<1> DEFINE x == [part |-> "info", owner |-> o, framing |-> "none"]
           h == [part |-> "head", owner |-> o, framing |-> framing]
           y == [part |-> "body", owner |-> o, framing |-> framing]
           a == IF info THEN <<x>> ELSE <<>>
           z == IF framing = "none" THEN <<>> ELSE <<y>>
           t == <<h>> \o z
           s == a \o t
<1>1. /\ x \in HxRespParts /\ h \in HxRespParts /\ y \in HxRespParts
      /\ x.part = "info" /\ h.part = "head" /\ h.framing = framing
      /\ x.owner = o /\ h.owner = o /\ y.owner = o
  BY DEF HxRespParts, HxFramings
<1> HIDE DEF x, h, y
<1>2. /\ a \in Seq(HxRespParts) /\ (info => Len(a) = 1 /\ a[1] = x) /\ (~info => Len(a) = 0)
      /\ \A i \in 1..Len(a) : a[i].owner = o
  BY <1>1
<1>3. /\ z \in Seq(HxRespParts) /\ (framing = "none" => Len(z) = 0)
      /\ (framing # "none" => Len(z) = 1) /\ \A i \in 1..Len(z) : z[i].owner = o
  BY <1>1
<1>4. /\ <<h>> \in Seq(HxRespParts) /\ Len(<<h>>) = 1 /\ <<h>>[1] = h
      /\ \A i \in 1..Len(<<h>>) : <<h>>[i].owner = o
  BY <1>1
<1>5. ASSUME NEW p \in Seq(HxRespParts), NEW q \in Seq(HxRespParts),
             \A i \in 1..Len(p) : p[i].owner = o, \A i \in 1..Len(q) : q[i].owner = o
      PROVE  \A i \in 1..Len(p \o q) : (p \o q)[i].owner = o
  <2>1. /\ Len(p) \in Nat /\ Len(q) \in Nat /\ Len(p \o q) = Len(p) + Len(q)
        /\ \A i \in 1..Len(p) : (p \o q)[i] = p[i]
        /\ \A i \in 1..Len(q) : (p \o q)[Len(p) + i] = q[i]
    BY HxConcat
  <2> DEFINE r == p \o q
  <2> HIDE DEF r
  <2>2. ASSUME NEW i \in 1..Len(r) PROVE r[i].owner = o
    <3>1. CASE i \in 1..Len(p)
      BY <1>5, <2>1, <3>1, Zenon DEF r
    <3>2. CASE i \notin 1..Len(p)
      <4>1. Len(p) \in Nat /\ Len(q) \in Nat /\ Len(r) = Len(p) + Len(q)
        BY <2>1, Zenon DEF r
      <4>2. i - Len(p) \in 1..Len(q) /\ Len(p) + (i - Len(p)) = i
        BY <3>2, <4>1
      <4>3. r[Len(p) + (i - Len(p))] = q[i - Len(p)]
        BY <2>1, <4>2, Zenon DEF r
      <4> QED BY <1>5, <4>2, <4>3, Zenon
    <3> QED BY <3>1, <3>2, Zenon
  <2> QED BY <2>2, Zenon DEF r
<1> HIDE DEF a, z
<1>6. /\ t \in Seq(HxRespParts) /\ Len(t) = 1 + Len(z) /\ t[1] = h
  <2>1. 1 \in 1..Len(<<h>>)
    BY <1>4
  <2>2. /\ t \in Seq(HxRespParts) /\ Len(t) = Len(<<h>>) + Len(z)
        /\ \A i \in 1..Len(<<h>>) : t[i] = <<h>>[i]
    BY <1>3, <1>4, HxConcat, Zenon
  <2> QED BY <1>4, <2>1, <2>2, Zenon
<1>7. \A i \in 1..Len(t) : t[i].owner = o
  BY <1>3, <1>4, <1>5, Zenon
<1> HIDE DEF t
<1>8. /\ s \in Seq(HxRespParts) /\ Len(s) = Len(a) + Len(t)
      /\ \A i \in 1..Len(a) : s[i] = a[i]
      /\ \A i \in 1..Len(t) : s[Len(a) + i] = t[i]
  <2>1. a \in Seq(HxRespParts) /\ t \in Seq(HxRespParts)
    BY <1>2, <1>6, Zenon
  <2> QED BY <2>1, HxConcat
<1>9. \A i \in 1..Len(s) : s[i].owner = o
  BY <1>2, <1>5, <1>6, <1>7, Zenon
<1> HIDE DEF s
<1>l. /\ Len(s) = Len(a) + Len(t) /\ Len(t) = 1 + Len(z) /\ Len(z) \in Nat
      /\ 1 \in 1..Len(t)
  <2>1. Len(t) = 1 + Len(z) /\ (Len(z) = 0 \/ Len(z) = 1) /\ Len(s) = Len(a) + Len(t)
    BY <1>3, <1>6, <1>8, Zenon
  <2> QED BY <2>1
<1>10. HxRest(s, o, "wait")
  <2>1. CASE info
    <3>1. /\ Len(a) = 1 /\ 1 \in 1..Len(a) /\ Len(a) + 1 = 2
          /\ framing = "none" => Len(s) = 2
          /\ framing # "none" => Len(s) = 3
      <4>1. Len(a) = 1 /\ (framing = "none" => Len(z) = 0) /\ (framing # "none" => Len(z) = 1)
        BY <1>2, <1>3, <2>1, Zenon
      <4>2. Len(a) = 1 /\ 1 \in 1..Len(a) /\ Len(a) + 1 = 2
        BY <4>1
      <4>3. framing = "none" => Len(s) = 2
        BY <1>l, <4>1
      <4>4. ASSUME framing # "none" PROVE Len(s) = 3
        <5>1. Len(z) = 1
          BY <4>1, <4>4, Zenon
        <5> QED BY <1>l, <4>1, <5>1
      <4> QED BY <4>2, <4>3, <4>4, Zenon
    <3>2. s[1] = x
      BY <1>2, <1>8, <2>1, <3>1, Zenon
    <3>3. s[2] = h
      <4>1. s[Len(a) + 1] = t[1]
        BY <1>8, <1>l, Zenon
      <4> QED BY <1>6, <3>1, <4>1, Zenon
    <3> QED BY <1>1, <1>9, <3>1, <3>2, <3>3, Zenon DEF HxRest
  <2>2. CASE ~info
    <3>1. /\ Len(a) = 0 /\ Len(a) + 1 = 1
          /\ framing = "none" => Len(s) = 1
          /\ framing # "none" => Len(s) = 2
      <4>1. Len(a) = 0 /\ (framing = "none" => Len(z) = 0) /\ (framing # "none" => Len(z) = 1)
        BY <1>2, <1>3, <2>2, Zenon
      <4> QED BY <1>l, <4>1
    <3>2. s[1] = h
      <4>1. s[Len(a) + 1] = t[1]
        BY <1>8, <1>l, Zenon
      <4> QED BY <1>6, <3>1, <4>1, Zenon
    <3> QED BY <1>1, <1>9, <3>1, <3>2, Zenon DEF HxRest
  <2> QED BY <2>1, <2>2, Zenon
<1>11. <<>> \o a = a
  BY <1>2
<1>12. t = HxAnswer(o, framing)
  BY Zenon DEF t, h, y, z, HxAnswer
<1> QED BY <1>8, <1>10, <1>11, <1>12, Zenon DEF s, a, x

\* A back end answers the request it has begun to read, once.
LEMMA HxBackendAnswersKeeps ==
    ASSUME HxIInv, NEW b \in HxBackends, HxBackendAnswers(b) PROVE HxIInv'
<1> USE HxBackFields
<1> DEFINE old == hxBk[b]
           said == [hxBk[b] EXCEPT !.answered = TRUE]
           bk == HxProgress(said)
           answer(r, i, f) ==
               r \o (IF i THEN <<[part |-> "info", owner |-> hxBk[b].owner,
                                  framing |-> "none"]>> ELSE <<>>)
                 \o HxAnswer(hxBk[b].owner, f)
<1>1. /\ old.owner # <<>> /\ ~old.answered /\ hxBk' = [hxBk EXCEPT ![b] = bk]
      /\ UNCHANGED <<hxSent, hxIn, hxPc, hxCur, hxLease, hxIdle, hxOpen, hxReq>>
  BY Zenon DEF HxBackendAnswers, hxClient
<1>2. PICK framing \in HxFramings, info \in BOOLEAN :
         hxResp' = [hxResp EXCEPT ![b] = answer(hxResp[b], info, framing)]
  BY Zenon DEF HxBackendAnswers
<1>3. /\ old \in HxBks /\ old.left \in Nat /\ old.owner \in HxOwners
      /\ hxReq[b] \in Seq(HxReqParts)
  BY <1>1 DEF HxBks
<1>4. /\ said \in HxBks /\ said.left = old.left /\ said.owner = old.owner
      /\ said.answered = TRUE
  BY <1>3, Zenon DEF HxBks
<1> HIDE DEF said, old
<1>5. /\ bk \in HxBks /\ bk.left = old.left /\ HxBkOk(bk) /\ HxSettled(bk)
      /\ bk.owner \in {<<>>, old.owner}
  <2>1. CASE said.left = 0
    <3>1. bk = HxFree
      BY <1>4, <2>1, Zenon DEF HxProgress
    <3>2. HxFree \in HxBks /\ HxFree.owner = <<>> /\ HxFree.left = 0
          /\ HxFree.answered = FALSE
      BY DEF HxFree, HxBks
    <3> QED BY <1>4, <2>1, <3>1, <3>2, Zenon DEF HxSettled, HxBkOk
  <2>2. CASE said.left # 0
    <3>1. bk = said
      BY <1>4, <2>2, Zenon DEF HxProgress
    <3>2. said.left > 0
      BY <1>3, <1>4, <2>2
    <3> QED BY <1>1, <1>4, <3>1, <3>2, Zenon DEF HxSettled, HxBkOk
  <2> QED BY <2>1, <2>2, Zenon
<1> HIDE DEF bk
<1>6. ~HxSettled(old)
  BY <1>1, Zenon DEF HxSettled
<1>7. hxResp[b] = <<>>
  <2>1. CASE \E c \in HxClients : hxPc[c] = "exchange" /\ hxLease[c] = b
    <3>1. PICK c \in HxClients : hxPc[c] = "exchange" /\ hxLease[c] = b
      BY <2>1, Zenon
    <3>2. HxBusy(<<c, hxCur[c].k>>, hxCur[c], hxReq[b], old, hxResp[b])
      BY <3>1, HxExchangeFields, Zenon DEF old
    <3> QED BY <1>6, <3>2, Zenon DEF HxBusy, HxUnread, HxRead
  <2>2. CASE \A c \in HxClients : hxPc[c] = "exchange" => hxLease[c] # b
    <3>1. HxIdleOk(hxReq[b], old, hxResp[b])
      BY <2>2, Zenon DEF HxIInv, old
    <3> QED BY <3>1, Zenon DEF HxIdleOk
  <2> QED BY <2>1, <2>2, Zenon
<1> DEFINE resp == answer(<<>>, info, framing)
<1>8. resp \in Seq(HxRespParts) /\ HxRest(resp, old.owner, "wait")
  BY <1>3, HxAnswerRest, Zenon DEF old
<1>9. hxResp' = [hxResp EXCEPT ![b] = resp]
  BY <1>2, <1>7, Zenon
<1> HIDE DEF resp
<1>10. /\ hxBk' \in [HxBackends -> HxBks] /\ hxBk'[b] = bk
       /\ \A x \in HxBackends \ {b} : hxBk'[x] = hxBk[x]
  <2>1. hxBk \in [HxBackends -> HxBks] /\ hxBk' = [hxBk EXCEPT ![b] = bk] /\ bk \in HxBks
    BY <1>1, <1>5, Zenon DEF HxIInv, HxTypeOK
  <2> QED BY <2>1, HxUpdate, Zenon
<1>11. /\ hxResp' \in [HxBackends -> Seq(HxRespParts)] /\ hxResp'[b] = resp
       /\ \A x \in HxBackends \ {b} : hxResp'[x] = hxResp[x]
  BY <1>8, <1>9, HxUpdate, Zenon DEF HxIInv, HxTypeOK
<1>12. HxTypeOK'
  BY <1>1, <1>10, <1>11, Zenon DEF HxIInv, HxTypeOK
<1>13. ASSUME NEW o, NEW cur, o \in HxOwners, HxBusy(o, cur, hxReq[b], old, hxResp[b])
       PROVE  HxBusy(o, cur, hxReq[b], bk, resp)
  <2>1. HxRead(o, cur, hxReq[b], old, hxResp[b])
    BY <1>6, <1>13, Zenon DEF HxBusy, HxUnread
  <2>2. old.owner = o /\ cur.answer = "wait"
    BY <1>1, <1>6, <2>1, Zenon DEF HxRead
  <2>3. HxRead(o, cur, hxReq[b], bk, resp)
    BY <1>5, <1>8, <2>1, <2>2, Zenon DEF HxRead
  <2> QED BY <2>3, Zenon DEF HxBusy
<1>14. ~HxIdleOk(hxReq[b], old, hxResp[b])
  BY <1>6, Zenon DEF HxIdleOk
<1>15. \A o, cur : o \in HxOwners /\ cur \in HxCurs /\ cur.left <= cur.body
                   /\ HxBusy(o, cur, hxReq[b], hxBk[b], hxResp[b])
                   => HxBusy(o, cur, hxReq'[b], hxBk'[b], hxResp'[b])
  BY <1>1, <1>10, <1>11, <1>13, Zenon DEF old
<1>16. /\ HxBkOk(hxBk'[b])
       /\ HxIdleOk(hxReq[b], hxBk[b], hxResp[b]) => HxIdleOk(hxReq'[b], hxBk'[b], hxResp'[b])
  BY <1>5, <1>10, <1>14, Zenon DEF old
<1>17. \A x \in HxBackends \ {b} : /\ hxReq'[x] = hxReq[x] /\ hxBk'[x] = hxBk[x]
                                   /\ hxResp'[x] = hxResp[x]
  BY <1>1, <1>10, <1>11, Zenon
<1> QED BY <1>1, <1>12, <1>15, <1>16, <1>17, HxBackSide, Zenon

-----------------------------------------------------------------------------
\* A back end without an exchange takes the head of a request, behind at most
\* the rest of a body that was answered early.
LEMMA HxBusyBegins ==
    ASSUME NEW o \in HxOwners, NEW cur \in HxCurs, NEW req \in Seq(HxReqParts),
           NEW bk \in HxBks, NEW resp, HxIdleOk(req, bk, resp),
           cur.left = cur.body, cur.answer = "wait",
           NEW x \in HxReqParts, x.part = "head", x.owner = o, x.body = cur.body
    PROVE  HxBusy(o, cur, Append(req, x), bk, resp)
<1> DEFINE req2 == Append(req, x)
<1>1. /\ Len(req) \in Nat /\ Len(req2) = Len(req) + 1 /\ req2[Len(req) + 1] = x
      /\ \A i \in 1..Len(req) : req2[i] = req[i]
  BY HxAppend
<1>2. cur.left \in Nat /\ bk.left \in Nat /\ Len(req) = bk.left
  BY Zenon DEF HxCurs, HxBks, HxIdleOk
<1> HIDE DEF req2
<1>l. Len(req) \in Nat /\ Len(req2) = Len(req) + 1
  BY <1>1, Zenon
<1>3. Len(req2) = bk.left + 1 + cur.body - cur.left
  BY <1>l, <1>2
<1>4. ASSUME NEW i \in 1..Len(req2)
      PROVE  /\ req2[i].part = IF i = bk.left + 1 THEN "head" ELSE "body"
             /\ req2[i].owner = IF i < bk.left + 1 THEN bk.owner ELSE o
  <2>1. CASE i \in 1..Len(req)
    <3>1. i # bk.left + 1 /\ i < bk.left + 1
      BY <1>l, <1>2, <2>1
    <3> QED BY <1>1, <2>1, <3>1, Zenon DEF HxIdleOk, HxOnlyBodies
  <2>2. CASE i = Len(req) + 1
    <3>1. i = bk.left + 1 /\ ~(i < bk.left + 1)
      BY <1>l, <1>2, <2>2
    <3> QED BY <1>1, <2>2, <3>1, Zenon
  <2> QED BY <1>l, <2>1, <2>2
<1>5. req2[bk.left + 1].body = cur.body
  BY <1>1, <1>2, Zenon
<1>6. HxUnread(o, cur, req2, bk, resp)
  BY <1>3, <1>4, <1>5, Zenon DEF HxUnread, HxIdleOk
<1> QED BY <1>6, Zenon DEF HxBusy, req2

\* acquire_or_connect and the head that is written keep the invariant.
LEMMA HxAcquireKeeps ==
    ASSUME HxIInv, NEW c \in HxClients, HxAcquire(c) PROVE HxIInv'
<1> USE HxClientFields
<1> DEFINE o == <<c, hxCur[c].k>>
           x == [part |-> "head", owner |-> o, body |-> hxCur[c].body]
<1>1. PICK b \in HxBackends :
         /\ IF hxIdle # {} THEN b \in hxIdle ELSE b \notin hxOpen
         /\ hxIdle' = hxIdle \ {b} /\ hxOpen' = hxOpen \cup {b}
         /\ hxLease' = [hxLease EXCEPT ![c] = b]
         /\ hxReq' = [hxReq EXCEPT ![b] = Append(hxReq[b], x)]
  BY Zenon DEF HxAcquire, HxRequest
<1>2. /\ hxPc[c] = "acquire" /\ hxPc' = [hxPc EXCEPT ![c] = "exchange"]
      /\ UNCHANGED <<hxSent, hxIn, hxCur, hxBk, hxResp>>
  BY Zenon DEF HxAcquire, HxGoto, hxClient
<1>3. hxCur[c].k \in Nat /\ hxCur[c].body \in Nat
  BY Zenon DEF HxCurs
<1>4. o \in HxOwners
  BY <1>3 DEF HxOwners
<1> HIDE DEF o
<1>5. x \in HxReqParts /\ x.part = "head" /\ x.owner = o /\ x.body = hxCur[c].body
  BY <1>3, <1>4, Zenon DEF HxReqParts
<1> HIDE DEF x
<1>6. /\ hxPc' \in [HxClients -> HxPcs] /\ hxPc'[c] = "exchange"
      /\ \A d \in HxClients \ {c} : hxPc'[d] = hxPc[d]
  <2>1. "exchange" \in HxPcs
    BY DEF HxPcs
  <2> QED BY <1>2, <2>1, HxUpdate, Zenon DEF HxIInv, HxTypeOK
<1>7. /\ hxLease' \in [HxClients -> HxBackends \cup {0}] /\ hxLease'[c] = b
      /\ \A d \in HxClients \ {c} : hxLease'[d] = hxLease[d]
  <2>1. b \in HxBackends \cup {0}
    BY Zenon
  <2> QED BY <1>1, <2>1, HxUpdate, Zenon DEF HxIInv, HxTypeOK
<1>8. Append(hxReq[b], x) \in Seq(HxReqParts)
  BY <1>5, HxBackFields, HxAppend, Zenon
<1>9. /\ hxReq' \in [HxBackends -> Seq(HxReqParts)] /\ hxReq'[b] = Append(hxReq[b], x)
      /\ \A y \in HxBackends \ {b} : hxReq'[y] = hxReq[y]
  BY <1>1, <1>8, HxUpdate, Zenon DEF HxIInv, HxTypeOK
<1>10. HxTypeOK'
  <2>1. hxIdle' \subseteq hxOpen' /\ hxOpen' \subseteq HxBackends
    BY <1>1, Zenon DEF HxIInv, HxTypeOK
  <2> QED BY <1>2, <1>6, <1>7, <1>9, <2>1, Zenon DEF HxIInv, HxTypeOK
<1>11. \A d \in HxClients : hxPc[d] = "exchange" => hxLease[d] # b
  BY <1>1, Zenon DEF HxIInv, HxLeasesOk
<1>12. HxIdleOk(hxReq[b], hxBk[b], hxResp[b])
  BY <1>11, Zenon DEF HxIInv
<1>13. HxBusy(o, hxCur[c], Append(hxReq[b], x), hxBk[b], hxResp[b])
  <2>1. hxCur[c].left = hxCur[c].body /\ hxCur[c].answer = "wait"
    BY <1>2, Zenon DEF HxClientOk
  <2> QED BY <1>4, <1>5, <1>12, <2>1, HxBackFields, HxBusyBegins, Zenon
<1>14. \A d \in HxClients : HxClientOk(hxPc'[d], hxCur'[d], hxIn'[d], hxSent'[d])
  <2>1. HxClientOk("exchange", hxCur[c], hxIn[c], hxSent[c])
    <3>1. "exchange" # "reading" /\ "exchange" # "acquire"
      OBVIOUS
    <3> QED BY <1>2, <3>1, Zenon DEF HxClientOk
  <2> QED BY <1>2, <1>6, <2>1, Zenon
<1>15. ASSUME NEW d \in HxClients, hxPc'[d] = "exchange", d # c
       PROVE  /\ hxPc[d] = "exchange" /\ hxLease'[d] = hxLease[d] /\ hxLease[d] # b
              /\ hxLease[d] \in HxBackends /\ hxLease[d] \in hxOpen \ hxIdle
  <2>1. hxPc[d] = "exchange" /\ hxLease'[d] = hxLease[d]
    BY <1>6, <1>7, <1>15, Zenon
  <2> QED BY <1>11, <2>1, Zenon DEF HxIInv, HxLeasesOk, HxTypeOK
<1>16. HxLeasesOk'
  <2> SUFFICES ASSUME NEW d \in HxClients, hxPc'[d] = "exchange"
               PROVE  /\ hxLease'[d] \in hxOpen' \ hxIdle'
                      /\ \A y \in HxClients :
                            hxPc'[y] = "exchange" /\ hxLease'[y] = hxLease'[d] => y = d
    BY Zenon DEF HxLeasesOk
  <2>1. CASE d = c
    BY <1>1, <1>7, <1>15, <2>1, Zenon
  <2>2. CASE d # c
    <3>1. hxLease'[d] \in hxOpen' \ hxIdle'
      <4>1. hxLease'[d] = hxLease[d] /\ hxLease[d] \in hxOpen /\ hxLease[d] \notin hxIdle
        BY <1>15, <2>2, Zenon
      <4>2. hxIdle' = hxIdle \ {b} /\ hxOpen' = hxOpen \cup {b}
        BY <1>1, Zenon
      <4> QED BY <4>1, <4>2, Zenon
    <3>2. ASSUME NEW y \in HxClients, hxPc'[y] = "exchange", hxLease'[y] = hxLease'[d]
          PROVE  y = d
      <4>1. y # c
        BY <1>7, <1>15, <2>2, <3>2, Zenon
      <4>2. hxPc[y] = "exchange" /\ hxPc[d] = "exchange" /\ hxLease[y] = hxLease[d]
        BY <1>15, <2>2, <3>2, <4>1, Zenon
      <4> QED BY <4>2, Zenon DEF HxIInv, HxLeasesOk
    <3> QED BY <3>1, <3>2, Zenon
  <2> QED BY <2>1, <2>2, Zenon
<1>17. ASSUME NEW d \in HxClients, hxPc'[d] = "exchange"
       PROVE  HxBusy(<<d, hxCur'[d].k>>, hxCur'[d], hxReq'[hxLease'[d]], hxBk'[hxLease'[d]],
                     hxResp'[hxLease'[d]])
  <2>1. CASE d = c
    BY <1>2, <1>7, <1>9, <1>13, <2>1, Zenon DEF o
  <2>2. CASE d # c
    <3>1. /\ hxPc[d] = "exchange" /\ hxLease'[d] = hxLease[d]
          /\ hxLease[d] \in HxBackends \ {b}
      BY <1>15, <1>17, <2>2, Zenon
    <3>2. hxReq'[hxLease[d]] = hxReq[hxLease[d]]
      BY <1>9, <3>1, Zenon
    <3>3. HxBusy(<<d, hxCur[d].k>>, hxCur[d], hxReq[hxLease[d]], hxBk[hxLease[d]],
                 hxResp[hxLease[d]])
      BY <3>1, HxExchangeFields, Zenon
    <3> QED BY <1>2, <3>1, <3>2, <3>3, Zenon
  <2> QED BY <2>1, <2>2, Zenon
<1>18. ASSUME NEW y \in HxBackends,
              \A d \in HxClients : hxPc'[d] = "exchange" => hxLease'[d] # y
       PROVE  HxIdleOk(hxReq'[y], hxBk'[y], hxResp'[y])
  <2>1. y # b
    BY <1>6, <1>7, <1>18, Zenon
  <2>2. ASSUME NEW d \in HxClients, hxPc[d] = "exchange" PROVE hxLease[d] # y
    <3>1. d # c
      BY <1>2, <2>2
    <3> QED BY <1>6, <1>7, <1>18, <2>2, <3>1, Zenon
  <2>3. hxReq'[y] = hxReq[y]
    BY <1>9, <2>1, Zenon
  <2>4. HxIdleOk(hxReq[y], hxBk[y], hxResp[y])
    BY <2>2, Zenon DEF HxIInv
  <2> QED BY <1>2, <2>3, <2>4, Zenon
<1>19. \A y \in HxBackends : HxBkOk(hxBk'[y])
  BY <1>2, Zenon DEF HxIInv
<1> QED BY <1>10, <1>14, <1>16, <1>17, <1>18, <1>19, Zenon DEF HxIInv

\* a back end that is discarded
LEMMA HxDiscardFields ==
    ASSUME HxIInv, NEW b \in HxBackends, HxDiscard(b)
    PROVE  /\ hxReq' \in [HxBackends -> Seq(HxReqParts)] /\ hxBk' \in [HxBackends -> HxBks]
           /\ hxResp' \in [HxBackends -> Seq(HxRespParts)]
           /\ \A x \in HxBackends \ {b} : /\ hxReq'[x] = hxReq[x] /\ hxBk'[x] = hxBk[x]
                                          /\ hxResp'[x] = hxResp[x]
           /\ HxBkOk(hxBk'[b]) /\ HxIdleOk(hxReq'[b], hxBk'[b], hxResp'[b])
<1>1. /\ <<>> \in Seq(HxReqParts) /\ <<>> \in Seq(HxRespParts) /\ HxFree \in HxBks
      /\ HxFree.owner = <<>> /\ HxFree.left = 0 /\ HxFree.answered = FALSE
  BY DEF HxFree, HxBks
<1>t. /\ hxReq \in [HxBackends -> Seq(HxReqParts)] /\ hxBk \in [HxBackends -> HxBks]
      /\ hxResp \in [HxBackends -> Seq(HxRespParts)]
  BY Zenon DEF HxIInv, HxTypeOK
<1>e. /\ hxReq' = [hxReq EXCEPT ![b] = <<>>] /\ hxBk' = [hxBk EXCEPT ![b] = HxFree]
      /\ hxResp' = [hxResp EXCEPT ![b] = <<>>]
  BY Zenon DEF HxDiscard
<1>2. /\ hxReq' \in [HxBackends -> Seq(HxReqParts)] /\ hxReq'[b] = <<>>
      /\ \A x \in HxBackends \ {b} : hxReq'[x] = hxReq[x]
  BY <1>1, <1>t, <1>e
<1>3. /\ hxBk' \in [HxBackends -> HxBks] /\ hxBk'[b] = HxFree
      /\ \A x \in HxBackends \ {b} : hxBk'[x] = hxBk[x]
  BY <1>1, <1>t, <1>e, HxUpdate, Zenon
<1>4. /\ hxResp' \in [HxBackends -> Seq(HxRespParts)] /\ hxResp'[b] = <<>>
      /\ \A x \in HxBackends \ {b} : hxResp'[x] = hxResp[x]
  BY <1>1, <1>t, <1>e
<1>5. HxBkOk(HxFree) /\ HxSettled(HxFree)
  BY <1>1, Zenon DEF HxBkOk, HxSettled
<1>6. HxOnlyBodies(<<>>, HxFree.owner) /\ Len(<<>>) = HxFree.left
  BY <1>1 DEF HxOnlyBodies
<1>7. HxIdleOk(<<>>, HxFree, <<>>)
  BY <1>5, <1>6, Zenon DEF HxIdleOk
<1> QED BY <1>2, <1>3, <1>4, <1>5, <1>7, Zenon

\* The end of an exchange that went wrong: nothing of it stays behind.
LEMMA HxAbortKeeps ==
    ASSUME HxIInv, NEW c \in HxClients, HxAbort(c) PROVE HxIInv'
<1>1. /\ hxPc[c] = "exchange" /\ hxLease' = [hxLease EXCEPT ![c] = 0]
      /\ HxDiscard(hxLease[c]) /\ HxClose(c) /\ UNCHANGED <<hxIdle, hxOpen>>
  BY Zenon DEF HxAbort
<1>2. hxLease[c] \in HxBackends /\ 0 \in HxBackends \cup {0}
  BY <1>1, HxExchangeFields, Zenon
<1>3. /\ hxLease' \in [HxClients -> HxBackends \cup {0}]
      /\ \A d \in HxClients \ {c} : hxLease'[d] = hxLease[d]
  BY <1>1, <1>2, HxUpdate, Zenon DEF HxIInv, HxTypeOK
<1>4. HxTypeOK'
  BY <1>1, <1>2, <1>3, HxCloseFields, HxDiscardFields, Zenon DEF HxIInv, HxTypeOK
<1>5. hxPc'[c] # "exchange"
  BY <1>1, HxCloseFields, Zenon
<1>6. \A d \in HxClients \ {c} : /\ hxPc'[d] = hxPc[d] /\ hxCur'[d] = hxCur[d]
                                 /\ hxIn'[d] = hxIn[d] /\ hxSent'[d] = hxSent[d]
                                 /\ hxLease'[d] = hxLease[d]
  BY <1>1, <1>3, HxCloseFields, Zenon
<1>7. HxClientOk(hxPc'[c], hxCur'[c], hxIn'[c], hxSent'[c])
  BY <1>1, HxCloseFields, Zenon
<1>8. /\ \A x \in HxBackends \ {hxLease[c]} : /\ hxReq'[x] = hxReq[x] /\ hxBk'[x] = hxBk[x]
                                              /\ hxResp'[x] = hxResp[x]
      /\ HxBkOk(hxBk'[hxLease[c]])
      /\ HxIdleOk(hxReq'[hxLease[c]], hxBk'[hxLease[c]], hxResp'[hxLease[c]])
  BY <1>1, <1>2, HxDiscardFields, Zenon
<1>9. UNCHANGED hxOpen /\ hxIdle' \subseteq hxIdle \cup {hxLease[c]}
  BY <1>1, Zenon
<1> QED BY <1>1, <1>4, <1>5, <1>6, <1>7, <1>8, <1>9, HxEndSide, Zenon

\* The end of an exchange: a back end that is kept has sent its whole answer
\* and was sent the whole request, and a client that is kept is between two
\* requests.
LEMMA HxFinishKeeps ==
    ASSUME HxIInv, NEW c \in HxClients, HxFinish(c) PROVE HxIInv'
<1> USE HxClientFields
<1> DEFINE b == hxLease[c]
           o == <<c, hxCur[c].k>>
<1>1. /\ hxPc[c] = "exchange" /\ hxCur[c].answer = "done"
      /\ hxLease' = [hxLease EXCEPT ![c] = 0] /\ UNCHANGED hxOpen
      /\ IF HxBackendReusable(c)
         THEN hxIdle' = hxIdle \cup {b} /\ UNCHANGED <<hxReq, hxBk, hxResp>>
         ELSE HxDiscard(b) /\ UNCHANGED hxIdle
      /\ IF HxClientReusable(c)
         THEN /\ hxPc' = [hxPc EXCEPT ![c] = "reading"] /\ hxCur' = [hxCur EXCEPT ![c] = HxNone]
              /\ UNCHANGED <<hxSent, hxIn>>
         ELSE HxClose(c)
  BY Zenon DEF HxFinish, HxGoto, hxBackend, hxClient
<1>2. /\ b \in HxBackends /\ hxReq[b] \in Seq(HxReqParts) /\ hxBk[b] \in HxBks
      /\ HxBkOk(hxBk[b]) /\ HxBusy(o, hxCur[c], hxReq[b], hxBk[b], hxResp[b])
      /\ b \in hxOpen
  BY <1>1, HxExchangeFields, Zenon DEF HxIInv, HxLeasesOk
<1> HIDE DEF o
<1>3. /\ hxLease' \in [HxClients -> HxBackends \cup {0}]
      /\ \A d \in HxClients \ {c} : hxLease'[d] = hxLease[d]
  <2>1. 0 \in HxBackends \cup {0}
    BY Zenon
  <2> QED BY <1>1, <2>1, HxUpdate, Zenon DEF HxIInv, HxTypeOK
<1>4. /\ hxPc' \in [HxClients -> HxPcs] /\ hxPc'[c] # "exchange"
      /\ hxIn' \in [HxClients -> Seq(HxInParts)]
      /\ hxSent' \in [HxClients -> HxSents] /\ hxCur' \in [HxClients -> HxCurs]
      /\ \A d \in HxClients \ {c} : /\ hxPc'[d] = hxPc[d] /\ hxCur'[d] = hxCur[d]
                                    /\ hxIn'[d] = hxIn[d] /\ hxSent'[d] = hxSent[d]
      /\ HxClientOk(hxPc'[c], hxCur'[c], hxIn'[c], hxSent'[c])
  <2>1. CASE HxClientReusable(c)
    <3>1. /\ hxPc' = [hxPc EXCEPT ![c] = "reading"] /\ hxCur' = [hxCur EXCEPT ![c] = HxNone]
          /\ UNCHANGED <<hxSent, hxIn>>
      BY <1>1, <2>1, Zenon
    <3>2. /\ "reading" \in HxPcs /\ HxNone \in HxCurs /\ HxNone.left <= HxNone.body
          /\ HxNone.requested = FALSE
      BY DEF HxPcs, HxNone, HxCurs, HxFramings
    <3>3. /\ hxPc' \in [HxClients -> HxPcs] /\ hxPc'[c] = "reading"
          /\ \A d \in HxClients \ {c} : hxPc'[d] = hxPc[d]
      BY <3>1, <3>2, HxUpdate, Zenon DEF HxIInv, HxTypeOK
    <3>4. /\ hxCur' \in [HxClients -> HxCurs] /\ hxCur'[c] = HxNone
          /\ \A d \in HxClients \ {c} : hxCur'[d] = hxCur[d]
      BY <3>1, <3>2, HxUpdate, Zenon DEF HxIInv, HxTypeOK
    <3>5. HxStream(hxIn[c], 0, hxSent[c].left)
      <4>1. hxCur[c].requested /\ HxStream(hxIn[c], hxCur[c].left, hxSent[c].left)
        BY <1>1, <2>1, Zenon DEF HxClientOk, HxClientReusable
      <4>2. hxCur[c].left = 0
        BY <4>1, Zenon DEF HxClientOk
      <4> QED BY <4>1, <4>2, Zenon
    <3>6. HxClientOk("reading", HxNone, hxIn[c], hxSent[c])
      <4>1. "reading" \notin {"acquire", "exchange"} /\ "reading" # "acquire"
        OBVIOUS
      <4> QED BY <3>2, <3>5, <4>1, Zenon DEF HxClientOk
    <3>7. hxIn' \in [HxClients -> Seq(HxInParts)] /\ hxSent' \in [HxClients -> HxSents]
      BY <3>1, Zenon DEF HxIInv, HxTypeOK
    <3>8. "reading" # "exchange"
      OBVIOUS
    <3> QED BY <3>1, <3>3, <3>4, <3>6, <3>7, <3>8, Zenon
  <2>2. CASE ~HxClientReusable(c)
    <3>1. HxClose(c) /\ "closed" # "exchange"
      BY <1>1, <2>2, Zenon
    <3> QED BY <3>1, HxCloseFields, Zenon
  <2> QED BY <2>1, <2>2, Zenon
<1>5. /\ hxReq' \in [HxBackends -> Seq(HxReqParts)] /\ hxBk' \in [HxBackends -> HxBks]
      /\ hxResp' \in [HxBackends -> Seq(HxRespParts)]
      /\ \A x \in HxBackends \ {b} : /\ hxReq'[x] = hxReq[x] /\ hxBk'[x] = hxBk[x]
                                     /\ hxResp'[x] = hxResp[x]
      /\ HxBkOk(hxBk'[b]) /\ HxIdleOk(hxReq'[b], hxBk'[b], hxResp'[b])
      /\ hxIdle' \subseteq hxIdle \cup {b} /\ hxIdle' \subseteq hxOpen
  <2>1. CASE HxBackendReusable(c)
    <3>1. hxIdle' = hxIdle \cup {b} /\ UNCHANGED <<hxReq, hxBk, hxResp>>
      BY <1>1, <2>1, Zenon
    <3>2. HxRead(o, hxCur[c], hxReq[b], hxBk[b], hxResp[b]) /\ HxSettled(hxBk[b])
      <4>1. "done" # "wait"
        OBVIOUS
      <4> QED BY <1>1, <1>2, <4>1, Zenon DEF HxBusy, HxUnread, HxRead
    <3>3. hxResp[b] = <<>>
      BY <1>1, <3>2, Zenon DEF HxRead, HxRest
    <3>4. hxCur[c].left = 0
      BY <2>1, Zenon DEF HxBackendReusable, HxClientOk
    <3>5. Len(hxReq[b]) = hxBk[b].left
      <4>1. Len(hxReq[b]) + hxCur[c].left = hxBk[b].left
        BY <3>2, Zenon DEF HxRead
      <4> QED BY <1>2, <3>4, <4>1
    <3>6. HxOnlyBodies(hxReq[b], hxBk[b].owner)
      <4>1. CASE hxBk[b].owner = o
        BY <3>2, <4>1, Zenon DEF HxRead
      <4>2. CASE hxBk[b].owner = <<>>
        <5>1. Len(hxReq[b]) = 0
          BY <1>2, <3>5, <4>2, Zenon DEF HxBkOk
        <5> QED BY <5>1 DEF HxOnlyBodies
      <4> QED BY <3>2, <4>1, <4>2, Zenon DEF HxRead
    <3>7. HxIdleOk(hxReq[b], hxBk[b], hxResp[b])
      BY <3>2, <3>3, <3>5, <3>6, Zenon DEF HxIdleOk
    <3>8. /\ hxReq' \in [HxBackends -> Seq(HxReqParts)] /\ hxBk' \in [HxBackends -> HxBks]
          /\ hxResp' \in [HxBackends -> Seq(HxRespParts)]
      BY <3>1, Zenon DEF HxIInv, HxTypeOK
    <3>9. hxIdle' \subseteq hxOpen
      BY <1>2, <3>1, Zenon DEF HxIInv, HxTypeOK
    <3> QED BY <1>2, <3>1, <3>7, <3>8, <3>9, Zenon
  <2>2. CASE ~HxBackendReusable(c)
    <3>1. HxDiscard(b) /\ UNCHANGED hxIdle
      BY <1>1, <2>2, Zenon
    <3>2. hxIdle \subseteq hxOpen
      BY Zenon DEF HxIInv, HxTypeOK
    <3> QED BY <1>2, <3>1, <3>2, HxDiscardFields, Zenon
  <2> QED BY <2>1, <2>2, Zenon
<1>6. HxTypeOK'
  BY <1>1, <1>3, <1>4, <1>5, Zenon DEF HxIInv, HxTypeOK
<1>7. \A d \in HxClients \ {c} : /\ hxPc'[d] = hxPc[d] /\ hxCur'[d] = hxCur[d]
                                 /\ hxIn'[d] = hxIn[d] /\ hxSent'[d] = hxSent[d]
                                 /\ hxLease'[d] = hxLease[d]
  BY <1>3, <1>4, Zenon
<1> QED BY <1>1, <1>4, <1>5, <1>6, <1>7, HxEndSide, Zenon

-----------------------------------------------------------------------------
\* Every step keeps the invariant.
LEMMA HxStepKeeps == ASSUME HxIInv, [HxNext]_hxVars PROVE HxIInv'
<1>1. CASE UNCHANGED hxVars
  BY <1>1, Zenon DEF hxVars, HxIInv, HxTypeOK, HxLeasesOk
<1>2. CASE \E c \in HxClients :
          \/ HxClientHead(c) \/ HxClientBody(c) \/ HxReadRequest(c) \/ HxReject(c)
          \/ HxPairFails(c) \/ HxTunnelEnds(c) \/ HxAcquire(c) \/ HxCopyRequestBody(c)
          \/ HxRequestFinished(c) \/ HxCopyResponse(c) \/ HxFinish(c) \/ HxAbort(c)
  BY <1>2, HxClientHeadKeeps, HxClientBodyKeeps, HxReadRequestKeeps, HxClosesKeep,
     HxAcquireKeeps, HxCopyRequestBodyKeeps, HxRequestFinishedKeeps, HxCopyResponseKeeps,
     HxFinishKeeps, HxAbortKeeps, Zenon
<1>3. CASE \E b \in HxBackends :
          \/ HxBackendHead(b) \/ HxBackendBody(b) \/ HxBackendAnswers(b)
  BY <1>3, HxBackendHeadKeeps, HxBackendBodyKeeps, HxBackendAnswersKeeps, Zenon
<1> QED BY <1>1, <1>2, <1>3, Zenon DEF HxNext

\* A connection on which nothing was sent.
LEMMA HxNothingSent == ASSUME NEW s, Len(s) = 0 PROVE HxStream(s, 0, 0)
<1> DEFINE left == [i \in 0..0 |-> 0]
<1>1. left \in [0..0 -> Nat] /\ left[0] = 0
  OBVIOUS
<1>2. HxCounts(s, left)
  BY DEF HxCounts
<1> HIDE DEF left
<1>3. left \in [0..Len(s) -> Nat] /\ left[Len(s)] = 0
  BY <1>1, Zenon
<1> QED BY <1>1, <1>2, <1>3, Zenon DEF HxStream

\* The first state satisfies the invariant.
LEMMA HxStart == HxInit => HxIInv
<1> SUFFICES ASSUME HxInit PROVE HxIInv
  OBVIOUS
<1>1. HxTypeOK
  BY DEF HxInit, HxTypeOK, HxSents, HxPcs, HxCurs, HxNone, HxFramings, HxFree, HxBks
<1>2. ASSUME NEW c \in HxClients PROVE HxClientOk(hxPc[c], hxCur[c], hxIn[c], hxSent[c])
  <2>1. /\ hxPc[c] = "reading" /\ hxCur[c] = HxNone /\ hxIn[c] = <<>>
        /\ hxSent[c].left = 0 /\ HxNone.left = 0 /\ HxNone.body = 0
        /\ HxNone.requested = FALSE
    BY DEF HxInit, HxNone
  <2>2. HxStream(<<>>, 0, 0)
    <3>1. Len(<<>>) = 0
      OBVIOUS
    <3> QED BY <3>1, HxNothingSent, Zenon
  <2>3. 0 <= 0 /\ "reading" \notin {"acquire", "exchange"} /\ "reading" # "acquire"
    OBVIOUS
  <2> QED BY <2>1, <2>2, <2>3, Zenon DEF HxClientOk
<1>3. \A c \in HxClients : hxPc[c] # "exchange"
  BY DEF HxInit
<1>4. HxLeasesOk
  BY <1>3, Zenon DEF HxLeasesOk
<1>5. ASSUME NEW b \in HxBackends
      PROVE  HxBkOk(hxBk[b]) /\ HxIdleOk(hxReq[b], hxBk[b], hxResp[b])
  BY DEF HxInit, HxBkOk, HxIdleOk, HxOnlyBodies, HxSettled, HxFree
<1> QED BY <1>1, <1>2, <1>3, <1>4, <1>5, Zenon DEF HxIInv

\* The proxy never takes a part of one message for another: what it reads as
\* a request is the head of one, back ends read heads as heads and bodies as
\* the bodies of their own requests, and a response goes to the request it
\* answers, with any number of connections, pipelined requests, early answers
\* and reused back ends (http_proxy_tunnel.rs).
THEOREM NoDesync == HxSpec => []HxNoDesync
<1>1. ASSUME HxIInv PROVE HxNoDesync
  <2>1. ASSUME NEW c \in HxClients, hxPc[c] = "reading"
        PROVE  IF hxIn[c] = <<>> THEN hxSent[c].left = 0 ELSE Head(hxIn[c]).part # "body"
    <3>1. HxStream(hxIn[c], 0, hxSent[c].left) /\ hxIn[c] \in Seq(HxInParts)
      BY <1>1, <2>1, HxClientFields, Zenon DEF HxClientOk
    <3>2. CASE hxIn[c] = <<>>
      <4>1. Len(hxIn[c]) = 0
        BY <3>2
      <4> QED BY <3>1, <3>2, <4>1, Zenon DEF HxStream
    <3>3. CASE hxIn[c] # <<>>
      <4>1. Head(hxIn[c]) = hxIn[c][1] /\ 0 \in Nat
        BY <3>1, <3>3, HxTail
      <4> QED BY <3>1, <3>3, <4>1, HxStreamShrinks, Zenon
    <3> QED BY <3>2, <3>3, Zenon
  <2>2. ASSUME NEW b \in HxBackends, hxReq[b] # <<>>
        PROVE  /\ hxBk[b].owner = <<>> => Head(hxReq[b]).part = "head"
               /\ hxBk[b].left > 0 => /\ Head(hxReq[b]).part = "body"
                                      /\ Head(hxReq[b]).owner = hxBk[b].owner
    <3>1. /\ Head(hxReq[b]) = hxReq[b][1] /\ Len(hxReq[b]) \in Nat \ {0}
          /\ hxBk[b] \in HxBks /\ HxBkOk(hxBk[b])
      BY <1>1, <2>2, HxBackFields, HxTail, Zenon
    <3>2. 1 \in 1..Len(hxReq[b]) /\ hxBk[b].left \in Nat
      BY <3>1 DEF HxBks
    <3>3. /\ hxBk[b].left > 0 => 1 # hxBk[b].left + 1 /\ 1 < hxBk[b].left + 1
          /\ hxBk[b].left = 0 => 1 = hxBk[b].left + 1 /\ ~(hxBk[b].left > 0)
      BY <3>2
    <3>4. ASSUME NEW o, NEW cur \in HxCurs,
                 HxBusy(o, cur, hxReq[b], hxBk[b], hxResp[b])
          PROVE  /\ hxBk[b].owner = <<>> => hxReq[b][1].part = "head"
                 /\ hxBk[b].left > 0 => /\ hxReq[b][1].part = "body"
                                        /\ hxReq[b][1].owner = hxBk[b].owner
      <4>1. CASE HxUnread(o, cur, hxReq[b], hxBk[b], hxResp[b])
        BY <3>1, <3>2, <3>3, <4>1, Zenon DEF HxUnread, HxBkOk
      <4>2. CASE HxRead(o, cur, hxReq[b], hxBk[b], hxResp[b])
        <5>1. Len(hxReq[b]) + cur.left = hxBk[b].left /\ cur.left \in Nat
          BY <3>4, <4>2, Zenon DEF HxRead, HxCurs
        <5>2. hxBk[b].left # 0
          BY <3>1, <5>1
        <5> QED BY <3>1, <3>2, <4>2, <5>2, Zenon DEF HxRead, HxOnlyBodies, HxBkOk
      <4> QED BY <3>4, <4>1, <4>2, Zenon DEF HxBusy
    <3>5. CASE \E c \in HxClients : hxPc[c] = "exchange" /\ hxLease[c] = b
      <4>1. PICK c \in HxClients : hxPc[c] = "exchange" /\ hxLease[c] = b
        BY <3>5, Zenon
      <4>2. hxCur[c] \in HxCurs
            /\ HxBusy(<<c, hxCur[c].k>>, hxCur[c], hxReq[b], hxBk[b], hxResp[b])
        BY <1>1, <4>1, HxClientFields, HxExchangeFields, Zenon
      <4>3. /\ hxBk[b].owner = <<>> => hxReq[b][1].part = "head"
            /\ hxBk[b].left > 0 => /\ hxReq[b][1].part = "body"
                                   /\ hxReq[b][1].owner = hxBk[b].owner
        BY <3>4, <4>2, Zenon
      <4> QED BY <3>1, <4>3, Zenon
    <3>6. CASE \A c \in HxClients : hxPc[c] = "exchange" => hxLease[c] # b
      <4>1. HxIdleOk(hxReq[b], hxBk[b], hxResp[b])
        BY <1>1, <3>6, Zenon DEF HxIInv
      <4>2. Len(hxReq[b]) # 0
        BY <3>1
      <4> QED BY <3>1, <3>2, <4>1, <4>2, Zenon DEF HxIdleOk, HxOnlyBodies, HxBkOk
    <3> QED BY <3>5, <3>6, Zenon
  <2>3. ASSUME NEW c \in HxClients, hxPc[c] = "exchange", hxResp[hxLease[c]] # <<>>
        PROVE  Head(hxResp[hxLease[c]]).owner = HxRequest(c)
    <3> DEFINE s == hxResp[hxLease[c]]
    <3>1. /\ s \in Seq(HxRespParts) /\ s # <<>>
          /\ HxBusy(<<c, hxCur[c].k>>, hxCur[c], hxReq[hxLease[c]], hxBk[hxLease[c]], s)
      BY <1>1, <2>3, HxExchangeFields, Zenon
    <3> HIDE DEF s
    <3>2. Head(s) = s[1] /\ 1 \in 1..Len(s)
      BY <3>1
    <3>3. HxRest(s, <<c, hxCur[c].k>>, hxCur[c].answer)
      BY <3>1, Zenon DEF HxBusy, HxUnread, HxRead
    <3> QED BY <3>2, <3>3, Zenon DEF HxRest, HxRequest, s
  <2> QED BY <2>1, <2>2, <2>3, Zenon DEF HxNoDesync
<1>2. HxIInv /\ [HxNext]_hxVars => HxIInv'
  BY HxStepKeeps, Zenon
<1> QED BY <1>1, <1>2, HxStart, PTL DEF HxSpec

=============================================================================
