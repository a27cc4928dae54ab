--------------------------- MODULE CatalogProofs ----------------------------
(***************************************************************************)
(* Proofs about policies: PolicyCatalog and FleetBundles, for any number   *)
(* of requests, policies, servers and concurrent handlers and any contents *)
(* of policies and bundles.                                                *)
(***************************************************************************)
EXTENDS PolicyCatalog, FleetBundles, TLAPS

PcRowSet == [id : PcIds, kind : PcKinds, port : Nat, name : STRING,
             enabled : BOOLEAN, cred : Nat]

\* What PcCatalogSound says, of any contents of the tables: rows, ownership,
\* binding, and the two histories.
PcSoundRows(rows) ==
    /\ rows \subseteq PcRowSet
    /\ \A r, s \in rows : r.id = s.id => r = s
    /\ \A r, s \in rows : r.id # s.id =>
          /\ PcEndpoints(r) \cap PcEndpoints(s) = {}
          /\ ~(PcUniqueName(r) /\ r.kind = s.kind /\ r.name = s.name)
    /\ \A r \in rows : r.cred = PcIssued(r.id, r.kind)
PcSoundAsked(rows, asked) ==
    /\ asked \in [PcIds -> BOOLEAN]
    /\ \A r \in rows : r.enabled => asked[r.id]
PcSoundOwner(rows, own, bind, fleet) ==
    /\ fleet = [i \in PcIds |-> fleet[i]]
    /\ \A r \in rows : r.id \in own =>
          [kind |-> r.kind, port |-> r.port, name |-> r.name] = fleet[r.id]
    /\ \A i \in own : i = bind /\ \E r \in rows : r.id = i

\* What a transaction leaves behind when it commits.
PcRowsAfter(tx) == {r \in pcRows : r.id \notin tx.gone} \cup tx.put
PcAskedAfter(tx) ==
    IF tx.op.do \in {"create", "enable", "import", "reconcile"}
    THEN [pcAsked EXCEPT ![tx.op.id] = tx.op.on] ELSE pcAsked
PcFleetAfter(tx) ==
    IF tx.op.do = "reconcile" THEN [pcFleet EXCEPT ![tx.op.id] = tx.op.x] ELSE pcFleet

\* Requests as they reach the lock.
PcDoings == {"create", "update", "enable", "delete", "import",
             "bind", "unbind", "reconcile", "clear"}
PcOp == [do : PcDoings, id : Nat, x : PcSpecs \cup PcRowSet \cup {PcNone}, on : BOOLEAN]
PcFresh(id) == \A r \in pcRows : r.id # id
PcOpSound(op) ==
    /\ op \in PcOp
    /\ op.do \in {"create", "update", "enable", "delete", "import", "reconcile"} => op.x \in PcSpecs
    /\ op.do \in {"create", "import", "update", "enable", "delete", "bind"} => op.id \in 1..pcNew
    /\ op.do \in {"create", "import"} => PcFresh(op.id)
    /\ op.do = "create" => op.on
    /\ op.do = "import" => op.x.kind \in {"tcp", "udp"}

\* A transaction that holds the lock has read what is still there, and what it
\* is about to commit is sound.
PcReadSound(tx) ==
    /\ PcOpSound(tx.op) /\ tx.op.do \in {"create", "update", "enable", "delete"}
    /\ tx.op.id \notin pcOwn
    /\ tx.prev = PcRowOf(tx.op.id)
    /\ (tx.op.do = "create") <=> (tx.prev = {})
    /\ \A r \in tx.prev : r.kind = tx.op.x.kind
PcWrittenSound(tx) ==
    /\ tx.op \in PcOp
    /\ \A r \in tx.put : r.id <= pcNew
    /\ PcSoundRows(PcRowsAfter(tx))
    /\ PcSoundAsked(PcRowsAfter(tx), PcAskedAfter(tx))
    /\ PcSoundOwner(PcRowsAfter(tx), tx.own, tx.bind, PcFleetAfter(tx))
PcTxSound(tx) ==
    /\ tx.pc \in {"idle", "locked", "read", "written"}
    /\ tx.pc = "locked" => PcOpSound(tx.op)
    /\ tx.pc = "read" => PcReadSound(tx)
    /\ tx.pc = "written" => PcWrittenSound(tx)

\* The lock: one transaction at a time.
PcLockHeldOnce == \A g, h \in PcHandlers : PcBusy(g) /\ PcBusy(h) => g = h

PcIInv ==
    /\ pcNew \in 0..PcMaxIds /\ pcTx = [h \in PcHandlers |-> pcTx[h]]
    /\ \A r \in pcRows : r.id <= pcNew
    /\ pcPorts = PcPortsOf(pcRows)
    /\ PcSoundRows(pcRows)
    /\ PcSoundAsked(pcRows, pcAsked)
    /\ PcSoundOwner(pcRows, pcOwn, pcBind, pcFleet)
    /\ PcLockHeldOnce
    /\ \A h \in PcHandlers : PcTxSound(pcTx[h])

-----------------------------------------------------------------------------
(* The constants, and what a policy occupies *)

\* what PcAssumption says of the specifications
LEMMA PcConstants ==
    /\ PcMaxIds \in Nat
    /\ \A x \in PcSpecs : /\ x = [kind |-> x.kind, port |-> x.port, name |-> x.name]
                          /\ x.kind \in PcKinds /\ x.port \in Nat /\ x.name \in STRING
BY PcAssumption

\* A policy that is no route occupies TCP and UDP ports only.
LEMMA PcReservationsAreOfPorts ==
    ASSUME NEW x, NEW e \in PcReservations(x)
    PROVE  e[1] \in {"tcp", "udp"} /\ e = <<e[1], e[2]>>
<1>1. CASE x.kind \in {"tcp", "http_proxy"}
  BY <1>1 DEF PcReservations
<1>2. CASE x.kind = "udp"
  BY <1>2 DEF PcReservations
<1>3. CASE x.kind = "socks5"
  BY <1>3 DEF PcReservations
<1>4. CASE x.kind = "group"
  BY <1>4 DEF PcReservations
<1>5. CASE x.kind \notin {"tcp", "http_proxy", "udp", "socks5", "group"}
  BY <1>5, Zenon DEF PcReservations
<1> QED BY <1>1, <1>2, <1>3, <1>4, <1>5, Zenon

\* Two policies share an endpoint only as a reserved port or as the hostname of
\* two routes of one kind.
LEMMA PcSharedEndpoint ==
    ASSUME NEW x, NEW y, PcReservations(x) \cap PcReservations(y) = {},
           ~(x.kind \in {"http", "sni"} /\ x.kind = y.kind /\ x.port = y.port)
    PROVE  PcEndpoints(x) \cap PcEndpoints(y) = {}
<1> SUFFICES ASSUME NEW e, e \in PcEndpoints(x), e \in PcEndpoints(y) PROVE FALSE
  OBVIOUS
<1>1. CASE x.kind \in {"http", "sni"} /\ y.kind \in {"http", "sni"}
  BY <1>1 DEF PcEndpoints
<1>2. CASE x.kind \in {"http", "sni"} /\ y.kind \notin {"http", "sni"}
  <2>1. e \in PcReservations(y) /\ e = <<x.kind, x.port>>
    BY <1>2, Zenon DEF PcEndpoints
  <2>2. e[1] \in {"tcp", "udp"}
    BY <2>1, PcReservationsAreOfPorts, Zenon
  <2> QED BY <1>2, <2>1, <2>2, Zenon
<1>3. CASE x.kind \notin {"http", "sni"} /\ y.kind \in {"http", "sni"}
  <2>1. e \in PcReservations(x) /\ e = <<y.kind, y.port>>
    BY <1>3, Zenon DEF PcEndpoints
  <2>2. e[1] \in {"tcp", "udp"}
    BY <2>1, PcReservationsAreOfPorts, Zenon
  <2> QED BY <1>3, <2>1, <2>2, Zenon
<1>4. CASE x.kind \notin {"http", "sni"} /\ y.kind \notin {"http", "sni"}
  BY <1>4, Zenon DEF PcEndpoints
<1> QED BY <1>1, <1>2, <1>3, <1>4, Zenon

\* A port that transaction_put finds free is reserved by no other policy.
LEMMA PcFreePort ==
    ASSUME NEW id, NEW x, pcPorts = PcPortsOf(pcRows), ~PcDuplicatePort(id, x),
           NEW r \in pcRows, r.id # id
    PROVE  PcReservations(r) \cap PcReservations(x) = {}
<1> SUFFICES ASSUME NEW e, e \in PcReservations(r), e \in PcReservations(x) PROVE FALSE
  OBVIOUS
<1> DEFINE q == <<e[1], e[2], r.id>>
<1>1. q \in pcPorts
  BY DEF PcPortsOf
<1>2. q[3] = r.id /\ <<q[1], q[2]>> = <<e[1], e[2]>>
  OBVIOUS
<1>3. <<q[1], q[2]>> = e
  BY <1>2, PcReservationsAreOfPorts, Zenon
<1> QED BY <1>1, <1>2, <1>3, Zenon DEF PcDuplicatePort

-----------------------------------------------------------------------------
(* What a write leaves *)

\* issued credentials are numbers
LEMMA PcIssuedIsNat ==
    ASSUME NEW id \in Nat, NEW kind PROVE PcIssued(id, kind) \in Nat
BY Zenon DEF PcIssued

\* fields of a policy row
LEMMA PcRowFields ==
    ASSUME NEW id \in PcIds, NEW x, x.kind \in PcKinds, x.port \in Nat, x.name \in STRING,
           NEW on \in BOOLEAN, NEW c \in Nat
    PROVE  /\ PcRow(id, x, on, c) \in PcRowSet
           /\ PcRow(id, x, on, c).id = id /\ PcRow(id, x, on, c).kind = x.kind
           /\ PcRow(id, x, on, c).port = x.port /\ PcRow(id, x, on, c).name = x.name
           /\ PcRow(id, x, on, c).enabled = on /\ PcRow(id, x, on, c).cred = c
<1>1. PcRow(id, x, on, c).enabled = on
  BY Zenon DEF PcRow
<1>2. PcRow(id, x, on, c) \in PcRowSet
  BY Zenon DEF PcRow, PcRowSet
<1> QED BY <1>1, <1>2, Zenon DEF PcRow

\* removing policies keeps the rows sound
LEMMA PcRemoveSound ==
    ASSUME PcSoundRows(pcRows), NEW gone
    PROVE  PcSoundRows({r \in pcRows : r.id \notin gone} \cup {})
<1>1. {r \in pcRows : r.id \notin gone} \cup {} \subseteq pcRows
  OBVIOUS
<1> QED BY <1>1, Zenon DEF PcSoundRows

\* so does writing a policy whose endpoints and name are free
LEMMA PcReplaceSound ==
    ASSUME PcSoundRows(pcRows), NEW gone, NEW n \in PcRowSet,
           n.cred = PcIssued(n.id, n.kind),
           \A r \in pcRows : r.id \notin gone =>
              /\ r.id # n.id
              /\ PcEndpoints(r) \cap PcEndpoints(n) = {}
              /\ ~(PcUniqueName(n) /\ r.kind = n.kind /\ r.name = n.name)
    PROVE  PcSoundRows({r \in pcRows : r.id \notin gone} \cup {n})
<1> DEFINE new == {r \in pcRows : r.id \notin gone} \cup {n}
<1>1. new \subseteq PcRowSet
  BY Zenon DEF PcSoundRows
<1>2. \A r, s \in new : r.id = s.id => r = s
  BY Zenon DEF PcSoundRows
<1>3. ASSUME NEW r \in new, NEW s \in new, r.id # s.id
      PROVE  /\ PcEndpoints(r) \cap PcEndpoints(s) = {}
             /\ ~(PcUniqueName(r) /\ r.kind = s.kind /\ r.name = s.name)
  <2>1. CASE r = n
    <3>1. s \in pcRows /\ s.id \notin gone
      BY <2>1, <1>3, Zenon
    <3> QED BY <2>1, <3>1, Zenon
  <2>2. CASE s = n
    <3>1. r \in pcRows /\ r.id \notin gone
      BY <2>2, <1>3, Zenon
    <3>2. r.kind = n.kind => (PcUniqueName(r) <=> PcUniqueName(n))
      BY Zenon DEF PcUniqueName
    <3> QED BY <2>2, <3>1, <3>2, Zenon
  <2>3. CASE r # n /\ s # n
    BY <2>3, <1>3, Zenon DEF PcSoundRows
  <2> QED BY <2>1, <2>2, <2>3, Zenon
<1>4. \A r \in new : r.cred = PcIssued(r.id, r.kind)
  BY Zenon DEF PcSoundRows
<1> HIDE DEF new
<1>5. PcSoundRows(new)
  BY <1>1, <1>2, <1>3, <1>4, Zenon DEF PcSoundRows
<1> QED BY <1>5, Zenon DEF new

\* A policy that passes the checks of transaction_put replaces its own old row.
LEMMA PcCheckedPutSound ==
    ASSUME PcSoundRows(pcRows), pcPorts = PcPortsOf(pcRows), NEW n \in PcRowSet,
           n.cred = PcIssued(n.id, n.kind),
           ~PcDuplicateName(n.id, n), ~PcDuplicatePort(n.id, n),
           ~PcDuplicateHostname(n.id, n)
    PROVE  PcSoundRows({r \in pcRows : r.id \notin {n.id}} \cup {n})
<1>1. ASSUME NEW r \in pcRows, r.id \notin {n.id}
      PROVE  /\ r.id # n.id
             /\ PcEndpoints(r) \cap PcEndpoints(n) = {}
             /\ ~(PcUniqueName(n) /\ r.kind = n.kind /\ r.name = n.name)
  <2>1. r.id # n.id
    BY <1>1, Zenon
  <2>2. PcReservations(r) \cap PcReservations(n) = {}
    BY <2>1, PcFreePort, Zenon
  <2>3. ~(r.kind \in {"http", "sni"} /\ r.kind = n.kind /\ r.port = n.port)
    BY <2>1, Zenon DEF PcDuplicateHostname
  <2>4. PcEndpoints(r) \cap PcEndpoints(n) = {}
    BY <2>2, <2>3, PcSharedEndpoint, Zenon
  <2>5. ~(PcUniqueName(n) /\ r.kind = n.kind /\ r.name = n.name)
    BY <2>1, Zenon DEF PcDuplicateName
  <2> QED BY <2>1, <2>4, <2>5, Zenon
<1> QED BY <1>1, PcReplaceSound, Zenon

\* The state a transaction ends its checks in.
LEMMA PcWrittenIntro ==
    ASSUME NEW op \in PcOp, NEW put, NEW gone, NEW own, NEW bind,
           \A r \in put : r.id <= pcNew,
           PcSoundRows({r \in pcRows : r.id \notin gone} \cup put),
           PcSoundAsked({r \in pcRows : r.id \notin gone} \cup put,
              IF op.do \in {"create", "enable", "import", "reconcile"}
              THEN [pcAsked EXCEPT ![op.id] = op.on] ELSE pcAsked),
           PcSoundOwner({r \in pcRows : r.id \notin gone} \cup put, own, bind,
              IF op.do = "reconcile" THEN [pcFleet EXCEPT ![op.id] = op.x] ELSE pcFleet)
    PROVE  PcWrittenSound([pc |-> "written", op |-> op, put |-> put, gone |-> gone,
                           own |-> own, bind |-> bind])
<1> DEFINE tx == [pc |-> "written", op |-> op, put |-> put, gone |-> gone,
                  own |-> own, bind |-> bind]
<1>1. tx.op = op /\ tx.put = put /\ tx.gone = gone /\ tx.own = own /\ tx.bind = bind
  OBVIOUS
<1> HIDE DEF tx
<1>2. PcWrittenSound(tx)
  BY <1>1, Zenon DEF PcWrittenSound, PcRowsAfter, PcAskedAfter, PcFleetAfter
<1> QED BY <1>2, Zenon DEF tx

\* The policies Fleet owns are left alone, so what it wrote of them still holds.
LEMMA PcOwnerKept ==
    ASSUME PcSoundOwner(pcRows, pcOwn, pcBind, pcFleet), NEW gone, NEW put,
           gone \cap pcOwn = {}, \A r \in put : r.id \notin pcOwn
    PROVE  PcSoundOwner({r \in pcRows : r.id \notin gone} \cup put, pcOwn, pcBind, pcFleet)
BY Zenon DEF PcSoundOwner

\* The last request that decided enabled decides it.
LEMMA PcAskedSet ==
    ASSUME PcSoundRows(pcRows), PcSoundAsked(pcRows, pcAsked), NEW gone, NEW n, NEW id \in PcIds,
           NEW on \in BOOLEAN, \A r \in pcRows : r.id = id => r.id \in gone,
           n.id = id, n.enabled = on
    PROVE  PcSoundAsked({r \in pcRows : r.id \notin gone} \cup {n}, [pcAsked EXCEPT ![id] = on])
<1> DEFINE new == {r \in pcRows : r.id \notin gone} \cup {n}
           asked == [pcAsked EXCEPT ![id] = on]
<1>1. asked \in [PcIds -> BOOLEAN]
  BY Zenon DEF PcSoundAsked
<1>2. ASSUME NEW r \in new, r.enabled PROVE asked[r.id]
  <2>1. CASE r = n
    <3>1. asked[id] = on
      BY Zenon DEF PcSoundAsked
    <3> QED BY <2>1, <1>2, <3>1, Zenon
  <2>2. CASE r # n
    <3>1. r \in pcRows /\ r.id # id /\ r.id \in PcIds
      BY <2>2, Zenon DEF PcSoundRows, PcRowSet
    <3>2. asked[r.id] = pcAsked[r.id]
      BY <3>1, Zenon DEF PcSoundAsked
    <3> QED BY <3>1, <3>2, <1>2, Zenon DEF PcSoundAsked
  <2> QED BY <2>1, <2>2, Zenon
<1> QED BY <1>1, <1>2, Zenon DEF PcSoundAsked

\* a policy that is on was asked to be on
LEMMA PcAskedKept ==
    ASSUME PcSoundAsked(pcRows, pcAsked), NEW gone, NEW put,
           \A n \in put : n.enabled => pcAsked[n.id]
    PROVE  PcSoundAsked({r \in pcRows : r.id \notin gone} \cup put, pcAsked)
BY Zenon DEF PcSoundAsked

\* A request of the operator: what PcWrite lets through is sound.
LEMMA PcWriteSound ==
    ASSUME PcIInv, NEW h \in PcHandlers, pcTx[h].pc = "read",
           NEW put, put = (IF pcTx[h].op.do = "delete" THEN {}
                           ELSE PcDesired(pcTx[h].op, pcTx[h].prev)),
           ~\E r \in put : \/ PcDuplicateName(r.id, r) \/ PcDuplicatePort(r.id, r)
                           \/ PcDuplicateHostname(r.id, r)
    PROVE  PcWrittenSound([pc |-> "written", op |-> pcTx[h].op, put |-> put,
                           gone |-> {pcTx[h].op.id}, own |-> pcOwn, bind |-> pcBind])
<1> DEFINE op == pcTx[h].op
           prev == pcTx[h].prev
<1>0. /\ PcReadSound(pcTx[h]) /\ pcNew \in 0..PcMaxIds /\ pcPorts = PcPortsOf(pcRows)
      /\ PcSoundRows(pcRows) /\ PcSoundAsked(pcRows, pcAsked)
      /\ PcSoundOwner(pcRows, pcOwn, pcBind, pcFleet)
  BY Zenon DEF PcIInv, PcTxSound
<1>1. /\ PcOpSound(op) /\ op.do \in {"create", "update", "enable", "delete"}
      /\ op.id \notin pcOwn /\ prev = PcRowOf(op.id)
      /\ (op.do = "create") <=> (prev = {})
      /\ \A r \in prev : r.kind = op.x.kind
  BY <1>0, Zenon DEF PcReadSound
<1>2. /\ op \in PcOp /\ op.x \in PcSpecs /\ op.id \in 1..pcNew /\ op.on \in BOOLEAN
      /\ op.do = "create" => op.on = TRUE
  <2>1. op \in PcOp /\ op.x \in PcSpecs /\ op.id \in 1..pcNew /\ (op.do = "create" => op.on)
    BY <1>1, Zenon DEF PcOpSound
  <2>2. op.on \in BOOLEAN
    BY <2>1, Zenon DEF PcOp
  <2> QED BY <2>1, <2>2, Zenon
<1>3. op.id \in PcIds /\ op.id <= pcNew
  BY <1>0, <1>2, PcConstants DEF PcIds
<1>4. op.x.kind \in PcKinds /\ op.x.port \in Nat /\ op.x.name \in STRING
  BY <1>2, PcConstants, Zenon
<1>5. {op.id} \cap pcOwn = {}
  BY <1>1, Zenon
<1>w. op.do # "reconcile" /\ op.do # "import"
  BY <1>1, Zenon
<1> HIDE DEF op, prev
<1>6. CASE op.do = "delete"
  <2>1. put = {}
    BY <1>6, Zenon DEF op
  <2>2. PcSoundRows({r \in pcRows : r.id \notin {op.id}} \cup put)
    BY <1>0, <2>1, PcRemoveSound, Zenon
  <2>3. PcSoundAsked({r \in pcRows : r.id \notin {op.id}} \cup put, pcAsked)
    BY <1>0, <2>1, PcAskedKept, Zenon
  <2>4. PcSoundOwner({r \in pcRows : r.id \notin {op.id}} \cup put, pcOwn, pcBind, pcFleet)
    BY <1>0, <1>5, <2>1, PcOwnerKept, Zenon
  <2>5. PcWrittenSound([pc |-> "written", op |-> op, put |-> put,
                        gone |-> {op.id}, own |-> pcOwn, bind |-> pcBind])
    BY <1>2, <1>6, <2>1, <2>2, <2>3, <2>4, PcWrittenIntro, Zenon
  <2> QED BY <2>5, Zenon DEF op
\* a row that keeps its id and credential
<1>7. ASSUME NEW n \in PcRowSet, put = {n}, n.id = op.id, n.cred = PcIssued(n.id, n.kind),
             PcSoundAsked({r \in pcRows : r.id \notin {op.id}} \cup {n},
                IF op.do \in {"create", "enable", "import", "reconcile"}
                THEN [pcAsked EXCEPT ![op.id] = op.on] ELSE pcAsked)
      PROVE  PcWrittenSound([pc |-> "written", op |-> op, put |-> put,
                             gone |-> {op.id}, own |-> pcOwn, bind |-> pcBind])
  <2>1. PcSoundRows({r \in pcRows : r.id \notin {op.id}} \cup put)
    BY <1>0, <1>7, PcCheckedPutSound, Zenon
  <2>2. PcSoundOwner({r \in pcRows : r.id \notin {op.id}} \cup put, pcOwn, pcBind, pcFleet)
    BY <1>0, <1>1, <1>5, <1>7, PcOwnerKept, Zenon DEF op
  <2>3. \A r \in put : r.id <= pcNew
    BY <1>3, <1>7, Zenon
  <2>4. PcSoundAsked({r \in pcRows : r.id \notin {op.id}} \cup put,
                IF op.do \in {"create", "enable", "import", "reconcile"}
                THEN [pcAsked EXCEPT ![op.id] = op.on] ELSE pcAsked)
    BY <1>7, Zenon
  <2> QED BY <1>2, <1>w, <2>1, <2>2, <2>3, <2>4, PcWrittenIntro, Zenon
<1>8. CASE op.do = "create"
  <2> DEFINE n == PcRow(op.id, op.x, op.on, PcIssued(op.id, op.x.kind))
  <2>1. PcIssued(op.id, op.x.kind) \in Nat
    <3>1. op.id \in Nat
      BY <1>3, PcConstants DEF PcIds
    <3> QED BY <3>1, PcIssuedIsNat, Zenon
  <2>2. n \in PcRowSet /\ n.id = op.id /\ n.kind = op.x.kind /\ n.enabled = op.on
        /\ n.cred = PcIssued(op.id, op.x.kind)
    BY <1>2, <1>3, <1>4, <2>1, PcRowFields
  <2>3. put = {n}
    <3>1. op.on = TRUE
      BY <1>2, <1>8, Zenon
    <3> QED BY <1>8, <3>1, Zenon DEF PcDesired, op
  <2> HIDE DEF n
  <2>4. PcSoundAsked({r \in pcRows : r.id \notin {op.id}} \cup {n}, [pcAsked EXCEPT ![op.id] = op.on])
    BY <1>0, <1>2, <1>3, <1>8, <2>2, PcAskedSet, Zenon
  <2>5. n.cred = PcIssued(n.id, n.kind)
    BY <2>2, Zenon
  <2>6. PcWrittenSound([pc |-> "written", op |-> op, put |-> put,
                        gone |-> {op.id}, own |-> pcOwn, bind |-> pcBind])
    BY <1>7, <1>8, <2>2, <2>3, <2>4, <2>5, Zenon
  <2> QED BY <2>6, Zenon DEF op
\* the policy the request found, alone under its id
<1>9. ASSUME op.do \in {"update", "enable"}
      PROVE  \E r \in pcRows : r.id = op.id /\ prev = {r} /\ r.kind = op.x.kind
  <2>1. PICK r \in prev : TRUE
    BY <1>1, <1>9, Zenon DEF op, prev
  <2>2. r \in pcRows /\ r.id = op.id /\ r.kind = op.x.kind
    BY <1>1, <2>1, Zenon DEF op, prev, PcRowOf
  <2>3. prev = {r}
    BY <1>0, <1>1, <2>1, <2>2 DEF op, prev, PcRowOf, PcSoundRows
  <2> QED BY <2>2, <2>3, Zenon
<1>10. CASE op.do = "update"
  <2>1. PICK r \in pcRows : r.id = op.id /\ prev = {r} /\ r.kind = op.x.kind
    BY <1>9, <1>10, Zenon
  <2> DEFINE n == PcRow(op.id, op.x, r.enabled, r.cred)
  <2>2. r.enabled \in BOOLEAN
    BY <1>0, Zenon DEF PcSoundRows, PcRowSet
  <2>3. r.cred \in Nat /\ r.cred = PcIssued(op.id, op.x.kind)
    BY <1>0, <2>1, Zenon DEF PcSoundRows, PcRowSet
  <2>4. n \in PcRowSet /\ n.id = op.id /\ n.kind = op.x.kind /\ n.enabled = r.enabled
        /\ n.cred = r.cred
    BY <1>3, <1>4, <2>2, <2>3, PcRowFields
  <2>5. put = {n}
    <3>1. PcDesired(op, prev) = {PcRow(op.id, op.x, q.enabled, q.cred) : q \in prev}
      BY <1>10, Zenon DEF PcDesired
    <3>2. put = PcDesired(op, prev)
      BY <1>10, Zenon DEF op, prev
    <3> QED BY <2>1, <3>1, <3>2, Zenon
  <2> HIDE DEF n
  <2>6. n.enabled => pcAsked[n.id]
    BY <1>0, <2>1, <2>4, Zenon DEF PcSoundAsked
  <2>7. PcSoundAsked({q \in pcRows : q.id \notin {op.id}} \cup {n}, pcAsked)
    BY <1>0, <2>6, PcAskedKept, Zenon
  <2>8. n.cred = PcIssued(n.id, n.kind)
    BY <2>3, <2>4, Zenon
  <2>9. PcWrittenSound([pc |-> "written", op |-> op, put |-> put,
                        gone |-> {op.id}, own |-> pcOwn, bind |-> pcBind])
    BY <1>7, <1>10, <2>4, <2>5, <2>7, <2>8, Zenon
  <2> QED BY <2>9, Zenon DEF op
<1>11. CASE op.do = "enable"
  <2>1. PICK r \in pcRows : r.id = op.id /\ prev = {r} /\ r.kind = op.x.kind
    BY <1>9, <1>11, Zenon
  <2> DEFINE n == [r EXCEPT !.enabled = op.on]
  <2>2. r \in PcRowSet /\ r.cred = PcIssued(r.id, r.kind)
    BY <1>0, Zenon DEF PcSoundRows
  <2>3. n \in PcRowSet /\ n.enabled = op.on
    BY <1>2, <2>2, Zenon DEF PcRowSet
  <2>4. n.id = r.id /\ n.kind = r.kind /\ n.cred = r.cred
    BY <2>2, Zenon DEF PcRowSet
  <2>5. put = {n}
    <3>1. PcDesired(op, prev) = {[q EXCEPT !.enabled = op.on] : q \in prev}
      BY <1>11, Zenon DEF PcDesired
    <3>2. put = PcDesired(op, prev)
      BY <1>11, Zenon DEF op, prev
    <3> QED BY <2>1, <3>1, <3>2, Zenon
  <2> HIDE DEF n
  <2>6. PcSoundAsked({q \in pcRows : q.id \notin {op.id}} \cup {n}, [pcAsked EXCEPT ![op.id] = op.on])
    BY <1>0, <1>2, <1>3, <2>1, <2>3, <2>4, PcAskedSet, Zenon
  <2>7. n.cred = PcIssued(n.id, n.kind)
    BY <2>2, <2>4, Zenon
  <2>8. PcWrittenSound([pc |-> "written", op |-> op, put |-> put,
                        gone |-> {op.id}, own |-> pcOwn, bind |-> pcBind])
    BY <1>7, <1>11, <2>1, <2>3, <2>4, <2>5, <2>6, <2>7, Zenon
  <2> QED BY <2>8, Zenon DEF op
<1>12. op.do \in {"create", "update", "enable", "delete"}
  BY <1>1, Zenon DEF op
<1> QED BY <1>6, <1>8, <1>10, <1>11, <1>12, Zenon

\* The facts about the state that the writes of Fleet start from.
LEMMA PcState ==
    ASSUME PcIInv
    PROVE  /\ pcNew \in 0..PcMaxIds /\ pcNew \in Nat /\ pcPorts = PcPortsOf(pcRows)
           /\ PcSoundRows(pcRows) /\ PcSoundAsked(pcRows, pcAsked)
           /\ PcSoundOwner(pcRows, pcOwn, pcBind, pcFleet)
           /\ \A r \in pcRows : r.id <= pcNew /\ r \in PcRowSet /\ r.id \in PcIds
<1>1. /\ pcNew \in 0..PcMaxIds /\ pcPorts = PcPortsOf(pcRows)
      /\ PcSoundRows(pcRows) /\ PcSoundAsked(pcRows, pcAsked)
      /\ PcSoundOwner(pcRows, pcOwn, pcBind, pcFleet)
      /\ \A r \in pcRows : r.id <= pcNew
  BY Zenon DEF PcIInv
<1>2. pcNew \in Nat
  BY <1>1, PcConstants
<1>3. \A r \in pcRows : r \in PcRowSet /\ r.id \in PcIds
  BY <1>1, Zenon DEF PcSoundRows, PcRowSet
<1> QED BY <1>1, <1>2, <1>3, Zenon

\* reservations depend only on the kind and the port
LEMMA PcSameContents ==
    ASSUME NEW x, NEW y, x.kind = y.kind, x.port = y.port
    PROVE  PcReservations(x) = PcReservations(y) /\ PcEndpoints(x) = PcEndpoints(y)
<1>1. PcReservations(x) = PcReservations(y)
  BY Zenon DEF PcReservations
<1> QED BY <1>1, Zenon DEF PcEndpoints

\* fleet_policy_legacy::import
LEMMA PcImportSound ==
    ASSUME PcIInv, NEW op, PcOpSound(op), op.do = "import",
           ~\E r \in pcRows : \/ r.kind = op.x.kind /\ r.name = op.x.name
                              \/ PcReservations(r) \cap PcReservations(op.x) # {}
    PROVE  PcWrittenSound([pc |-> "written", op |-> op,
                           put |-> {PcRow(op.id, op.x, op.on, 0)},
                           gone |-> {}, own |-> pcOwn, bind |-> pcBind])
<1> DEFINE n == PcRow(op.id, op.x, op.on, 0)
<1>1. /\ op \in PcOp /\ op.x \in PcSpecs /\ op.id \in 1..pcNew /\ PcFresh(op.id)
      /\ op.x.kind \in {"tcp", "udp"}
  BY Zenon DEF PcOpSound
<1>2. op.on \in BOOLEAN
  BY <1>1, Zenon DEF PcOp
<1>3. op.id \in PcIds /\ op.id <= pcNew
  BY <1>1, PcState, PcConstants DEF PcIds
<1>4. op.x.kind \in PcKinds /\ op.x.port \in Nat /\ op.x.name \in STRING
  BY <1>1, PcConstants, Zenon
<1>5. /\ n \in PcRowSet /\ n.id = op.id /\ n.kind = op.x.kind /\ n.port = op.x.port
      /\ n.enabled = op.on /\ n.cred = 0
  <2>1. 0 \in Nat
    OBVIOUS
  <2> QED BY <1>2, <1>3, <1>4, <2>1, PcRowFields
<1> HIDE DEF n
<1>6. n.cred = PcIssued(n.id, n.kind)
  BY <1>1, <1>5, Zenon DEF PcIssued, PcSecretKinds
<1>7. ASSUME NEW r \in pcRows, r.id \notin {}
      PROVE  /\ r.id # n.id
             /\ PcEndpoints(r) \cap PcEndpoints(n) = {}
             /\ ~(PcUniqueName(n) /\ r.kind = n.kind /\ r.name = n.name)
  <2>1. PcReservations(r) \cap PcReservations(n) = {}
    BY <1>5, PcSameContents, Zenon
  <2>2. r.kind # n.kind \/ n.kind \notin {"http", "sni"}
    BY <1>1, <1>5, Zenon
  <2>3. PcEndpoints(r) \cap PcEndpoints(n) = {}
    BY <2>1, <2>2, PcSharedEndpoint, Zenon
  <2>4. ~PcUniqueName(n)
    BY <1>1, <1>5, Zenon DEF PcUniqueName
  <2> QED BY <1>1, <1>5, <2>3, <2>4, Zenon DEF PcFresh
<1>8. PcSoundRows({r \in pcRows : r.id \notin {}} \cup {n})
  BY <1>5, <1>6, <1>7, PcState, PcReplaceSound, Zenon
<1>9. PcSoundAsked({r \in pcRows : r.id \notin {}} \cup {n}, [pcAsked EXCEPT ![op.id] = op.on])
  BY <1>1, <1>2, <1>3, <1>5, PcState, PcAskedSet, Zenon DEF PcFresh
<1>10. op.id \notin pcOwn
  BY <1>1, PcState, Zenon DEF PcSoundOwner, PcFresh
<1>11. PcSoundOwner({r \in pcRows : r.id \notin {}} \cup {n}, pcOwn, pcBind, pcFleet)
  <2>1. {} \cap pcOwn = {} /\ \A r \in {n} : r.id \notin pcOwn
    BY <1>5, <1>10, Zenon
  <2> QED BY <2>1, PcState, PcOwnerKept, Zenon
<1>12. \A r \in {n} : r.id <= pcNew
  BY <1>3, <1>5, Zenon
<1>13. PcWrittenSound([pc |-> "written", op |-> op, put |-> {n}, gone |-> {},
                       own |-> pcOwn, bind |-> pcBind])
  BY <1>1, <1>8, <1>9, <1>11, <1>12, PcWrittenIntro, Zenon
<1> QED BY <1>13, Zenon DEF n

\* bind_credential, delete_credential_binding and the empty bundle write no row.
LEMMA PcBindSound ==
    ASSUME PcIInv, NEW op, op \in PcOp, op.do = "bind", pcBind \notin pcOwn
    PROVE  PcWrittenSound([pc |-> "written", op |-> op, put |-> {}, gone |-> {},
                           own |-> pcOwn, bind |-> op.id])
<1>1. pcOwn = {}
  BY PcState, Zenon DEF PcSoundOwner
<1>2. PcSoundRows({r \in pcRows : r.id \notin {}} \cup {})
  BY PcState, PcRemoveSound, Zenon
<1>3. PcSoundAsked({r \in pcRows : r.id \notin {}} \cup {}, pcAsked)
  BY PcState, PcAskedKept, Zenon
<1>4. PcSoundOwner({r \in pcRows : r.id \notin {}} \cup {}, pcOwn, op.id, pcFleet)
  BY <1>1, PcState, Zenon DEF PcSoundOwner
<1> QED BY <1>2, <1>3, <1>4, PcWrittenIntro, Zenon

\* what an unbind would leave behind is sound
LEMMA PcUnbindSound ==
    ASSUME PcIInv, NEW op, op \in PcOp, op.do = "unbind"
    PROVE  PcWrittenSound([pc |-> "written", op |-> op, put |-> {}, gone |-> {},
                           own |-> pcOwn \ {pcBind}, bind |-> 0])
<1>1. pcOwn \ {pcBind} = {}
  BY PcState, Zenon DEF PcSoundOwner
<1>2. PcSoundRows({r \in pcRows : r.id \notin {}} \cup {})
  BY PcState, PcRemoveSound, Zenon
<1>3. PcSoundAsked({r \in pcRows : r.id \notin {}} \cup {}, pcAsked)
  BY PcState, PcAskedKept, Zenon
<1>4. PcSoundOwner({r \in pcRows : r.id \notin {}} \cup {}, pcOwn \ {pcBind}, 0, pcFleet)
  BY <1>1, PcState, Zenon DEF PcSoundOwner
<1> QED BY <1>2, <1>3, <1>4, PcWrittenIntro, Zenon

\* what the removal of a source would leave behind is sound
LEMMA PcClearSound ==
    ASSUME PcIInv, NEW op, op \in PcOp, op.do = "clear"
    PROVE  PcWrittenSound([pc |-> "written", op |-> op, put |-> {}, gone |-> pcOwn,
                           own |-> {}, bind |-> IF pcBind \in pcOwn THEN 0 ELSE pcBind])
<1>2. PcSoundRows({r \in pcRows : r.id \notin pcOwn} \cup {})
  BY PcState, PcRemoveSound, Zenon
<1>3. PcSoundAsked({r \in pcRows : r.id \notin pcOwn} \cup {}, pcAsked)
  BY PcState, PcAskedKept, Zenon
<1>4. \A b : PcSoundOwner({r \in pcRows : r.id \notin pcOwn} \cup {}, {}, b, pcFleet)
  BY PcState, Zenon DEF PcSoundOwner
<1> QED BY <1>2, <1>3, <1>4, PcWrittenIntro, Zenon

\* reconcile takes over the policy the credential is bound to.
LEMMA PcReconcileSound ==
    ASSUME PcIInv, NEW op, PcOpSound(op), op.do = "reconcile", ~PcConflicts(op.x)
    PROVE  PcWrittenSound(
              [pc |-> "written", op |-> [op EXCEPT !.id = pcBind],
               put |-> {PcRow(pcBind, op.x, op.on, r.cred) : r \in PcRowOf(pcBind)},
               gone |-> {pcBind}, own |-> {pcBind}, bind |-> pcBind])
<1>1. op \in PcOp /\ op.x \in PcSpecs
  BY Zenon DEF PcOpSound
<1>2. op.on \in BOOLEAN
  BY <1>1, Zenon DEF PcOp
<1>3. /\ op.x.kind \in PcKinds /\ op.x.port \in Nat /\ op.x.name \in STRING
      /\ op.x = [kind |-> op.x.kind, port |-> op.x.port, name |-> op.x.name]
  BY <1>1, PcConstants, Zenon
<1>4. PICK b \in pcRows : b.id = pcBind /\ b.kind = op.x.kind
  BY Zenon DEF PcConflicts, PcRowOf
<1>5. PcRowOf(pcBind) = {b}
  BY <1>4, PcState, Zenon DEF PcRowOf, PcSoundRows
<1>6. /\ b \in PcRowSet /\ pcBind \in PcIds /\ pcBind <= pcNew /\ b.cred \in Nat
      /\ b.cred = PcIssued(pcBind, op.x.kind)
  BY <1>4, PcState, Zenon DEF PcSoundRows, PcRowSet
<1> DEFINE n == PcRow(pcBind, op.x, op.on, b.cred)
           ask == [op EXCEPT !.id = pcBind]
<1>7. /\ n \in PcRowSet /\ n.id = pcBind /\ n.kind = op.x.kind /\ n.port = op.x.port
      /\ n.name = op.x.name /\ n.enabled = op.on /\ n.cred = b.cred
  BY <1>2, <1>3, <1>6, PcRowFields
<1>8. /\ ask.id = pcBind /\ ask.x = op.x /\ ask.do = "reconcile"
  BY <1>1, Zenon DEF PcOp
<1>9. ask.on = op.on
  BY <1>1, Zenon DEF PcOp
<1>10. ask \in PcOp
  <2>1. pcBind \in Nat
    BY <1>6, PcConstants DEF PcIds
  <2> QED BY <1>1, <2>1, Zenon DEF PcOp
<1>11. {PcRow(pcBind, op.x, op.on, r.cred) : r \in PcRowOf(pcBind)} = {n}
  BY <1>5, Zenon
<1> HIDE DEF n, ask
<1>12. n.cred = PcIssued(n.id, n.kind)
  BY <1>6, <1>7, Zenon
<1>13. ASSUME NEW r \in pcRows, r.id \notin {pcBind}
       PROVE  /\ r.id # n.id
              /\ PcEndpoints(r) \cap PcEndpoints(n) = {}
              /\ ~(PcUniqueName(n) /\ r.kind = n.kind /\ r.name = n.name)
  <2>1. /\ PcEndpoints(r) \cap PcEndpoints(op.x) = {}
        /\ ~(PcUniqueName(r) /\ r.kind = op.x.kind /\ r.name = op.x.name)
    BY <1>13, Zenon DEF PcConflicts, PcRowOf
  <2>2. PcEndpoints(n) = PcEndpoints(op.x)
    BY <1>7, PcSameContents, Zenon
  <2>3. r.kind = n.kind => (PcUniqueName(r) <=> PcUniqueName(n))
    BY Zenon DEF PcUniqueName
  <2> QED BY <1>7, <1>13, <2>1, <2>2, <2>3, Zenon
<1>14. PcSoundRows({r \in pcRows : r.id \notin {pcBind}} \cup {n})
  BY <1>7, <1>12, <1>13, PcState, PcReplaceSound, Zenon
<1>15. PcSoundAsked({r \in pcRows : r.id \notin {pcBind}} \cup {n}, [pcAsked EXCEPT ![ask.id] = ask.on])
  BY <1>2, <1>6, <1>7, <1>8, <1>9, PcState, PcAskedSet, Zenon
<1>16. PcSoundOwner({r \in pcRows : r.id \notin {pcBind}} \cup {n}, {pcBind}, pcBind,
                    [pcFleet EXCEPT ![ask.id] = ask.x])
  <2> DEFINE fleet == [pcFleet EXCEPT ![pcBind] = op.x]
             new == {r \in pcRows : r.id \notin {pcBind}} \cup {n}
  <2>1. fleet = [i \in PcIds |-> fleet[i]] /\ fleet[pcBind] = op.x
    BY <1>6, PcState, Zenon DEF PcSoundOwner
  <2>2. \A r \in new : r.id \in {pcBind} => r = n
    OBVIOUS
  <2>3. n \in new
    OBVIOUS
  <2> HIDE DEF fleet, new
  <2>4. PcSoundOwner(new, {pcBind}, pcBind, fleet)
    BY <1>3, <1>7, <2>1, <2>2, <2>3, Zenon DEF PcSoundOwner
  <2> QED BY <1>8, <2>4, Zenon DEF fleet, new
<1>17. \A r \in {n} : r.id <= pcNew
  BY <1>6, <1>7, Zenon
<1>18. PcWrittenSound([pc |-> "written", op |-> ask, put |-> {n}, gone |-> {pcBind},
                       own |-> {pcBind}, bind |-> pcBind])
  BY <1>8, <1>10, <1>14, <1>15, <1>16, <1>17, PcWrittenIntro, Zenon
<1> QED BY <1>11, <1>18, Zenon DEF ask

-----------------------------------------------------------------------------
(* Every step keeps the invariant *)

\* A transaction stays sound as long as the tables it reads stay.
LEMMA PcTxStays ==
    ASSUME UNCHANGED <<pcRows, pcOwn, pcNew, pcAsked, pcFleet>>, NEW t, PcTxSound(t)
    PROVE  PcTxSound(t)'
<1>1. PcOpSound(t.op) => PcOpSound(t.op)'
  BY Zenon DEF PcOpSound, PcFresh
<1>2. PcReadSound(t) => PcReadSound(t)'
  BY <1>1, Zenon DEF PcReadSound, PcRowOf
<1>3. /\ PcRowsAfter(t)' = PcRowsAfter(t) /\ PcAskedAfter(t)' = PcAskedAfter(t)
      /\ PcFleetAfter(t)' = PcFleetAfter(t)
  BY Zenon DEF PcRowsAfter, PcAskedAfter, PcFleetAfter
<1>4. PcWrittenSound(t) => PcWrittenSound(t)'
  BY <1>3, Zenon DEF PcWrittenSound
<1> QED BY <1>1, <1>2, <1>4, Zenon DEF PcTxSound

\* A step of the transaction that holds the lock changes no table.
LEMMA PcGotoKeeps ==
    ASSUME PcIInv, NEW h \in PcHandlers, NEW tx, PcGoto(h, tx),
           PcBusy(h), PcTxSound(tx)
    PROVE  PcIInv'
<1>1. /\ pcTx' = [pcTx EXCEPT ![h] = tx]
      /\ UNCHANGED <<pcRows, pcPorts, pcOwn, pcBind, pcNew, pcOps, pcAsked, pcFleet>>
  BY Zenon DEF PcGoto
<1>2. pcTx = [g \in PcHandlers |-> pcTx[g]]
  BY Zenon DEF PcIInv
<1>3. pcTx' = [g \in PcHandlers |-> pcTx'[g]] /\ pcTx'[h] = tx
      /\ \A g \in PcHandlers \ {h} : pcTx'[g] = pcTx[g]
  BY <1>1, <1>2, Zenon
<1>4. \A t : PcTxSound(t) => PcTxSound(t)'
  BY <1>1, PcTxStays, Zenon
<1>5. ASSUME NEW g \in PcHandlers PROVE PcTxSound(pcTx[g])'
  <2>1. PICK t : t = pcTx'[g]
    OBVIOUS
  <2>2. PcTxSound(t)
    BY <1>3, <2>1 DEF PcIInv
  <2>3. PcTxSound(t)'
    BY <1>4, <2>2, Zenon
  <2> QED BY <2>1, <2>3, Zenon
<1>6. PcLockHeldOnce'
  BY <1>3, Zenon DEF PcLockHeldOnce, PcBusy, PcIInv
<1> QED BY <1>1, <1>3, <1>5, <1>6, Zenon DEF PcIInv, PcSoundRows, PcSoundAsked, PcSoundOwner

\* A request that gets the lock finds every other transaction over.
LEMMA PcBeginKeeps ==
    ASSUME PcIInv, NEW h \in PcHandlers, NEW op, PcBegin(h, op),
           pcNew' \in 0..PcMaxIds, pcNew <= pcNew', PcOpSound(op)'
    PROVE  PcIInv'
<1>1. /\ pcTx' = [pcTx EXCEPT ![h] = [pc |-> "locked", op |-> op]]
      /\ UNCHANGED <<pcRows, pcPorts, pcOwn, pcBind, pcAsked, pcFleet>>
      /\ \A g \in PcHandlers : pcTx[g].pc = "idle"
  BY Zenon DEF PcBegin, PcLockFree, PcBusy
<1>2. pcTx = [g \in PcHandlers |-> pcTx[g]]
  BY Zenon DEF PcIInv
<1>3. pcTx' = [g \in PcHandlers |-> pcTx'[g]]
      /\ pcTx'[h].pc = "locked" /\ pcTx'[h].op = op
      /\ \A g \in PcHandlers \ {h} : pcTx'[g].pc = "idle"
  BY <1>1, <1>2, Zenon
<1>4. ASSUME NEW g \in PcHandlers PROVE PcTxSound(pcTx[g])'
  <2>1. CASE g = h
    <3>1. (pcTx[g].op = op)' /\ (pcTx[g].pc = "locked")'
      BY <1>3, <2>1, Zenon
    <3> QED BY <3>1, Zenon DEF PcTxSound
  <2>2. CASE g # h
    BY <1>3, <2>2, Zenon DEF PcTxSound
  <2> QED BY <2>1, <2>2, Zenon
<1>5. PcLockHeldOnce'
  BY <1>3, Zenon DEF PcLockHeldOnce, PcBusy
<1>6. \A r \in pcRows : r.id <= pcNew'
  <2>1. \A r \in pcRows : r.id \in Nat
    BY PcState, PcConstants DEF PcIds
  <2> QED BY <2>1, PcState, PcConstants
<1> QED BY <1>1, <1>3, <1>4, <1>5, <1>6, Zenon DEF PcIInv, PcSoundRows, PcSoundAsked, PcSoundOwner

\* The commit publishes what was found sound under the lock.
LEMMA PcCommitKeeps ==
    ASSUME PcIInv, NEW h \in PcHandlers, PcCommit(h)
    PROVE  PcIInv'
<1> DEFINE tx == pcTx[h]
<1>1. /\ tx.pc = "written"
      /\ pcRows' = PcRowsAfter(tx)
      /\ pcPorts' = {q \in pcPorts : q[3] \notin tx.gone} \cup PcPortsOf(tx.put)
      /\ pcOwn' = tx.own /\ pcBind' = tx.bind
      /\ pcAsked' = PcAskedAfter(tx) /\ pcFleet' = PcFleetAfter(tx)
      /\ pcTx' = [pcTx EXCEPT ![h] = PcIdle] /\ pcNew' = pcNew
  BY Zenon DEF PcCommit, PcRowsAfter, PcAskedAfter, PcFleetAfter
<1>2. pcTx = [g \in PcHandlers |-> pcTx[g]] /\ PcLockHeldOnce
      /\ PcTxSound(tx) /\ \A g \in PcHandlers : PcTxSound(pcTx[g])
  BY Zenon DEF PcIInv
<1>3. PcWrittenSound(tx)
  BY <1>1, <1>2, Zenon DEF PcTxSound
<1>4. /\ \A r \in tx.put : r.id <= pcNew
      /\ PcSoundRows(PcRowsAfter(tx))
      /\ PcSoundAsked(PcRowsAfter(tx), PcAskedAfter(tx))
      /\ PcSoundOwner(PcRowsAfter(tx), tx.own, tx.bind, PcFleetAfter(tx))
  BY <1>3, Zenon DEF PcWrittenSound
<1>5. pcPorts' = PcPortsOf(pcRows')
  <2>1. PICK rows, gone, put : rows = pcRows /\ gone = tx.gone /\ put = tx.put
    OBVIOUS
  <2>2. pcPorts = PcPortsOf(rows)
    BY <2>1, PcState, Zenon
  <2>3. pcRows' = {r \in rows : r.id \notin gone} \cup put
    BY <1>1, <2>1, Zenon DEF PcRowsAfter
  <2>4. pcPorts' = {q \in PcPortsOf(rows) : q[3] \notin gone} \cup PcPortsOf(put)
    BY <1>1, <2>1, <2>2, Zenon
  \* the DELETE and the INSERTs leave the reservations of the rows
  <2>5. {q \in PcPortsOf(rows) : q[3] \notin gone} \cup PcPortsOf(put)
          = PcPortsOf({r \in rows : r.id \notin gone} \cup put)
    <3>1. \A R, q : q \in PcPortsOf(R) <=>
              \E r \in R : \E e \in PcReservations(r) : q = <<e[1], e[2], r.id>>
      BY DEF PcPortsOf
    <3>2. \A r, e : <<e[1], e[2], r.id>>[3] = r.id
      OBVIOUS
    <3> QED BY <3>1, <3>2
  <2> QED BY <2>3, <2>4, <2>5, Zenon
<1>6. \A g \in PcHandlers : pcTx'[g].pc = "idle"
  BY <1>1, <1>2, Zenon DEF PcLockHeldOnce, PcBusy, PcIdle
<1>7. pcTx' = [g \in PcHandlers |-> pcTx'[g]]
  BY <1>1, <1>2, Zenon
<1>8. \A r \in pcRows' : r.id <= pcNew'
  BY <1>1, <1>4, PcState, Zenon DEF PcRowsAfter
<1> HIDE DEF tx
<1>9. PcSoundRows(pcRows') /\ PcSoundAsked(pcRows', pcAsked')
      /\ PcSoundOwner(pcRows', pcOwn', pcBind', pcFleet')
  BY <1>1, <1>4, Zenon
<1>10. (PcSoundRows(pcRows) /\ PcSoundAsked(pcRows, pcAsked)
        /\ PcSoundOwner(pcRows, pcOwn, pcBind, pcFleet))'
  BY <1>9, Zenon DEF PcSoundRows, PcSoundAsked, PcSoundOwner
<1>11. (pcPorts = PcPortsOf(pcRows))'
  BY <1>5, Zenon DEF PcPortsOf
<1>12. (\A g \in PcHandlers : PcTxSound(pcTx[g]))' /\ PcLockHeldOnce'
  BY <1>6, Zenon DEF PcTxSound, PcLockHeldOnce, PcBusy
<1> QED BY <1>1, <1>7, <1>8, <1>10, <1>11, <1>12, PcState, Zenon DEF PcIInv

\* Requests as they are asked for.
LEMMA PcOpIntro ==
    ASSUME NEW do \in PcDoings, NEW id \in Nat, NEW x \in PcSpecs \cup PcRowSet \cup {PcNone},
           NEW on \in BOOLEAN, NEW op, op = [do |-> do, id |-> id, x |-> x, on |-> on],
           do \in {"create", "update", "enable", "delete", "import", "reconcile"} => x \in PcSpecs,
           do \in {"create", "import", "update", "enable", "delete", "bind"} => id \in 1..pcNew',
           do \in {"create", "import"} => \A r \in pcRows' : r.id # id,
           do = "create" => on = TRUE,
           do = "import" => x.kind \in {"tcp", "udp"}
    PROVE  PcOpSound(op)'
<1>1. op.do = do /\ op.id = id /\ op.x = x
  OBVIOUS
<1>2. op.on = on
  BY Zenon
<1>3. op \in PcOp
  BY Zenon DEF PcOp
<1>4. op.do = "create" => op.on
  BY <1>1, <1>2, Zenon
<1> QED BY <1>1, <1>3, <1>4, Zenon DEF PcOpSound, PcFresh

\* A request that draws a new id.
LEMMA PcFreshRequestKeeps ==
    ASSUME PcIInv, NEW h \in PcHandlers, NEW do \in {"create", "import"}, NEW x \in PcSpecs,
           NEW on \in BOOLEAN, do = "create" => on = TRUE,
           do = "import" => x.kind \in {"tcp", "udp"},
           pcNew < PcMaxIds, pcNew' = pcNew + 1,
           PcBegin(h, [do |-> do, id |-> pcNew + 1, x |-> x, on |-> on])
    PROVE  PcIInv'
<1>1. PICK id : id = pcNew + 1
  OBVIOUS
<1>2. pcNew' \in 0..PcMaxIds /\ pcNew <= pcNew' /\ id \in 1..pcNew' /\ id \in Nat
  BY <1>1, PcState, PcConstants
<1>3. \A r \in pcRows' : r.id # id
  <2>1. pcRows' = pcRows
    BY Zenon DEF PcBegin
  <2>2. \A r \in pcRows : r.id \in Nat /\ r.id <= pcNew /\ pcNew \in Nat
    BY PcState, PcConstants DEF PcIds
  <2> QED BY <1>1, <2>1, <2>2
<1>4. do \in PcDoings /\ x \in PcSpecs \cup PcRowSet \cup {PcNone}
  BY Zenon DEF PcDoings
<1>5. PcOpSound([do |-> do, id |-> id, x |-> x, on |-> on])'
  BY <1>2, <1>3, <1>4, PcOpIntro, ZenonT(40)
<1>6. PcBegin(h, [do |-> do, id |-> id, x |-> x, on |-> on])
  BY <1>1, Zenon
<1> QED BY <1>2, <1>5, <1>6, PcBeginKeeps, Zenon

\* a new request keeps the invariant
LEMMA PcAskKeeps ==
    ASSUME PcIInv, NEW h \in PcHandlers, NEW kind, PcAsk(h, kind)
    PROVE  PcIInv'
<1>0. PICK x \in PcSpecs : \/ PcAskCreate(h, x) \/ PcAskUpdate(h, x)
                           \/ PcAskEnable(h, x) \/ PcAskDelete(h, x)
  BY Zenon DEF PcAsk
<1>1. TRUE \in BOOLEAN /\ x \in PcSpecs \cup PcRowSet \cup {PcNone}
  BY Zenon
<1>2. CASE PcAskCreate(h, x)
  <2>1. pcNew < PcMaxIds /\ pcNew' = pcNew + 1
        /\ PcBegin(h, [do |-> "create", id |-> pcNew + 1, x |-> x, on |-> TRUE])
    BY <1>2, Zenon DEF PcAskCreate
  <2> QED BY <1>1, <2>1, PcFreshRequestKeeps, Zenon
<1>3. ASSUME NEW do \in {"update", "enable", "delete"}, NEW id \in 1..pcNew, NEW on \in BOOLEAN,
             PcBegin(h, [do |-> do, id |-> id, x |-> x, on |-> on]), UNCHANGED pcNew
      PROVE  PcIInv'
  <2>1. pcNew' \in 0..PcMaxIds /\ pcNew <= pcNew' /\ id \in 1..pcNew' /\ id \in Nat
        /\ do \in PcDoings /\ do \notin {"create", "import"}
    BY <1>3, PcState, PcConstants DEF PcDoings
  <2>2. PcOpSound([do |-> do, id |-> id, x |-> x, on |-> on])'
    BY <1>1, <2>1, PcOpIntro, Zenon
  <2> QED BY <1>3, <2>1, <2>2, PcBeginKeeps, Zenon
<1>4. CASE PcAskUpdate(h, x)
  BY <1>1, <1>3, <1>4, Zenon DEF PcAskUpdate
<1>5. CASE PcAskEnable(h, x)
  BY <1>3, <1>5, Zenon DEF PcAskEnable
<1>6. CASE PcAskDelete(h, x)
  BY <1>1, <1>3, <1>6, Zenon DEF PcAskDelete
<1> QED BY <1>0, <1>2, <1>4, <1>5, <1>6, Zenon

\* so does a new request of a source
LEMMA PcFleetRequestKeeps ==
    ASSUME PcIInv, NEW h \in PcHandlers, PcFleetRequest(h)
    PROVE  PcIInv'
<1>1. ASSUME NEW x \in PcSpecs, NEW on \in BOOLEAN, PcImport(h, x, on) PROVE PcIInv'
  <2>1. /\ pcNew < PcMaxIds /\ pcNew' = pcNew + 1 /\ x.kind \in {"tcp", "udp"}
        /\ PcBegin(h, [do |-> "import", id |-> pcNew + 1, x |-> x, on |-> on])
    BY <1>1, Zenon DEF PcImport
  <2> QED BY <2>1, PcFreshRequestKeeps, Zenon
<1>2. ASSUME NEW do \in {"reconcile", "bind", "unbind", "clear"}, NEW id \in Nat,
             NEW x \in PcSpecs \cup PcRowSet \cup {PcNone}, NEW on \in BOOLEAN,
             do = "reconcile" => x \in PcSpecs, do = "bind" => id \in 1..pcNew,
             PcBegin(h, [do |-> do, id |-> id, x |-> x, on |-> on]), UNCHANGED pcNew
      PROVE  PcIInv'
  <2>1. pcNew' \in 0..PcMaxIds /\ pcNew <= pcNew' /\ (do = "bind" => id \in 1..pcNew')
        /\ do \in PcDoings /\ do \notin {"create", "import", "update", "enable", "delete"}
    BY <1>2, PcState, PcConstants DEF PcDoings
  <2>2. PcOpSound([do |-> do, id |-> id, x |-> x, on |-> on])'
    BY <1>2, <2>1, PcOpIntro, Zenon
  <2> QED BY <1>2, <2>1, <2>2, PcBeginKeeps, Zenon
<1>3. TRUE \in BOOLEAN /\ 0 \in Nat
  OBVIOUS
<1>4. ASSUME NEW x \in PcSpecs, NEW on \in BOOLEAN, PcAskReconcile(h, x, on) PROVE PcIInv'
  BY <1>2, <1>3, <1>4, Zenon DEF PcAskReconcile
<1>5. ASSUME PcAskBind(h) PROVE PcIInv'
  <2>1. PICK r \in pcRows : PcBegin(h, [do |-> "bind", id |-> r.id, x |-> r, on |-> TRUE])
                            /\ UNCHANGED pcNew
    BY <1>5, Zenon DEF PcAskBind
  <2>2. r.id \in Nat /\ r.id \in 1..pcNew /\ r \in PcSpecs \cup PcRowSet \cup {PcNone}
    BY PcState, PcConstants DEF PcIds
  <2> QED BY <1>2, <1>3, <2>1, <2>2, Zenon
<1>6. ASSUME PcAskUnbind(h) PROVE PcIInv'
  BY <1>2, <1>3, <1>6, Zenon DEF PcAskUnbind
<1>7. ASSUME PcAskClear(h) PROVE PcIInv'
  BY <1>2, <1>3, <1>7, Zenon DEF PcAskClear
<1> QED BY <1>1, <1>4, <1>5, <1>6, <1>7, Zenon DEF PcFleetRequest

\* every read, write, commit and rollback keeps the invariant
LEMMA PcStepKeeps ==
    ASSUME PcIInv, NEW h \in PcHandlers, PcStep(h)
    PROVE  PcIInv'
<1> DEFINE op == pcTx[h].op
<1>0. PcTxSound(pcTx[h])
  BY Zenon DEF PcIInv
<1>1. CASE \/ PcTcp(h) \/ PcUdp(h) \/ PcSocks5(h) \/ PcHttpProxy(h) \/ PcPortGroup(h)
           \/ PcHttp(h) \/ PcSni(h) \/ PcSecret(h)
  BY <1>1, PcAskKeeps, Zenon DEF PcTcp, PcUdp, PcSocks5, PcHttpProxy, PcPortGroup,
       PcHttp, PcSni, PcSecret
<1>2. CASE PcFleetRequest(h)
  BY <1>2, PcFleetRequestKeeps, Zenon
<1>3. PcTxSound(PcIdle)
  BY Zenon DEF PcTxSound, PcIdle
<1>4. ASSUME PcBusy(h), PcFail(h) PROVE PcIInv'
  BY <1>3, <1>4, PcGotoKeeps, Zenon DEF PcFail
<1>5. CASE PcBusy(h) /\ PcSnapshot(h)
  <2>1. pcTx[h].pc = "locked" /\ op.do \in {"create", "update", "enable", "delete"}
    BY <1>5, Zenon DEF PcSnapshot
  <2>2. PcOpSound(op)
    BY <1>0, <2>1, Zenon DEF PcTxSound
  <2> DEFINE tx == [pc |-> "read", op |-> op, prev |-> PcRowOf(op.id)]
  <2>3. CASE /\ op.id \notin pcOwn
             /\ \A r \in PcRowOf(op.id) : PcDecodes(r) /\ r.kind = op.x.kind
             /\ (op.do = "create") <=> (PcRowOf(op.id) = {})
             /\ PcGoto(h, tx)
    <3>1. tx.pc = "read" /\ tx.op = op /\ tx.prev = PcRowOf(op.id)
      OBVIOUS
    <3> HIDE DEF tx
    <3>2. PcReadSound(tx)
      BY <2>1, <2>2, <2>3, <3>1, Zenon DEF PcReadSound
    <3>3. PcTxSound(tx)
      BY <3>1, <3>2, Zenon DEF PcTxSound
    <3> QED BY <1>5, <2>3, <3>3, PcGotoKeeps, Zenon
  <2>4. CASE PcFail(h)
    BY <1>4, <1>5, <2>4, Zenon
  <2> QED BY <1>5, <2>3, <2>4, Zenon DEF PcSnapshot
\* what the checks let through is about to be committed
<1>6. ASSUME NEW o, NEW put, NEW gone, NEW own, NEW bind, PcBusy(h),
             PcWrittenSound([pc |-> "written", op |-> o, put |-> put, gone |-> gone,
                             own |-> own, bind |-> bind]),
             PcGoto(h, [pc |-> "written", op |-> o, put |-> put, gone |-> gone,
                        own |-> own, bind |-> bind])
      PROVE  PcIInv'
  <2> DEFINE tx == [pc |-> "written", op |-> o, put |-> put, gone |-> gone,
                    own |-> own, bind |-> bind]
  <2>1. tx.pc = "written"
    OBVIOUS
  <2> HIDE DEF tx
  <2>2. PcWrittenSound(tx) /\ PcGoto(h, tx)
    BY <1>6, Zenon DEF tx
  <2>3. PcTxSound(tx)
    BY <2>1, <2>2, Zenon DEF PcTxSound
  <2> QED BY <1>6, <2>2, <2>3, PcGotoKeeps, Zenon
<1>7. CASE PcBusy(h) /\ PcWrite(h)
  <2> DEFINE put == IF op.do = "delete" THEN {} ELSE PcDesired(op, pcTx[h].prev)
  <2>1. CASE PcFail(h)
    BY <1>4, <1>7, <2>1, Zenon
  <2>2. CASE /\ ~\E r \in put : \/ PcDuplicateName(r.id, r) \/ PcDuplicatePort(r.id, r)
                                \/ PcDuplicateHostname(r.id, r)
             /\ PcGoto(h, [pc |-> "written", op |-> op, put |-> put,
                           gone |-> {op.id}, own |-> pcOwn, bind |-> pcBind])
    <3>1. pcTx[h].pc = "read"
      BY <1>7, Zenon DEF PcWrite
    <3>2. PcWrittenSound([pc |-> "written", op |-> op, put |-> put,
                          gone |-> {op.id}, own |-> pcOwn, bind |-> pcBind])
      BY <2>2, <3>1, PcWriteSound, Zenon
    <3> QED BY <1>6, <1>7, <2>2, <3>2, Zenon
  <2> QED BY <1>7, <2>1, <2>2, Zenon DEF PcWrite
<1>8. ASSUME pcTx[h].pc = "locked" PROVE PcOpSound(op) /\ op \in PcOp
  BY <1>0, <1>8, Zenon DEF PcTxSound, PcOpSound
<1>9. CASE PcBusy(h) /\ PcPlanImport(h)
  <2>1. CASE PcFail(h)
    BY <1>4, <1>9, <2>1, Zenon
  <2>2. CASE ~PcFail(h)
    <3>1. /\ pcTx[h].pc = "locked" /\ op.do = "import"
          /\ ~\E r \in pcRows : \/ r.kind = op.x.kind /\ r.name = op.x.name
                                \/ PcReservations(r) \cap PcReservations(op.x) # {}
          /\ PcGoto(h, [pc |-> "written", op |-> op,
                       put |-> {PcRow(op.id, op.x, op.on, 0)},
                       gone |-> {}, own |-> pcOwn, bind |-> pcBind])
      BY <1>9, <2>2, Zenon DEF PcPlanImport
    <3> QED BY <1>6, <1>8, <1>9, <3>1, PcImportSound, ZenonT(40)
  <2> QED BY <2>1, <2>2, Zenon
<1>10. CASE PcBusy(h) /\ PcBindCredential(h)
  <2>1. CASE PcFail(h)
    BY <1>4, <1>10, <2>1, Zenon
  <2>2. CASE ~PcFail(h)
    <3>1. /\ pcTx[h].pc = "locked" /\ op.do = "bind" /\ pcBind \notin pcOwn
          /\ PcGoto(h, [pc |-> "written", op |-> op, put |-> {}, gone |-> {},
                       own |-> pcOwn, bind |-> op.id])
      BY <1>10, <2>2, Zenon DEF PcBindCredential
    <3> QED BY <1>6, <1>8, <1>10, <3>1, PcBindSound, Zenon
  <2> QED BY <2>1, <2>2, Zenon
<1>11. CASE PcBusy(h) /\ PcUnbindCredential(h)
  BY <1>6, <1>8, <1>11, PcUnbindSound, Zenon DEF PcUnbindCredential
<1>12. CASE PcBusy(h) /\ PcReconcile(h)
  <2>1. CASE PcFail(h)
    BY <1>4, <1>12, <2>1, Zenon
  <2>2. CASE ~PcFail(h)
    <3>1. /\ pcTx[h].pc = "locked" /\ op.do = "reconcile" /\ ~PcConflicts(op.x)
          /\ PcGoto(h, [pc |-> "written", op |-> [op EXCEPT !.id = pcBind],
                       put |-> {PcRow(pcBind, op.x, op.on, r.cred) : r \in PcRowOf(pcBind)},
                       gone |-> {pcBind}, own |-> {pcBind}, bind |-> pcBind])
      BY <1>12, <2>2, Zenon DEF PcReconcile
    <3> QED BY <1>6, <1>8, <1>12, <3>1, PcReconcileSound, Zenon
  <2> QED BY <2>1, <2>2, Zenon
<1>13. CASE PcBusy(h) /\ PcReconcileEmpty(h)
  BY <1>6, <1>8, <1>13, PcClearSound, Zenon DEF PcReconcileEmpty
<1>14. CASE PcCommit(h)
  BY <1>14, PcCommitKeeps, Zenon
<1>15. CASE PcRollback(h)
  BY <1>4, <1>15, Zenon DEF PcRollback
<1> QED BY <1>1, <1>2, <1>5, <1>7, <1>9, <1>10, <1>11, <1>12, <1>13, <1>14, <1>15, Zenon DEF PcStep

-----------------------------------------------------------------------------
(* The theorems *)

\* Whatever requests and Fleet bundles run at once, each transaction that has
\* passed its checks under the advisory lock commits a sound catalog.
THEOREM CatalogInvariant == PcSpec => []PcIInv
<1>1. PcInit => PcIInv
  <2> SUFFICES ASSUME PcInit PROVE PcIInv
    OBVIOUS
  <2>1. /\ pcRows = {} /\ pcPorts = {} /\ pcOwn = {} /\ pcTx = [h \in PcHandlers |-> PcIdle]
        /\ pcNew = 0 /\ pcAsked = [i \in PcIds |-> FALSE] /\ pcFleet = [i \in PcIds |-> PcNone]
    BY Zenon DEF PcInit
  <2>2. PcSoundRows(pcRows) /\ pcPorts = PcPortsOf(pcRows)
    BY <2>1, Zenon DEF PcSoundRows, PcPortsOf
  <2>3. PcSoundAsked(pcRows, pcAsked)
    BY <2>1, Zenon DEF PcSoundAsked
  <2>4. PcSoundOwner(pcRows, pcOwn, pcBind, pcFleet)
    BY <2>1, Zenon DEF PcSoundOwner
  <2>5. PcLockHeldOnce /\ \A h \in PcHandlers : PcTxSound(pcTx[h])
    BY <2>1, Zenon DEF PcLockHeldOnce, PcBusy, PcIdle, PcTxSound
  <2> QED BY <2>1, <2>2, <2>3, <2>4, <2>5, PcConstants DEF PcIInv
<1>2. PcIInv /\ [PcNext]_pcVars => PcIInv'
  <2> SUFFICES ASSUME PcIInv, [PcNext]_pcVars PROVE PcIInv'
    OBVIOUS
  <2>1. CASE PcNext
    BY <2>1, PcStepKeeps, Zenon DEF PcNext
  <2>2. CASE UNCHANGED pcVars
    <3>1. UNCHANGED <<pcRows, pcPorts, pcOwn, pcBind, pcTx, pcNew, pcAsked, pcFleet>>
      BY <2>2, Zenon DEF pcVars
    <3>2. \A t : PcTxSound(t) => PcTxSound(t)'
      BY <3>1, PcTxStays, Zenon
    <3>3. ASSUME NEW h \in PcHandlers PROVE PcTxSound(pcTx[h])'
      <4>1. PICK t : t = pcTx[h]
        OBVIOUS
      <4>2. t = pcTx'[h] /\ PcTxSound(t)
        BY <3>1, <4>1 DEF PcIInv
      <4> QED BY <3>2, <4>2, Zenon
    <3> QED BY <3>1, <3>3, Zenon DEF PcIInv, PcLockHeldOnce, PcBusy, PcSoundRows, PcSoundAsked, PcSoundOwner
  <2> QED BY <2>1, <2>2, Zenon
<1> QED BY <1>1, <1>2, PTL DEF PcSpec

\* The catalogs stay sound under any mix of operators, imports and Fleet
\* (PcCatalogSound): one owner per endpoint, no policy back on by accident,
\* credentials and Fleet's ownership kept.
THEOREM CatalogSound == PcSpec => []PcCatalogSound
<1>1. PcIInv => PcCatalogSound
  <2> SUFFICES ASSUME PcIInv PROVE PcCatalogSound
    OBVIOUS
  <2>1. PcEndpointsOwned
    BY PcState, Zenon DEF PcEndpointsOwned, PcSoundRows
  <2>2. \A r \in pcRows : r.enabled => pcAsked[r.id]
    BY PcState, Zenon DEF PcSoundAsked
  <2>3. PcOffStaysOff
    <3>1. \A r, e : r \in PcRuntimePolicy(e) \cup PcRoute(e) => r.enabled
      BY Zenon DEF PcRuntimePolicy, PcRoute
    <3>2. \A r, c : r \in PcAuthorizes(c) => r.enabled
      BY Zenon DEF PcAuthorizes
    <3> QED BY <2>2, <3>1, <3>2, Zenon DEF PcOffStaysOff
  <2>4. PcIdentityKept
    BY PcState, Zenon DEF PcIdentityKept, PcSoundRows, PcSoundOwner, PcRowOf
  <2> QED BY <2>1, <2>3, <2>4, Zenon DEF PcCatalogSound
<1> QED BY <1>1, CatalogInvariant, PTL

-----------------------------------------------------------------------------
(* Bundles of several sources beside local requests *)

FbLocalIds == {p.id : p \in FbLocal}
FbIsRow(r) == r = [id |-> r.id, kind |-> r.kind, port |-> r.port, val |-> r.val]

\* policies are told apart by their ids, and one whose id was derived from a
\* resource is owned
FbRowsSound ==
    /\ \A r \in fbRows : FbIsRow(r) /\ (r.id \in FbLocalIds \/ FbManaged(r.id))
    /\ \A r, q \in fbRows : r.id = q.id => r = q

\* an owned policy exists and has one owner; its id is derived from the
\* resource, or was local and came with a credential
FbOwnSound ==
    /\ \A o \in fbOwn :
          /\ \E r \in fbRows : r.id = o.id
          /\ IF o.ref = "" THEN o.id = o.res /\ o.id \notin FbLocalIds
                           ELSE o.id \in FbLocalIds
    /\ \A o, p \in fbOwn : o.id = p.id \/ (o.src = p.src /\ o.res = p.res) => o = p

\* a credential is bound to one policy, a policy to one credential, and only
\* a resource with that credential can own it
FbBindSound ==
    /\ \A k \in fbBind : k.id \in FbLocalIds /\ k.ref # ""
    /\ \A k, l \in fbBind : k.id = l.id \/ (k.src = l.src /\ k.ref = l.ref) => k = l
    /\ \A k \in fbBind, o \in fbOwn : o.id = k.id => o.src = k.src /\ o.ref = k.ref

\* what a handler found is still true when it writes
FbHandlersSound ==
    /\ fbReq = [h \in FbHandlers |-> fbReq[h]]
    /\ \A h \in FbHandlers :
          /\ fbReq[h].pc \in {"queued", "reconciled"} => fbReq[h].b \in FbBundles
          /\ fbReq[h].pc \in {"edit", "delete", "control"} =>
                fbLock = h /\ ~FbManaged(fbReq[h].id)
          /\ fbReq[h].pc = "insert" =>
                /\ ~fbPg /\ fbReq[h].p \in FbLocal
                /\ \A r \in fbRows : r.id # fbReq[h].p.id
    /\ \A g, h \in FbHandlers : fbReq[g].pc = "insert" /\ fbReq[h].pc = "insert" => g = h

\* FbAppliedExactly, with the credentials of the resources
FbHasControl(id, ctl) == {c.ctl : c \in {c \in fbCtl : c.id = id}} = {ctl} \ {0}
FbInstalled(o, x) ==
    /\ x.res = o.res /\ x.ref = o.ref
    /\ [id |-> o.id, kind |-> x.kind, port |-> x.port, val |-> x.val] \in fbRows
    /\ FbHasControl(o.id, x.ctl)
FbIsApplied(b) ==
    /\ \A o \in fbOwn : o.src = b.src => \E x \in b.res : FbInstalled(o, x)
    /\ \A x \in b.res : x.ref = "" => \E o \in fbOwn : o.src = b.src /\ o.res = x.res
FbApplied ==
    \A b \in FbBundles : fbState[b.src] = [gen |-> b.gen, rev |-> b.rev] => FbIsApplied(b)

\* The inductive invariant of the bundles.
FbTables == FbRowsSound /\ FbOwnSound /\ FbBindSound /\ FbSharedDistinct
FbIInv ==
    /\ fbState = [s \in FbSources |-> fbState[s]]
    /\ FbTables /\ FbHandlersSound /\ FbApplied

\* What a bundle without conflicts is planned to do: its resources go to
\* different policies, which are new, its own, or bound to its credentials, and
\* in PostgreSQL no endpoint is wanted twice or belongs to anybody else.
FbPlanSound(b) ==
    /\ \A x \in b.res :
          /\ x.ref = "" => FbPlannedId(b, x) = x.res /\ x.res \notin FbLocalIds
          /\ x.ref # "" => /\ FbPlannedId(b, x) \in FbLocalIds
                           /\ \E r \in fbRows : r.id = FbPlannedId(b, x)
                           /\ \E k \in fbBind : /\ k.src = b.src /\ k.ref = x.ref
                                               /\ k.id = FbPlannedId(b, x)
    /\ \A x, y \in b.res : FbPlannedId(b, x) = FbPlannedId(b, y) => x = y
    /\ \A x \in b.res, o \in fbOwn :
          /\ o.id = FbPlannedId(b, x) => o.src = b.src /\ o.ref = x.ref
          /\ o.src = b.src /\ o.res = x.res => o.id = FbPlannedId(b, x) /\ o.ref = x.ref
    /\ fbPg => \A x, y \in b.res : x # y =>
          FbEndpoints(x.kind, x.port) \cap FbEndpoints(y.kind, y.port) = {}
    /\ fbPg => \A x \in b.res, r \in fbRows :
          \/ FbEndpoints(x.kind, x.port) \cap FbEndpoints(r.kind, r.port) = {}
          \/ \E y \in b.res : FbPlannedId(b, y) = r.id
          \/ \E o \in fbOwn : o.src = b.src /\ o.id = r.id

\* reconcile plans soundly when it finds no conflict
LEMMA FbPlanIsSound ==
    ASSUME FbTables, NEW b \in FbBundles, FbConflicts(b) = {}
    PROVE  FbPlanSound(b)
<1> DEFINE P(x) == FbPlannedId(b, x)
<1>1. \A x \in b.res : ~FbPlanFails(b.src, x) /\ ~FbTaken(b, x)
    BY Zenon DEF FbConflicts
<1>2. FbPlannable(b) = b.res
    BY <1>1, Zenon DEF FbPlannable
<1>3. \A x \in b.res : ~FbUnplannable(b.src, x) /\ ~FbWantedTwice(b, x)
    BY <1>1, Zenon DEF FbPlanFails, FbTaken
<1>4. ASSUME NEW x \in b.res PROVE P(x) \in FbPolicyIds(b.src, x)
    BY <1>3, Zenon DEF FbUnplannable, FbPlannedId
<1>0. FbOwnSound /\ FbBindSound
    BY Zenon DEF FbTables
<1> HIDE DEF P
<1>5. ASSUME NEW x \in b.res, x.ref = ""
      PROVE  P(x) = x.res /\ x.res \notin FbLocalIds
    BY <1>4, <1>5, FbAssumption, Zenon DEF FbPolicyIds, FbLocalIds
<1>6. ASSUME NEW x \in b.res, x.ref # ""
      PROVE  /\ P(x) \in FbLocalIds /\ \E r \in fbRows : r.id = P(x)
             /\ \E k \in fbBind : k.src = b.src /\ k.ref = x.ref /\ k.id = P(x)
  <2>1. PICK k \in fbBind : k.src = b.src /\ k.ref = x.ref /\ k.id = P(x)
    BY <1>4, <1>6, Zenon DEF FbPolicyIds, FbBound
  <2>2. \E r \in FbRow(P(x)) : r.kind = x.kind
    <3>1. ~FbUnplannable(b.src, x) /\ P(x) \in FbPolicyIds(b.src, x)
      BY <1>3, <1>4, Zenon
    <3> QED BY <1>6, <3>1, Zenon DEF FbUnplannable
  <2> QED BY <1>0, <2>1, <2>2, Zenon DEF FbBindSound, FbRow
<1>7. ASSUME NEW x \in b.res, NEW y \in b.res, P(x) = P(y) PROVE x = y
  <2>1. x.ref = "" <=> y.ref = ""
    BY <1>5, <1>6, <1>7, Zenon
  <2>2. CASE x.ref = ""
    <3>1. x.res = y.res
      BY <1>5, <1>7, <2>1, <2>2, Zenon
    <3>2. FbValid(b)
      BY FbAssumption, Zenon
    <3> QED BY <3>1, <3>2, Zenon DEF FbValid
  <2>3. CASE x.ref # ""
    <3>1. PICK k \in fbBind : k.ref = x.ref /\ k.id = P(x)
      BY <1>6, <2>3, Zenon
    <3>2. PICK l \in fbBind : l.ref = y.ref /\ l.id = P(y)
      BY <1>6, <2>1, <2>3, Zenon
    <3>3. k = l
      <4>1. k.id = l.id
        BY <1>7, <3>1, <3>2, Zenon
      <4>2. FbBindSound
        BY <1>0, Zenon
      <4> QED BY <4>1, <4>2, Zenon DEF FbBindSound
    <3>4. ~FbWantedTwice(b, x) /\ x.ref = y.ref
      BY <1>3, <3>1, <3>2, <3>3, Zenon
    <3> QED BY <1>2, <2>3, <3>4, Zenon DEF FbWantedTwice
  <2> QED BY <2>2, <2>3, Zenon
<1>8. ASSUME NEW x \in b.res, NEW o \in fbOwn, o.src = b.src, o.res = x.res
      PROVE  o.id = P(x) /\ o.ref = x.ref
  <2>1. o \in FbOldOf(b.src, x)
    BY <1>8, Zenon DEF FbOldOf, FbOwned
  <2>2. o.ref = x.ref
    BY <1>3, <2>1, Zenon DEF FbUnplannable
  <2>3. CASE x.ref = ""
    BY <1>0, <1>5, <1>8, <2>2, <2>3, Zenon DEF FbOwnSound
  <2>4. CASE x.ref # ""
    BY <1>3, <1>4, <2>1, <2>4, Zenon DEF FbUnplannable
  <2> QED BY <2>2, <2>3, <2>4, Zenon
<1>9. ASSUME NEW x \in b.res, NEW o \in fbOwn, o.id = P(x)
      PROVE  o.src = b.src /\ o.ref = x.ref
  <2>1. CASE x.ref = ""
    <3>1. PICK r \in fbRows : r.id = P(x)
      BY <1>0, <1>9, Zenon DEF FbOwnSound
    <3>2. FbOldOf(b.src, x) # {}
      BY <1>3, <1>4, <2>1, <3>1, Zenon DEF FbUnplannable, FbRow
    <3>3. PICK q \in fbOwn : q.src = b.src /\ q.res = x.res
      BY <3>2, Zenon DEF FbOldOf, FbOwned
    <3>4. q.id = P(x) /\ q.ref = x.ref
      BY <1>8, <3>3, Zenon
    <3>5. q = o
      BY <1>0, <1>9, <3>4, Zenon DEF FbOwnSound
    <3> QED BY <3>3, <3>4, <3>5, Zenon
  <2>2. CASE x.ref # ""
    <3>1. PICK k \in fbBind : k.src = b.src /\ k.ref = x.ref /\ k.id = P(x)
      BY <1>6, <2>2, Zenon
    <3>2. FbBindSound /\ o.id = k.id
      BY <1>0, <1>9, <3>1, Zenon
    <3>3. o.src = k.src /\ o.ref = k.ref
      BY <3>2, Zenon DEF FbBindSound
    <3> QED BY <3>1, <3>3, Zenon
  <2> QED BY <2>1, <2>2
<1>10. ASSUME fbPg, NEW x \in b.res, NEW y \in b.res, x # y
       PROVE  FbEndpoints(x.kind, x.port) \cap FbEndpoints(y.kind, y.port) = {}
    BY <1>2, <1>3, <1>10, Zenon DEF FbWantedTwice, FbCompared
<1>11. ASSUME fbPg, NEW x \in b.res, NEW r \in fbRows
       PROVE  \/ FbEndpoints(x.kind, x.port) \cap FbEndpoints(r.kind, r.port) = {}
              \/ \E y \in b.res : P(y) = r.id
              \/ \E o \in fbOwn : o.src = b.src /\ o.id = r.id
    BY <1>1, <1>2, <1>11, Zenon DEF FbTaken, FbCompared, FbOwned, P
<1> QED BY <1>5, <1>6, <1>7, <1>8, <1>9, <1>10, <1>11, Zenon DEF FbPlanSound, P

\* What a row of a table after the transaction is: one that was there and
\* that the bundle neither drops nor writes, or one the bundle writes.
FbKeeps(b, id) ==
    /\ \A o \in fbOwn : o.src = b.src /\ o.id = id => \E x \in b.res : x.res = o.res
    /\ \A x \in FbToWrite(b) : FbPlannedId(b, x) # id
FbWritten(b) ==
    /\ \A r \in fbRows' :
          \/ r \in fbRows /\ FbKeeps(b, r.id)
          \/ \E x \in FbToWrite(b) : r = FbNewRow(b, x)
    /\ \A r \in fbRows : FbKeeps(b, r.id) => r \in fbRows'
    /\ \A o \in fbOwn' :
          \/ /\ o \in fbOwn
             /\ o.src = b.src => \E x \in b.res : x.res = o.res
             /\ \A x \in FbToWrite(b) : FbPlannedId(b, x) # o.id
          \/ \E x \in FbToWrite(b) : o = FbOwnership(b, x)
    /\ \A o \in fbOwn : FbKeeps(b, o.id) => o \in fbOwn'
    /\ \A x \in FbToWrite(b) : FbNewRow(b, x) \in fbRows' /\ FbOwnership(b, x) \in fbOwn'
    /\ fbBind' \subseteq fbBind

\* the transaction writes what its tables say
LEMMA FbWrites ==
    ASSUME NEW b, FbApply(b)
    PROVE  FbWritten(b)
<1>1. \A id : id \in FbGoneIds(b) <=>
          \E o \in fbOwn : o.src = b.src /\ o.id = id /\ \A x \in b.res : x.res # o.res
    BY Zenon DEF FbGoneIds, FbObsolete, FbOwned
<1>2. \A id : FbKeeps(b, id) <=>
          id \notin FbGoneIds(b) \cup {FbPlannedId(b, x) : x \in FbToWrite(b)}
    BY <1>1 DEF FbKeeps
<1>3. fbRows' = {r \in fbRows : FbKeeps(b, r.id)} \cup {FbNewRow(b, x) : x \in FbToWrite(b)}
    BY <1>2, Zenon DEF FbApply, FbRowsAfter
<1>4. \A o : o \in FbObsolete(b) <=>
          o \in fbOwn /\ o.src = b.src /\ \A x \in b.res : x.res # o.res
    BY Zenon DEF FbObsolete, FbOwned
<1>5. \A o : o \in fbOwn' <=>
          \/ /\ o \in fbOwn /\ o \notin FbObsolete(b)
             /\ \A x \in FbToWrite(b) : FbPlannedId(b, x) # o.id
          \/ \E x \in FbToWrite(b) : o = FbOwnership(b, x)
    BY Zenon DEF FbApply, FbOwnAfter
<1>6. \A o \in fbOwn : FbKeeps(b, o.id) => o \in fbOwn'
    BY <1>4, <1>5, Zenon DEF FbKeeps
<1>7. fbBind' \subseteq fbBind
    BY Zenon DEF FbApply, FbBindingsAfter
<1> QED BY <1>3, <1>4, <1>5, <1>6, <1>7, Zenon DEF FbWritten

\* fields of a written policy and its ownership
LEMMA FbNewFields ==
    ASSUME NEW b, NEW x
    PROVE  /\ FbIsRow(FbNewRow(b, x))
           /\ FbNewRow(b, x).id = FbPlannedId(b, x)
           /\ FbNewRow(b, x).kind = x.kind /\ FbNewRow(b, x).port = x.port
           /\ FbOwnership(b, x).id = FbPlannedId(b, x)
           /\ FbOwnership(b, x).src = b.src /\ FbOwnership(b, x).res = x.res
           /\ FbOwnership(b, x).ref = x.ref
BY Zenon DEF FbIsRow, FbNewRow, FbOwnership

\* Every resource of the bundle then has its policy and its ownership, and
\* the policies of others are untouched.
LEMMA FbAllInPlace ==
    ASSUME FbTables, NEW b \in FbBundles, FbPlanSound(b), FbWritten(b)
    PROVE  /\ \A x \in b.res :
                 /\ FbNewRow(b, x) \in fbRows'
                 /\ \E o \in fbOwn' :
                       o.src = b.src /\ o.res = x.res /\ o.id = FbPlannedId(b, x)
           /\ \A o \in fbOwn' : o.src = b.src =>
                 \E x \in b.res :
                    o.res = x.res /\ o.ref = x.ref /\ o.id = FbPlannedId(b, x)
           /\ \A o \in fbOwn' : o.src # b.src => o \in fbOwn
           /\ \A o \in fbOwn : o.src # b.src => o \in fbOwn' /\ FbKeeps(b, o.id)
<1>1. FbOwnSound
    BY Zenon DEF FbTables
<1>2. ASSUME NEW x \in b.res, x \notin FbToWrite(b)
      PROVE  /\ FbNewRow(b, x) \in fbRows /\ FbKeeps(b, FbPlannedId(b, x))
             /\ \E o \in fbOwn :
                   o.src = b.src /\ o.res = x.res /\ o.id = FbPlannedId(b, x)
  <2>1. ~FbWriteRequired(b, x)
    BY <1>2, Zenon DEF FbToWrite
  <2>2. PICK o \in fbOwn : o.src = b.src /\ o.res = x.res
    BY <2>1, Zenon DEF FbWriteRequired, FbOldOf, FbOwned
  <2>3. FbNewRow(b, x) \in fbRows
    BY <2>1, Zenon DEF FbWriteRequired, FbPolicyMatches
  <2>4. o.id = FbPlannedId(b, x)
    BY <2>2, Zenon DEF FbPlanSound
  <2>5. \A p \in fbOwn : p.id = o.id => p = o
    BY <1>1, Zenon DEF FbOwnSound
  <2>6. \A y \in FbToWrite(b) : FbPlannedId(b, y) # FbPlannedId(b, x)
    BY <1>2, Zenon DEF FbPlanSound, FbToWrite
  <2>7. FbKeeps(b, FbPlannedId(b, x))
    BY <2>2, <2>4, <2>5, <2>6, Zenon DEF FbKeeps
  <2> QED BY <2>2, <2>3, <2>4, <2>7, Zenon
<1>3. ASSUME NEW x \in b.res
      PROVE  /\ FbNewRow(b, x) \in fbRows'
             /\ \E o \in fbOwn' :
                   o.src = b.src /\ o.res = x.res /\ o.id = FbPlannedId(b, x)
  <2>1. CASE x \in FbToWrite(b)
    BY <2>1, FbNewFields, Zenon DEF FbWritten
  <2>2. CASE x \notin FbToWrite(b)
    <3>1. PICK o \in fbOwn : o.src = b.src /\ o.res = x.res /\ o.id = FbPlannedId(b, x)
      BY <1>2, <2>2, Zenon
    <3> QED BY <1>2, <2>2, <3>1, FbNewFields, Zenon DEF FbWritten
  <2> QED BY <2>1, <2>2, Zenon
<1>4. ASSUME NEW o \in fbOwn', o.src = b.src
      PROVE  \E x \in b.res : o.res = x.res /\ o.ref = x.ref /\ o.id = FbPlannedId(b, x)
  <2>1. CASE \E x \in FbToWrite(b) : o = FbOwnership(b, x)
    BY <2>1, FbNewFields, SMTT(20) DEF FbToWrite
  <2>2. CASE o \in fbOwn /\ \E x \in b.res : x.res = o.res
    BY <1>4, <2>2, Zenon DEF FbPlanSound
  <2>3. \/ o \in fbOwn /\ (o.src = b.src => \E x \in b.res : x.res = o.res)
        \/ \E x \in FbToWrite(b) : o = FbOwnership(b, x)
    BY Zenon DEF FbWritten
  <2> QED BY <1>4, <2>1, <2>2, <2>3, Zenon
<1>5. ASSUME NEW o \in fbOwn', o.src # b.src PROVE o \in fbOwn
  <2>1. o \in fbOwn \/ \E x \in FbToWrite(b) : o = FbOwnership(b, x)
    BY Zenon DEF FbWritten
  <2> QED BY <1>5, <2>1, FbNewFields, SMTT(20)
<1>6. ASSUME NEW o \in fbOwn, o.src # b.src PROVE o \in fbOwn' /\ FbKeeps(b, o.id)
  <2>1. \A x \in FbToWrite(b) : FbPlannedId(b, x) # o.id
    BY <1>6, Zenon DEF FbPlanSound, FbToWrite
  <2>2. \A p \in fbOwn : p.src = b.src => p.id # o.id
    BY <1>1, <1>6, Zenon DEF FbOwnSound
  <2>3. FbKeeps(b, o.id)
    BY <2>1, <2>2, Zenon DEF FbKeeps
  <2> QED BY <2>3, Zenon DEF FbWritten
<1> QED BY <1>3, <1>4, <1>5, <1>6, Zenon

\* after the transaction policies still have different ids and owners
LEMMA FbRowsApplied ==
    ASSUME FbTables, NEW b \in FbBundles, FbPlanSound(b), FbWritten(b)
    PROVE  FbRowsSound'
<1>0. FbRowsSound /\ FbOwnSound
    BY Zenon DEF FbTables
<1>1. ASSUME NEW r \in fbRows'
      PROVE  FbIsRow(r) /\ (r.id \in FbLocalIds \/ FbManaged(r.id)')
  <2>1. CASE r \in fbRows /\ FbKeeps(b, r.id)
    <3>1. FbIsRow(r) /\ (r.id \in FbLocalIds \/ FbManaged(r.id))
      BY <1>0, <2>1, Zenon DEF FbRowsSound
    <3>2. ASSUME FbManaged(r.id) PROVE FbManaged(r.id)'
      BY <2>1, <3>2, Zenon DEF FbManaged, FbWritten
    <3> QED BY <3>1, <3>2, Zenon
  <2>2. ASSUME NEW x \in FbToWrite(b), r = FbNewRow(b, x)
        PROVE  FbIsRow(r) /\ (r.id \in FbLocalIds \/ FbManaged(r.id)')
    <3>1. FbOwnership(b, x) \in fbOwn'
      BY Zenon DEF FbWritten
    <3> QED BY <2>2, <3>1, FbNewFields, SMTT(20) DEF FbManaged
  <2> QED BY <2>1, <2>2, Zenon DEF FbWritten
<1>2. ASSUME NEW r \in fbRows', NEW q \in fbRows', r.id = q.id
      PROVE  r = q
  <2> DEFINE Kept(s) == s \in fbRows /\ FbKeeps(b, s.id)
             New(s) == \E x \in FbToWrite(b) : s = FbNewRow(b, x)
  <2>1. (Kept(r) \/ New(r)) /\ (Kept(q) \/ New(q))
    BY Zenon DEF FbWritten
  <2>2. CASE Kept(r) /\ Kept(q)
    BY <1>0, <1>2, <2>2, Zenon DEF FbRowsSound
  <2>3. CASE New(r) /\ New(q)
    <3>1. PICK x \in FbToWrite(b) : r = FbNewRow(b, x)
      BY <2>3, Zenon
    <3>2. PICK y \in FbToWrite(b) : q = FbNewRow(b, y)
      BY <2>3, Zenon
    <3>3. x \in b.res /\ y \in b.res /\ FbPlannedId(b, x) = FbPlannedId(b, y)
      BY <1>2, <3>1, <3>2, FbNewFields, SMTT(20) DEF FbToWrite
    <3>4. x = y
      BY <3>3, Zenon DEF FbPlanSound
    <3> QED BY <3>1, <3>2, <3>4, Zenon
  <2>4. CASE Kept(r) /\ New(q)
    BY <1>2, <2>4, FbNewFields, SMTT(20) DEF FbKeeps
  <2>5. CASE New(r) /\ Kept(q)
    BY <1>2, <2>5, FbNewFields, SMTT(20) DEF FbKeeps
  <2> QED BY <2>1, <2>2, <2>3, <2>4, <2>5, Zenon
<1> QED BY <1>1, <1>2, Zenon DEF FbRowsSound, FbIsRow

\* every owned policy exists and has one owner
LEMMA FbOwnApplied ==
    ASSUME FbTables, NEW b \in FbBundles, FbPlanSound(b), FbWritten(b)
    PROVE  FbOwnSound'
<1>0. FbOwnSound
    BY Zenon DEF FbTables
<1>1. ASSUME NEW o \in fbOwn'
      PROVE  /\ \E r \in fbRows' : r.id = o.id
             /\ IF o.ref = "" THEN o.id = o.res /\ o.id \notin FbLocalIds
                              ELSE o.id \in FbLocalIds
  <2>1. CASE o.src = b.src
    <3>1. PICK x \in b.res : o.res = x.res /\ o.ref = x.ref /\ o.id = FbPlannedId(b, x)
      BY <2>1, FbAllInPlace, Zenon
    <3>2. FbNewRow(b, x) \in fbRows' /\ FbNewRow(b, x).id = o.id
      BY <3>1, FbAllInPlace, FbNewFields, SMTT(20)
    <3>3. IF o.ref = "" THEN o.id = o.res /\ o.id \notin FbLocalIds
                        ELSE o.id \in FbLocalIds
      BY <3>1, Zenon DEF FbPlanSound
    <3> QED BY <3>2, <3>3, Zenon
  <2>2. CASE o.src # b.src
    <3>1. o \in fbOwn /\ FbKeeps(b, o.id)
      BY <2>2, FbAllInPlace, Zenon
    <3>2. PICK r \in fbRows : r.id = o.id
      BY <1>0, <3>1, Zenon DEF FbOwnSound
    <3>3. r \in fbRows'
      BY <3>1, <3>2, Zenon DEF FbWritten
    <3> QED BY <1>0, <3>1, <3>2, <3>3, Zenon DEF FbOwnSound
  <2> QED BY <2>1, <2>2, Zenon
<1>2. ASSUME NEW o \in fbOwn', NEW p \in fbOwn',
             o.id = p.id \/ (o.src = p.src /\ o.res = p.res)
      PROVE  o = p
  <2> DEFINE Kept(s) == s \in fbOwn /\ \A x \in FbToWrite(b) : FbPlannedId(b, x) # s.id
             New(s) == \E x \in FbToWrite(b) : s = FbOwnership(b, x)
  <2>1. (Kept(o) \/ New(o)) /\ (Kept(p) \/ New(p))
    BY Zenon DEF FbWritten
  <2>2. CASE Kept(o) /\ Kept(p)
    BY <1>0, <1>2, <2>2, Zenon DEF FbOwnSound
  <2>3. CASE New(o) /\ New(p)
    <3>1. PICK x \in FbToWrite(b) : o = FbOwnership(b, x)
      BY <2>3, Zenon
    <3>2. PICK y \in FbToWrite(b) : p = FbOwnership(b, y)
      BY <2>3, Zenon
    <3>3. /\ x \in b.res /\ y \in b.res
          /\ FbPlannedId(b, x) = FbPlannedId(b, y) \/ x.res = y.res
      BY <1>2, <3>1, <3>2, FbNewFields, SMTT(20) DEF FbToWrite
    <3>5. FbPlannedId(b, x) = FbPlannedId(b, y) => x = y
      BY <3>3, Zenon DEF FbPlanSound
    <3>6. x.res = y.res => x = y
      BY <3>3, FbAssumption, Zenon DEF FbValid
    <3>4. x = y
      BY <3>3, <3>5, <3>6, Zenon
    <3> QED BY <3>1, <3>2, <3>4, Zenon
  <2>4. ASSUME NEW x \in FbToWrite(b), NEW q \in fbOwn,
               FbPlannedId(b, x) # q.id, q.src = b.src, q.res = x.res
        PROVE  FALSE
    BY <2>4, Zenon DEF FbPlanSound, FbToWrite
  <2>5. CASE Kept(o) /\ New(p)
    BY <1>2, <2>4, <2>5, FbNewFields, SMTT(20)
  <2>6. CASE New(o) /\ Kept(p)
    BY <1>2, <2>4, <2>6, FbNewFields, SMTT(20)
  <2> QED BY <2>1, <2>2, <2>3, <2>5, <2>6, Zenon
<1> QED BY <1>1, <1>2, Zenon DEF FbOwnSound

\* a bound policy is owned only through its credential
LEMMA FbBindApplied ==
    ASSUME FbTables, NEW b \in FbBundles, FbPlanSound(b), FbWritten(b)
    PROVE  FbBindSound'
<1>0. FbBindSound /\ \A k \in fbBind' : k \in fbBind
    BY Zenon DEF FbTables, FbWritten
<1>1. ASSUME NEW k \in fbBind', NEW o \in fbOwn', o.id = k.id
      PROVE  o.src = k.src /\ o.ref = k.ref
  <2>1. k \in fbBind /\ k.id \in FbLocalIds
    BY <1>0, Zenon DEF FbBindSound
  <2>2. CASE o.src # b.src
    BY <1>0, <1>1, <2>1, <2>2, FbAllInPlace, Zenon DEF FbBindSound
  <2>3. CASE o.src = b.src
    <3>1. PICK x \in b.res : o.ref = x.ref /\ o.id = FbPlannedId(b, x)
      BY <2>3, FbAllInPlace, Zenon
    <3>2. x.ref # ""
      <4>1. x.ref = "" => FbPlannedId(b, x) = x.res /\ x.res \notin FbLocalIds
        BY Zenon DEF FbPlanSound
      <4> QED BY <1>1, <2>1, <3>1, <4>1, Zenon
    <3>3. PICK l \in fbBind : l.src = b.src /\ l.ref = x.ref /\ l.id = FbPlannedId(b, x)
      BY <3>2, Zenon DEF FbPlanSound
    <3>4. l = k
      BY <1>0, <1>1, <2>1, <3>1, <3>3, Zenon DEF FbBindSound
    <3> QED BY <2>3, <3>1, <3>3, <3>4, Zenon
  <2> QED BY <2>2, <2>3, Zenon
<1> QED BY <1>0, <1>1, Zenon DEF FbBindSound

\* and in PostgreSQL no endpoint is claimed twice
LEMMA FbDistinctApplied ==
    ASSUME FbTables, NEW b \in FbBundles, FbPlanSound(b), FbWritten(b),
           fbPg, FbDistinct
    PROVE  FbDistinct'
<1> DEFINE Kept(s) == s \in fbRows /\ FbKeeps(b, s.id)
           New(s) == \E x \in FbToWrite(b) : s = FbNewRow(b, x)
           Apart(r, q) == FbEndpoints(r.kind, r.port) \cap FbEndpoints(q.kind, q.port) = {}
<1>0. FbRowsSound
    BY Zenon DEF FbTables
<1>1. \A s \in fbRows' : Kept(s) \/ New(s)
    BY Zenon DEF FbWritten
<1>2. ASSUME NEW x \in b.res, NEW q, Kept(q), q # FbNewRow(b, x)
      PROVE  Apart(x, q)
  <2>1. CASE \E y \in b.res : FbPlannedId(b, y) = q.id
    <3>1. PICK y \in b.res : FbPlannedId(b, y) = q.id
      BY <2>1, Zenon
    <3>2. ~FbWriteRequired(b, y)
      BY <1>2, <3>1, Zenon DEF FbKeeps, FbToWrite
    <3>3. FbNewRow(b, y) \in fbRows
      BY <3>2, Zenon DEF FbWriteRequired, FbPolicyMatches
    <3>4. q = FbNewRow(b, y)
      BY <1>0, <1>2, <3>1, <3>3, FbNewFields, Zenon DEF FbRowsSound
    <3>5. x # y
      BY <1>2, <3>4, Zenon
    <3>6. Apart(x, y)
      BY <3>5, Zenon DEF FbPlanSound
    <3> QED BY <3>4, <3>6, FbNewFields, Zenon
  <2>2. CASE \E o \in fbOwn : o.src = b.src /\ o.id = q.id
    <3>1. PICK o \in fbOwn : o.src = b.src /\ o.id = q.id
      BY <2>2, Zenon
    <3>2. PICK y \in b.res : y.res = o.res
      BY <1>2, <3>1, Zenon DEF FbKeeps
    <3>3. FbPlannedId(b, y) = q.id
      BY <3>1, <3>2, Zenon DEF FbPlanSound
    <3> QED BY <2>1, <3>3, Zenon
  <2> QED BY <1>2, <2>1, <2>2, Zenon DEF FbPlanSound
<1>3. \A r, q : Apart(r, q) <=> Apart(q, r)
    OBVIOUS
<1>4. ASSUME NEW r \in fbRows', NEW q \in fbRows', r # q PROVE Apart(r, q)
  <2>1. CASE Kept(r) /\ Kept(q)
    BY <1>4, <2>1, Zenon DEF FbDistinct
  <2>2. CASE New(r) /\ New(q)
    <3>1. PICK x \in FbToWrite(b) : r = FbNewRow(b, x)
      BY <2>2, Zenon
    <3>2. PICK y \in FbToWrite(b) : q = FbNewRow(b, y)
      BY <2>2, Zenon
    <3>3. x \in b.res /\ y \in b.res /\ x # y
      BY <1>4, <3>1, <3>2, Zenon DEF FbToWrite
    <3>4. Apart(x, y)
      BY <3>3, Zenon DEF FbPlanSound
    <3> QED BY <3>1, <3>2, <3>4, FbNewFields
  <2> HIDE DEF Apart, Kept
  <2>3. ASSUME NEW s, NEW t, s # t, New(s), Kept(t) PROVE Apart(s, t)
    <3>1. PICK x \in FbToWrite(b) : s = FbNewRow(b, x)
      BY <2>3, Zenon
    <3>2. Apart(x, t)
      BY <1>2, <2>3, <3>1, Zenon DEF FbToWrite
    <3> QED BY <3>1, <3>2, FbNewFields, Zenon DEF Apart
  <2> QED BY <1>1, <1>3, <1>4, <2>1, <2>2, <2>3, Zenon
<1> QED BY <1>4, Zenon DEF FbDistinct

\* the planned policies have the controls of the bundle, others keep theirs
LEMMA FbControlsApplied ==
    ASSUME NEW b \in FbBundles, FbPlanSound(b), fbCtl' = FbControlsAfter(b)
    PROVE  /\ \A x \in b.res : \A id :
                 id = FbPlannedId(b, x) => FbHasControl(id, x.ctl)'
           /\ \A id, ctl :
                 /\ id \notin FbGoneIds(b) \cup FbPlanIds(b)
                 /\ FbHasControl(id, ctl)
                 => FbHasControl(id, ctl)'
<1>1. \A c : c \in fbCtl' <=>
         \/ c \in fbCtl /\ c.id \notin FbGoneIds(b) \cup FbPlanIds(b)
         \/ c \in FbWanted(b)
    BY Zenon DEF FbControlsAfter
<1>2. \A c \in FbWanted(b) : \E x \in b.res :
         x.ctl # 0 /\ c = [id |-> FbPlannedId(b, x), ctl |-> x.ctl]
    BY Zenon DEF FbWanted
<1>3. \A x \in b.res : FbPlannedId(b, x) \in FbPlanIds(b)
    BY Zenon DEF FbPlanIds
<1>4. ASSUME NEW x \in b.res, NEW i, i = FbPlannedId(b, x)
      PROVE  FbHasControl(i, x.ctl)'
  <2> DEFINE C == {c \in fbCtl' : c.id = FbPlannedId(b, x)}
             w == [id |-> FbPlannedId(b, x), ctl |-> x.ctl]
  <2>1. ASSUME NEW c \in C PROVE c = w /\ x.ctl # 0
    <3>1. c \in FbWanted(b) /\ c.id = FbPlannedId(b, x)
      BY <1>1, <1>3, Zenon
    <3>2. PICK y \in b.res : y.ctl # 0 /\ c = [id |-> FbPlannedId(b, y), ctl |-> y.ctl]
      BY <1>2, <3>1, Zenon
    <3>3. FbPlannedId(b, y) = FbPlannedId(b, x)
      BY <3>1, <3>2, Zenon
    <3>4. y = x
      BY <3>3, Zenon DEF FbPlanSound
    <3> QED BY <3>2, <3>4, Zenon
  <2>2. ASSUME x.ctl # 0 PROVE w \in C
    <3>1. w \in FbWanted(b)
      BY <2>2, Zenon DEF FbWanted
    <3> QED BY <1>1, <3>1, Zenon
  <2>3. {c.ctl : c \in C} = {x.ctl} \ {0}
    <3>1. w.ctl = x.ctl
      OBVIOUS
    <3> HIDE DEF C, w
    <3> QED BY <2>1, <2>2, <3>1, Zenon
  <2> QED BY <1>4, <2>3, Zenon DEF FbHasControl
<1>5. ASSUME NEW id, NEW ctl, id \notin FbGoneIds(b) \cup FbPlanIds(b),
             FbHasControl(id, ctl)
      PROVE  FbHasControl(id, ctl)'
  <2>1. \A c \in FbWanted(b) : c.id # id
    BY <1>2, <1>3, <1>5, SMTT(20)
  <2>2. {c \in fbCtl' : c.id = id} = {c \in fbCtl : c.id = id}
    BY <1>1, <1>5, <2>1, Zenon
  <2> QED BY <1>5, <2>2, Zenon DEF FbHasControl
<1> QED BY <1>4, <1>5, Zenon

\* this source then owns what the bundle says, and the others what they owned
LEMMA FbAppliedApplied ==
    ASSUME FbTables, FbApplied, NEW b \in FbBundles, FbPlanSound(b), FbWritten(b),
           fbState = [s \in FbSources |-> fbState[s]],
           fbState' = [fbState EXCEPT ![b.src] = [gen |-> b.gen, rev |-> b.rev]],
           fbCtl' = FbControlsAfter(b)
    PROVE  FbApplied'
<1>0. FbOwnSound
    BY Zenon DEF FbTables
<1>1. ASSUME NEW c \in FbBundles, c.src = b.src,
             fbState'[c.src] = [gen |-> c.gen, rev |-> c.rev]
      PROVE  FbIsApplied(c)'
  <2>1. b.src \in FbSources
    BY Zenon DEF FbSources
  <2>2. c.rev = b.rev
    BY <1>1, <2>1, Zenon
  <2>3. c.res = b.res
    BY <1>1, <2>2, FbAssumption, Zenon
  <2>4. ASSUME NEW o \in fbOwn', o.src = b.src
        PROVE  \E x \in b.res : FbInstalled(o, x)'
    <3>1. PICK x \in b.res : o.res = x.res /\ o.ref = x.ref /\ o.id = FbPlannedId(b, x)
      BY <2>4, FbAllInPlace, Zenon
    <3>2. [id |-> o.id, kind |-> x.kind, port |-> x.port, val |-> x.val] \in fbRows'
      BY <3>1, FbAllInPlace, Zenon DEF FbNewRow
    <3>3. FbHasControl(o.id, x.ctl)'
      BY <3>1, FbControlsApplied, Zenon
    <3> QED BY <3>1, <3>2, <3>3, Zenon DEF FbInstalled
  <2>5. \A x \in b.res : \E o \in fbOwn' : o.src = b.src /\ o.res = x.res
    BY FbAllInPlace, Zenon
  <2> QED BY <1>1, <2>3, <2>4, <2>5, Zenon DEF FbIsApplied
<1>2. ASSUME NEW c \in FbBundles, c.src # b.src,
             fbState'[c.src] = [gen |-> c.gen, rev |-> c.rev]
      PROVE  FbIsApplied(c)'
  <2>1. c.src \in FbSources
    BY Zenon DEF FbSources
  <2>2. fbState[c.src] = [gen |-> c.gen, rev |-> c.rev]
    BY <1>2, <2>1, Zenon
  <2>3. FbIsApplied(c)
    BY <2>2, Zenon DEF FbApplied
  <2>4. ASSUME NEW o \in fbOwn', o.src = c.src
        PROVE  \E x \in c.res : FbInstalled(o, x)'
    <3>1. o \in fbOwn /\ FbKeeps(b, o.id)
      BY <1>2, <2>4, FbAllInPlace, Zenon
    <3>2. PICK x \in c.res : FbInstalled(o, x)
      BY <2>3, <2>4, <3>1, Zenon DEF FbIsApplied
    <3> DEFINE r == [id |-> o.id, kind |-> x.kind, port |-> x.port, val |-> x.val]
    <3>3. r \in fbRows /\ r.id = o.id
      BY <3>2, Zenon DEF FbInstalled
    <3> HIDE DEF r
    <3>4. r \in fbRows'
      BY <3>1, <3>3, Zenon DEF FbWritten
    <3>5. o.id \notin FbPlanIds(b)
      BY <1>2, <2>4, <3>1, Zenon DEF FbPlanSound, FbPlanIds
    <3>6. o.id \notin FbGoneIds(b)
      BY <1>0, <1>2, <2>4, <3>1, Zenon DEF FbOwnSound, FbGoneIds, FbObsolete, FbOwned
    <3>7. FbHasControl(o.id, x.ctl)
      BY <3>2, Zenon DEF FbInstalled
    <3>8. FbHasControl(o.id, x.ctl)'
      BY <3>5, <3>6, <3>7, FbControlsApplied, Zenon
    <3> QED BY <3>2, <3>4, <3>8, Zenon DEF FbInstalled, r
  <2>5. ASSUME NEW x \in c.res, x.ref = ""
        PROVE  \E o \in fbOwn' : o.src = c.src /\ o.res = x.res
    <3>1. PICK o \in fbOwn : o.src = c.src /\ o.res = x.res
      BY <2>3, <2>5, Zenon DEF FbIsApplied
    <3>2. o \in fbOwn'
      BY <1>2, <3>1, FbAllInPlace, Zenon
    <3> QED BY <3>1, <3>2, Zenon
  <2> QED BY <2>4, <2>5, Zenon DEF FbIsApplied
<1> QED BY <1>1, <1>2, Zenon DEF FbApplied

\* A step of handler h keeps what the others found, if it gives h a sound
\* request and neither takes their lock, nor a policy they write, nor the id of
\* one they insert.
LEMMA FbHandlersKept ==
    ASSUME FbHandlersSound, UNCHANGED fbPg, NEW h \in FbHandlers, NEW req,
           fbReq' = [fbReq EXCEPT ![h] = req],
           req.pc \in {"queued", "reconciled"} => req.b \in FbBundles,
           req.pc \in {"edit", "delete", "control"} =>
              fbLock' = h /\ \A o \in fbOwn' : o.id # req.id,
           req.pc = "insert" =>
              /\ ~fbPg /\ req.p \in FbLocal
              /\ \A r \in fbRows' : r.id # req.p.id
              /\ \A g \in FbHandlers : fbReq[g].pc # "insert",
           \A g \in FbHandlers \ {h} : fbReq[g].pc \in {"edit", "delete", "control"} =>
              fbLock' = g /\ \A o \in fbOwn' : o.id # fbReq[g].id,
           \A g \in FbHandlers \ {h} : fbReq[g].pc = "insert" =>
              \A r \in fbRows' : r.id # fbReq[g].p.id
    PROVE  FbHandlersSound'
<1>1. fbReq = [g \in FbHandlers |-> fbReq[g]]
    BY Zenon DEF FbHandlersSound
<1>2. /\ fbReq' = [g \in FbHandlers |-> fbReq'[g]] /\ fbReq'[h] = req
      /\ \A g \in FbHandlers \ {h} : fbReq'[g] = fbReq[g]
    BY <1>1, Zenon
<1>3. ASSUME NEW g \in FbHandlers
      PROVE  /\ fbReq'[g].pc \in {"queued", "reconciled"} => fbReq'[g].b \in FbBundles
             /\ fbReq'[g].pc \in {"edit", "delete", "control"} =>
                   fbLock' = g /\ \A o \in fbOwn' : o.id # fbReq'[g].id
             /\ fbReq'[g].pc = "insert" =>
                   /\ ~fbPg /\ fbReq'[g].p \in FbLocal
                   /\ \A r \in fbRows' : r.id # fbReq'[g].p.id
  <2>1. CASE g = h
    BY <1>2, <2>1, Zenon
  <2>2. CASE g # h
    BY <1>2, <2>2, Zenon DEF FbHandlersSound, FbManaged
  <2> QED BY <2>1, <2>2, Zenon
<1>4. \A f, g \in FbHandlers : fbReq'[f].pc = "insert" /\ fbReq'[g].pc = "insert" => f = g
    BY <1>2, Zenon DEF FbHandlersSound
<1> QED BY <1>2, <1>3, <1>4 DEF FbHandlersSound, FbManaged

\* the steps that leave the tables alone
LEMMA FbTablesKept ==
    ASSUME FbTables, FbApplied, UNCHANGED <<fbPg, fbDb>>
    PROVE  FbTables' /\ FbApplied'
<1>0. UNCHANGED <<fbPg, fbRows, fbCtl, fbOwn, fbBind, fbState>>
    BY Zenon DEF fbDb
<1>1. FbRowsSound' /\ FbOwnSound' /\ FbBindSound'
    BY <1>0, Zenon DEF FbTables, FbRowsSound, FbOwnSound, FbBindSound, FbManaged
<1>2. FbSharedDistinct'
    BY <1>0 DEF FbTables, FbSharedDistinct, FbDistinct
<1>3. FbApplied'
    BY <1>0, Zenon DEF FbApplied, FbIsApplied, FbInstalled, FbHasControl
<1> QED BY <1>1, <1>2, <1>3, Zenon DEF FbTables

\* An edit or a delete of a policy nobody owns.
LEMMA FbRowsTouched ==
    ASSUME FbTables, FbApplied, NEW i, ~FbManaged(i),
           UNCHANGED <<fbPg, fbCtl, fbOwn, fbBind, fbState>>,
           \A r \in fbRows' : FbIsRow(r) /\ \E q \in fbRows :
              q.id = r.id /\ q.kind = r.kind /\ q.port = r.port,
           \A r, q \in fbRows' : r.id = q.id => r = q,
           \A r \in fbRows : r.id # i => r \in fbRows'
    PROVE  FbTables' /\ FbApplied'
<1>0. FbRowsSound /\ FbOwnSound /\ FbBindSound /\ FbSharedDistinct
    BY Zenon DEF FbTables
<1>1. FbRowsSound'
  <2>1. ASSUME NEW r \in fbRows' PROVE r.id \in FbLocalIds \/ FbManaged(r.id)
    BY <1>0, Zenon DEF FbRowsSound
  <2> QED BY <2>1, Zenon DEF FbRowsSound, FbManaged
<1>2. FbOwnSound'
  <2>1. ASSUME NEW o \in fbOwn PROVE \E r \in fbRows' : r.id = o.id
    <3>1. PICK r \in fbRows : r.id = o.id
      BY <1>0, Zenon DEF FbOwnSound
    <3>2. o.id # i
      BY Zenon DEF FbManaged
    <3> QED BY <3>1, <3>2, Zenon
  <2> QED BY <1>0, <2>1, Zenon DEF FbOwnSound
<1>3. FbBindSound'
    BY <1>0, Zenon DEF FbBindSound
<1>4. FbSharedDistinct'
  <2> SUFFICES ASSUME fbPg, NEW r \in fbRows', NEW q \in fbRows', r # q
               PROVE  FbEndpoints(r.kind, r.port) \cap FbEndpoints(q.kind, q.port) = {}
    BY Zenon DEF FbSharedDistinct, FbDistinct
  <2>1. PICK s \in fbRows : s.id = r.id /\ s.kind = r.kind /\ s.port = r.port
    OBVIOUS
  <2>2. PICK u \in fbRows : u.id = q.id /\ u.kind = q.kind /\ u.port = q.port
    OBVIOUS
  <2>3. s # u
    BY <2>1, <2>2
  <2>4. FbEndpoints(s.kind, s.port) \cap FbEndpoints(u.kind, u.port) = {}
    BY <1>0, <2>3, Zenon DEF FbSharedDistinct, FbDistinct
  <2> QED BY <2>1, <2>2, <2>4, Zenon
<1>5. ASSUME NEW o \in fbOwn, NEW x, FbInstalled(o, x) PROVE FbInstalled(o, x)'
  <2> DEFINE r == [id |-> o.id, kind |-> x.kind, port |-> x.port, val |-> x.val]
  <2>1. r \in fbRows /\ r.id = o.id
    BY <1>5, Zenon DEF FbInstalled
  <2>2. o.id # i
    BY Zenon DEF FbManaged
  <2> HIDE DEF r
  <2>3. r \in fbRows'
    BY <2>1, <2>2, Zenon
  <2> QED BY <1>5, <2>3, Zenon DEF FbInstalled, FbHasControl, r
<1>6. FbApplied'
    BY <1>5, Zenon DEF FbApplied, FbIsApplied
<1> QED BY <1>1, <1>2, <1>3, <1>4, <1>6, Zenon DEF FbTables

\* A local policy whose id is new and, in PostgreSQL, whose endpoints are free.
LEMMA FbRowAdded ==
    ASSUME FbTables, FbApplied, NEW p \in FbLocal,
           UNCHANGED <<fbPg, fbCtl, fbOwn, fbBind, fbState>>,
           fbRows' = fbRows \cup {FbCreated(p)},
           \A r \in fbRows : r.id # p.id, fbPg => FbFree(p)
    PROVE  FbTables' /\ FbApplied'
<1>0. FbRowsSound /\ FbOwnSound /\ FbBindSound /\ FbSharedDistinct
    BY Zenon DEF FbTables
<1> DEFINE n == FbCreated(p)
<1>1. /\ FbIsRow(n) /\ n.id = p.id /\ n.kind = p.kind /\ n.port = p.port
      /\ n.id \in FbLocalIds
    BY Zenon DEF FbCreated, FbIsRow, FbLocalIds
<1> HIDE DEF n
<1>2. fbRows' = fbRows \cup {n}
    BY Zenon DEF n
<1>3. FbRowsSound'
    BY <1>0, <1>1, <1>2, Zenon DEF FbRowsSound, FbManaged
<1>4. FbOwnSound'
    BY <1>0, <1>2, Zenon DEF FbOwnSound
<1>5. FbBindSound'
    BY <1>0, Zenon DEF FbBindSound
<1>6. FbSharedDistinct'
  <2>1. ASSUME fbPg, NEW r \in fbRows
        PROVE  FbEndpoints(r.kind, r.port) \cap FbEndpoints(n.kind, n.port) = {}
    BY <1>1, <2>1, Zenon DEF FbFree
  <2> QED BY <1>0, <1>2, <2>1, Zenon DEF FbSharedDistinct, FbDistinct
<1>7. FbApplied'
    BY <1>2, Zenon DEF FbApplied, FbIsApplied, FbInstalled, FbHasControl
<1> QED BY <1>3, <1>4, <1>5, <1>6, <1>7, Zenon DEF FbTables

\* The other requests keep the invariant: a control on a policy nobody owns,
LEMMA FbControlTouched ==
    ASSUME FbTables, FbApplied, NEW i, ~FbManaged(i),
           UNCHANGED <<fbPg, fbRows, fbOwn, fbBind, fbState>>,
           fbCtl' = {c \in fbCtl : c.id # i} \cup {[id |-> i, ctl |-> 9]}
    PROVE  FbTables' /\ FbApplied'
<1>1. FbRowsSound' /\ FbOwnSound' /\ FbBindSound'
    BY Zenon DEF FbTables, FbRowsSound, FbOwnSound, FbBindSound, FbManaged
<1>2. FbSharedDistinct'
    BY Zenon DEF FbTables, FbSharedDistinct, FbDistinct
<1>3. ASSUME NEW o \in fbOwn, NEW x, FbInstalled(o, x) PROVE FbInstalled(o, x)'
  <2>1. o.id # i
    BY Zenon DEF FbManaged
  <2>2. {c \in fbCtl' : c.id = o.id} = {c \in fbCtl : c.id = o.id}
    BY <2>1
  <2> QED BY <1>3, <2>2, Zenon DEF FbInstalled, FbHasControl
<1>4. FbApplied'
    BY <1>3, Zenon DEF FbApplied, FbIsApplied
<1> QED BY <1>1, <1>2, <1>4, Zenon DEF FbTables

\* a binding of a policy nobody owns
LEMMA FbBindingAdded ==
    ASSUME FbTables, FbApplied, NEW h, NEW s, NEW k \in FbRefs, NEW id,
           FbBindCredential(h, s, k, id)
    PROVE  FbTables' /\ FbApplied'
<1>0. UNCHANGED <<fbPg, fbRows, fbCtl, fbOwn, fbState>>
    BY Zenon DEF FbBindCredential
<1>1. FbRowsSound' /\ FbOwnSound' /\ FbSharedDistinct'
    BY <1>0, Zenon DEF FbTables, FbRowsSound, FbOwnSound, FbSharedDistinct, FbDistinct, FbManaged
<1>2. FbApplied'
    BY <1>0, Zenon DEF FbApplied, FbIsApplied, FbInstalled, FbHasControl
<1> DEFINE n == [src |-> s, ref |-> k, id |-> id]
<1>3. n.src = s /\ n.ref = k /\ n.id = id
    OBVIOUS
<1>4. fbBind' = {e \in fbBind : ~(e.src = s /\ e.ref = k)} \cup {n}
    BY Zenon DEF FbBindCredential
<1> HIDE DEF n
<1>5. k # "" /\ ~FbManaged(id) /\ id \in FbLocalIds
    BY Zenon DEF FbBindCredential, FbTables, FbRowsSound, FbRow, FbRefs
<1>6. \A e \in fbBind : e.id = id => e.src = s /\ e.ref = k
    BY Zenon DEF FbBindCredential
<1>7. FbBindSound
    BY Zenon DEF FbTables
<1>8. FbBindSound'
  <2>1. \A e \in fbBind' : e.id \in FbLocalIds /\ e.ref # ""
    BY <1>3, <1>4, <1>5, <1>7, Zenon DEF FbBindSound
  <2>2. \A e, l \in fbBind' : e.id = l.id \/ (e.src = l.src /\ e.ref = l.ref) => e = l
    <3>1. \A e, l \in fbBind : e.id = l.id \/ (e.src = l.src /\ e.ref = l.ref) => e = l
      BY <1>7, Zenon DEF FbBindSound
    <3>2. \A e \in fbBind' : e = n \/ (e \in fbBind /\ ~(e.src = s /\ e.ref = k))
      BY <1>4, Zenon
    <3>3. \A e \in fbBind' : e = n \/ ~(e.id = n.id \/ (e.src = n.src /\ e.ref = n.ref))
      BY <1>3, <1>6, <3>2, Zenon
    <3> QED BY <3>1, <3>2, <3>3, Zenon
  <2>3. \A e \in fbBind', o \in fbOwn : o.id = e.id => o.src = e.src /\ o.ref = e.ref
    BY <1>3, <1>4, <1>5, <1>7, Zenon DEF FbBindSound, FbManaged
  <2> QED BY <1>0, <2>1, <2>2, <2>3, Zenon DEF FbBindSound
<1> QED BY <1>1, <1>2, <1>8, Zenon DEF FbTables

\* the loss of a binding, with what was owned through it
LEMMA FbBindingLost ==
    ASSUME FbTables, FbApplied, NEW h, NEW s, NEW k \in FbRefs, FbUnbind(h, s, k)
    PROVE  FbTables' /\ FbApplied' /\ fbOwn' \subseteq fbOwn
<1>0. UNCHANGED <<fbPg, fbRows, fbCtl, fbState>>
    BY Zenon DEF FbUnbind
<1>1. PICK e \in fbBind :
         /\ fbBind' = fbBind \ {e}
         /\ fbOwn' = {o \in fbOwn : ~(o.src = s /\ o.id = e.id /\ o.ref = k)}
    BY Zenon DEF FbUnbind
<1>2. k # "" /\ fbOwn' \subseteq fbOwn
    BY <1>1, Zenon DEF FbRefs
<1>3. FbRowsSound /\ FbOwnSound /\ FbBindSound /\ FbSharedDistinct
    BY Zenon DEF FbTables
<1>4. ASSUME NEW o \in fbOwn, o \notin fbOwn' PROVE o.ref # "" /\ o.id \in FbLocalIds
    BY <1>1, <1>2, <1>3, <1>4, Zenon DEF FbOwnSound
<1>5. FbRowsSound'
  <2>1. ASSUME NEW r \in fbRows PROVE r.id \in FbLocalIds \/ FbManaged(r.id)'
    BY <1>3, <1>4, Zenon DEF FbRowsSound, FbManaged
  <2> QED BY <1>0, <1>3, <2>1, Zenon DEF FbRowsSound
<1>6. FbOwnSound' /\ FbBindSound'
  <2>1. \A o \in fbOwn' : o \in fbOwn
    BY <1>2, Zenon
  <2>2. \A l \in fbBind' : l \in fbBind
    BY <1>1, Zenon
  <2>3. FbOwnSound'
    BY <1>0, <1>3, <2>1, Zenon DEF FbOwnSound
  <2>4. FbBindSound'
    BY <1>3, <2>1, <2>2, Zenon DEF FbBindSound
  <2> QED BY <2>3, <2>4, Zenon
<1>7. FbSharedDistinct'
    BY <1>0, <1>3, Zenon DEF FbSharedDistinct, FbDistinct
<1>8. ASSUME NEW b \in FbBundles, FbIsApplied(b) PROVE FbIsApplied(b)'
  <2>1. \A o, x : FbInstalled(o, x) => FbInstalled(o, x)'
    BY <1>0, Zenon DEF FbInstalled, FbHasControl
  <2>2. ASSUME NEW x \in b.res, x.ref = ""
        PROVE  \E o \in fbOwn' : o.src = b.src /\ o.res = x.res
    <3>1. PICK o \in fbOwn : o.src = b.src /\ o.res = x.res
      BY <1>8, <2>2, Zenon DEF FbIsApplied
    <3>2. PICK y \in b.res : FbInstalled(o, y)
      BY <1>8, <3>1, Zenon DEF FbIsApplied
    <3>3. y.res = o.res /\ y.ref = o.ref
      BY <3>2, Zenon DEF FbInstalled
    <3>4. FbValid(b)
      BY FbAssumption, Zenon
    <3>5. x = y
      BY <3>1, <3>3, <3>4, Zenon DEF FbValid
    <3> QED BY <1>4, <2>2, <3>1, <3>3, <3>5, Zenon
  <2> QED BY <1>2, <1>8, <2>1, <2>2, Zenon DEF FbIsApplied
<1>9. FbApplied'
    BY <1>0, <1>8, Zenon DEF FbApplied
<1> QED BY <1>2, <1>5, <1>6, <1>7, <1>9, Zenon DEF FbTables

\* the loss of a source's generation
LEMMA FbSourceReset ==
    ASSUME FbTables, FbApplied, fbState = [s \in FbSources |-> fbState[s]],
           NEW s \in FbSources, fbState' = [fbState EXCEPT ![s] = FbNoGen],
           UNCHANGED <<fbPg, fbRows, fbCtl, fbOwn, fbBind>>
    PROVE  FbTables' /\ FbApplied'
<1>1. FbRowsSound' /\ FbOwnSound' /\ FbBindSound'
    BY Zenon DEF FbTables, FbRowsSound, FbOwnSound, FbBindSound, FbManaged
<1>2. FbSharedDistinct'
    BY Zenon DEF FbTables, FbSharedDistinct, FbDistinct
<1>3. ASSUME NEW b \in FbBundles, fbState'[b.src] = [gen |-> b.gen, rev |-> b.rev]
      PROVE  FbIsApplied(b)'
  <2>1. b.gen # 0 /\ b.src \in FbSources
    BY FbAssumption, Zenon DEF FbValid, FbSources
  <2>2. b.src # s
    BY <1>3, <2>1, Zenon DEF FbNoGen
  <2>3. FbIsApplied(b)
    BY <1>3, <2>1, <2>2, Zenon DEF FbApplied
  <2> QED BY <2>3, Zenon DEF FbIsApplied, FbInstalled, FbHasControl
<1> QED BY <1>1, <1>2, <1>3, Zenon DEF FbTables, FbApplied

\* The transaction of a bundle.
LEMMA FbApplySound ==
    ASSUME FbIInv, UNCHANGED fbPg, NEW b \in FbBundles, FbConflicts(b) = {}, FbApply(b)
    PROVE  /\ FbTables' /\ FbApplied'
           /\ \A r \in fbRows' : r.id \in FbLocalIds => \E q \in fbRows : q.id = r.id
<1>1. FbTables /\ FbApplied
    BY Zenon DEF FbIInv
<1>2. FbPlanSound(b) /\ FbWritten(b)
    BY <1>1, FbPlanIsSound, FbWrites, Zenon
<1>3. FbRowsSound' /\ FbOwnSound' /\ FbBindSound'
    BY <1>1, <1>2, FbRowsApplied, FbOwnApplied, FbBindApplied, Zenon
<1>4. FbSharedDistinct'
  <2>1. ASSUME fbPg PROVE FbDistinct'
    BY <1>1, <1>2, <2>1, FbDistinctApplied, Zenon DEF FbTables, FbSharedDistinct
  <2> QED BY <2>1, Zenon DEF FbSharedDistinct
<1>5. FbApplied'
    BY <1>1, <1>2, FbAppliedApplied, Zenon DEF FbIInv, FbApply
<1>6. ASSUME NEW r \in fbRows', r.id \in FbLocalIds PROVE \E q \in fbRows : q.id = r.id
  <2>1. ASSUME NEW x \in FbToWrite(b), r = FbNewRow(b, x)
        PROVE  \E q \in fbRows : q.id = r.id
    <3>1. r.id = FbPlannedId(b, x) /\ x \in b.res
      BY <2>1, FbNewFields, Zenon DEF FbToWrite
    <3>2. x.ref # ""
      BY <1>2, <1>6, <3>1, Zenon DEF FbPlanSound
    <3>3. \E q \in fbRows : q.id = FbPlannedId(b, x)
      BY <1>2, <3>1, <3>2, Zenon DEF FbPlanSound
    <3> QED BY <3>1, <3>3, Zenon
  <2>2. r \in fbRows \/ \E x \in FbToWrite(b) : r = FbNewRow(b, x)
    BY <1>2, Zenon DEF FbWritten
  <2> QED BY <2>1, <2>2, Zenon
<1> QED BY <1>3, <1>4, <1>5, <1>6, Zenon DEF FbTables

\* a reconcile keeps the invariant, whether it applies its bundle or not
LEMMA FbReconcileStep ==
    ASSUME FbIInv, NEW h \in FbHandlers, FbReconcile(h)
    PROVE  FbIInv'
<1>0. FbTables /\ FbHandlersSound /\ FbApplied /\ fbState = [s \in FbSources |-> fbState[s]]
    BY Zenon DEF FbIInv
<1> DEFINE b == fbReq[h].b
           Req(out, found) == [pc |-> "reconciled", b |-> b, dry |-> fbReq[h].dry,
                               out |-> out, found |-> found]
<1>1. b \in FbBundles /\ fbLock = "" /\ UNCHANGED fbPg
    BY <1>0, Zenon DEF FbReconcile, FbHandlersSound
<1>2. \/ UNCHANGED fbDb
      \/ FbConflicts(b) = {} /\ FbApply(b)
    BY Zenon DEF FbReconcile
<1>3. \E out, found : fbReq' = [fbReq EXCEPT ![h] = Req(out, found)]
    BY Zenon DEF FbReconcile, FbGoto
<1> HIDE DEF b
<1>4. /\ FbTables' /\ FbApplied' /\ fbState' = [s \in FbSources |-> fbState'[s]]
      /\ \A r \in fbRows' : r.id \in FbLocalIds => \E q \in fbRows : q.id = r.id
  <2>1. CASE UNCHANGED fbDb
    <3>1. fbRows' = fbRows /\ fbState' = fbState
      BY <2>1, Zenon DEF fbDb
    <3>2. FbTables' /\ FbApplied'
      BY <1>0, <1>1, <2>1, FbTablesKept, Zenon
    <3>3. fbState' = [s \in FbSources |-> fbState'[s]]
      BY <1>0, <3>1, Zenon
    <3> QED BY <3>1, <3>2, <3>3, Zenon
  <2>2. CASE FbConflicts(b) = {} /\ FbApply(b)
    BY <1>0, <1>1, <2>2, FbApplySound, Zenon DEF FbApply
  <2> QED BY <1>2, <2>1, <2>2, Zenon
<1>5. PICK out, found : fbReq' = [fbReq EXCEPT ![h] = Req(out, found)]
    BY <1>3, Zenon
<1>6. Req(out, found).pc = "reconciled" /\ Req(out, found).b = b
    OBVIOUS
<1> HIDE DEF Req
<1>7. \A g \in FbHandlers : fbReq[g].pc \notin {"edit", "delete", "control"}
    BY <1>0, <1>1, FbAssumption, Zenon DEF FbHandlersSound
<1>8. ASSUME NEW g \in FbHandlers, fbReq[g].pc = "insert", NEW r \in fbRows'
      PROVE  r.id # fbReq[g].p.id
    BY <1>0, <1>4, <1>8 DEF FbHandlersSound, FbLocalIds
<1>9. FbHandlersSound'
    BY <1>0, <1>1, <1>5, <1>6, <1>7, <1>8, FbHandlersKept, Zenon
<1> QED BY <1>4, <1>9, Zenon DEF FbIInv

\* a step of h that leaves the tables alone, or changes them soundly without
\* taking a policy from another handler
LEMMA FbLocalStep ==
    ASSUME FbIInv, UNCHANGED fbPg, NEW h \in FbHandlers, NEW req,
           fbReq' = [fbReq EXCEPT ![h] = req],
           FbTables', FbApplied', fbState' = [s \in FbSources |-> fbState'[s]],
           fbOwn' \subseteq fbOwn,
           fbLock' = fbLock \/ (fbLock \in {"", h} /\ fbLock' \in {"", h}),
           req.pc \in {"queued", "reconciled"} => req.b \in FbBundles,
           req.pc \in {"edit", "delete", "control"} => fbLock' = h /\ ~FbManaged(req.id),
           req.pc = "insert" =>
              /\ ~fbPg /\ req.p \in FbLocal
              /\ \A r \in fbRows' : r.id # req.p.id
              /\ \A g \in FbHandlers : fbReq[g].pc # "insert",
           \A r \in fbRows' :
              \/ \E q \in fbRows : q.id = r.id
              \/ \A g \in FbHandlers \ {h} : fbReq[g].pc # "insert"
    PROVE  FbIInv'
<1>0. FbHandlersSound
    BY Zenon DEF FbIInv
<1>1. ASSUME NEW g \in FbHandlers \ {h}, fbReq[g].pc \in {"edit", "delete", "control"}
      PROVE  fbLock' = g /\ \A o \in fbOwn' : o.id # fbReq[g].id
    BY <1>0, <1>1, FbAssumption, Zenon DEF FbHandlersSound, FbManaged
<1>2. ASSUME NEW g \in FbHandlers \ {h}, fbReq[g].pc = "insert", NEW r \in fbRows'
      PROVE  r.id # fbReq[g].p.id
  <2>1. PICK q \in fbRows : q.id = r.id
    BY <1>2, Zenon
  <2>2. \A s \in fbRows : s.id # fbReq[g].p.id
    BY <1>0, <1>2, Zenon DEF FbHandlersSound
  <2> QED BY <2>1, <2>2, Zenon
<1>3. req.pc \in {"edit", "delete", "control"} =>
         fbLock' = h /\ \A o \in fbOwn' : o.id # req.id
    BY Zenon DEF FbManaged
<1>4. FbHandlersSound'
    BY <1>0, <1>1, <1>2, <1>3, FbHandlersKept, Zenon
<1> QED BY <1>4, Zenon DEF FbIInv

\* a handler without a request
LEMMA FbIdleFields ==
    FbIdle.pc = "idle"
BY Zenon DEF FbIdle

\* the requests that leave the tables alone
LEMMA FbQuietStep ==
    ASSUME FbIInv, NEW h \in FbHandlers,
           \/ \E b \in FbBundles : \E dry, exp : FbSubmit(h, b, dry, exp)
           \/ FbReport(h)
           \/ \E id, op : op \in {"edit", "delete", "control"} /\ FbCheckOwnership(h, id, op)
           \/ \E p \in FbLocal : FbCreateCheck(h, p)
           \/ FbToggleClient(h)
    PROVE  FbIInv'
<1>0. FbTables /\ FbHandlersSound /\ FbApplied /\ fbState = [s \in FbSources |-> fbState[s]]
    BY Zenon DEF FbIInv
<1>1. UNCHANGED <<fbPg, fbDb>>
    BY Zenon DEF FbSubmit, FbReport, FbCheckOwnership, FbCreateCheck, FbToggleClient
<1>2. fbPg' = fbPg /\ fbRows' = fbRows /\ fbOwn' = fbOwn /\ fbState' = fbState
    BY <1>1, Zenon DEF fbDb
<1>3. FbTables' /\ FbApplied'
    BY <1>0, <1>1, FbTablesKept, Zenon
<1>4. \E req :
         /\ fbReq' = [fbReq EXCEPT ![h] = req]
         /\ req.pc \in {"queued", "reconciled"} => req.b \in FbBundles
         /\ req.pc \in {"edit", "delete", "control"} => fbLock' = h /\ ~FbManaged(req.id)
         /\ req.pc = "insert" =>
               /\ ~fbPg /\ req.p \in FbLocal
               /\ \A r \in fbRows : r.id # req.p.id
               /\ \A g \in FbHandlers : fbReq[g].pc # "insert"
  <2> DEFINE Sound(req) ==
         /\ fbReq' = [fbReq EXCEPT ![h] = req]
         /\ req.pc \in {"queued", "reconciled"} => req.b \in FbBundles
         /\ req.pc \in {"edit", "delete", "control"} => fbLock' = h /\ ~FbManaged(req.id)
         /\ req.pc = "insert" =>
               /\ ~fbPg /\ req.p \in FbLocal
               /\ \A r \in fbRows : r.id # req.p.id
               /\ \A g \in FbHandlers : fbReq[g].pc # "insert"
  <2>0. ASSUME fbReq' = [fbReq EXCEPT ![h] = FbIdle] PROVE Sound(FbIdle)
    BY <2>0, FbIdleFields, Zenon
  <2>1. ASSUME NEW b \in FbBundles, NEW dry, NEW exp, FbSubmit(h, b, dry, exp)
        PROVE  \E req : Sound(req)
    <3> DEFINE q == [pc |-> "queued", b |-> b, dry |-> dry, exp |-> exp]
    <3>1. fbReq' = [fbReq EXCEPT ![h] = FbIdle] \/ fbReq' = [fbReq EXCEPT ![h] = q]
      BY <2>1, Zenon DEF FbSubmit, FbStart
    <3>2. q.pc = "queued" /\ q.b \in FbBundles
      OBVIOUS
    <3> HIDE DEF q
    <3>3. fbReq' = [fbReq EXCEPT ![h] = q] => Sound(q)
      BY <3>2, Zenon
    <3> QED BY <2>0, <3>1, <3>3, Zenon
  <2>2. ASSUME NEW id, NEW op \in {"edit", "delete", "control"},
               FbCheckOwnership(h, id, op)
        PROVE  \E req : Sound(req)
    <3> DEFINE q == [pc |-> op, id |-> id]
    <3>1. \/ fbReq' = [fbReq EXCEPT ![h] = FbIdle]
          \/ fbReq' = [fbReq EXCEPT ![h] = q] /\ fbLock' = h /\ ~FbManaged(id)
      BY <2>2, Zenon DEF FbCheckOwnership, FbStart
    <3>2. q.pc = op /\ q.id = id
      OBVIOUS
    <3> HIDE DEF q
    <3>3. fbReq' = [fbReq EXCEPT ![h] = q] /\ fbLock' = h /\ ~FbManaged(id) => Sound(q)
      BY <3>2, Zenon
    <3> QED BY <2>0, <3>1, <3>3, Zenon
  <2>3. ASSUME NEW p \in FbLocal, FbCreateCheck(h, p)
        PROVE  \E req : Sound(req)
    <3> DEFINE q == [pc |-> "insert", p |-> p]
    <3>1. fbReq' = [fbReq EXCEPT ![h] = FbIdle] \/ fbReq' = [fbReq EXCEPT ![h] = q]
      BY <2>3, Zenon DEF FbCreateCheck, FbStart
    <3>2. q.pc = "insert" /\ q.p = p
      OBVIOUS
    <3>3. /\ ~fbPg /\ \A r \in fbRows : r.id # p.id
          /\ \A g \in FbHandlers : fbReq[g].pc # "insert"
      BY <2>3, Zenon DEF FbCreateCheck, FbRow
    <3> HIDE DEF q
    <3>4. fbReq' = [fbReq EXCEPT ![h] = q] => Sound(q)
      BY <3>2, <3>3, Zenon
    <3> QED BY <2>0, <3>1, <3>4, Zenon
  <2>4. ASSUME FbReport(h) \/ FbToggleClient(h) PROVE Sound(FbIdle)
    BY <2>0, <2>4, Zenon DEF FbReport, FbGoto, FbToggleClient, FbStart
  <2> HIDE DEF Sound
  <2>5. \E req : Sound(req)
    BY <2>1, <2>2, <2>3, <2>4, Zenon
  <2> QED BY <2>5, Zenon DEF Sound
<1>5. fbLock' = fbLock \/ (fbLock \in {"", h} /\ fbLock' \in {"", h})
    BY Zenon DEF FbSubmit, FbReport, FbUnlock, FbCheckOwnership, FbCreateCheck, FbToggleClient
<1> QED BY <1>0, <1>2, <1>3, <1>4, <1>5, FbLocalStep, Zenon

\* the requests that write
LEMMA FbWritingStep ==
    ASSUME FbIInv, NEW h \in FbHandlers,
           \/ FbEdit(h) \/ FbDelete(h) \/ FbControl(h)
           \/ \E p \in FbLocal : FbCreateShared(h, p)
           \/ FbCreateInsert(h)
           \/ \E s, k, id : k \in FbRefs /\ FbBindCredential(h, s, k, id)
           \/ \E s, k : k \in FbRefs /\ FbUnbind(h, s, k)
           \/ \E s \in FbSources : FbResetSource(h, s)
    PROVE  FbIInv'
<1>0. FbTables /\ FbHandlersSound /\ FbApplied /\ fbState = [s \in FbSources |-> fbState[s]]
    BY Zenon DEF FbIInv
<1> DEFINE Ids == \A r \in fbRows' : \/ \E q \in fbRows : q.id = r.id
                                    \/ \A g \in FbHandlers \ {h} : fbReq[g].pc # "insert"
           Done == /\ FbTables' /\ FbApplied' /\ Ids
                   /\ fbPg' = fbPg /\ fbOwn' \subseteq fbOwn
                   /\ fbState' = [s \in FbSources |-> fbState'[s]]
                   /\ fbReq' = [fbReq EXCEPT ![h] = FbIdle]
                   /\ fbLock' = fbLock \/ (fbLock \in {"", h} /\ fbLock' \in {"", h})
<1>1. ASSUME FbEdit(h) PROVE Done
  <2> DEFINE i == fbReq[h].id
  <2>1. ~FbManaged(i)
    BY <1>0, <1>1, Zenon DEF FbEdit, FbHandlersSound
  <2>2. UNCHANGED <<fbPg, fbCtl, fbOwn, fbBind, fbState>>
    BY <1>1, Zenon DEF FbEdit
  <2>3. PICK v : fbRows' = {r \in fbRows : r.id # i} \cup {[r EXCEPT !.val = v] : r \in FbRow(i)}
    BY <1>1, <2>1, Zenon DEF FbEdit
  <2> HIDE DEF i
  <2>4. \A r \in fbRows : FbIsRow(r)
    BY <1>0, Zenon DEF FbTables, FbRowsSound
  <2>5. ASSUME NEW r \in fbRows
        PROVE  /\ FbIsRow([r EXCEPT !.val = v]) /\ [r EXCEPT !.val = v].id = r.id
               /\ [r EXCEPT !.val = v].kind = r.kind /\ [r EXCEPT !.val = v].port = r.port
    <3>1. r = [id |-> r.id, kind |-> r.kind, port |-> r.port, val |-> r.val]
      BY <2>4, Zenon DEF FbIsRow
    <3> QED BY <3>1 DEF FbIsRow
  <2>7. \A r \in fbRows' : \/ r \in fbRows /\ r.id # i
                           \/ \E q \in fbRows : q.id = i /\ r = [q EXCEPT !.val = v]
    BY <2>3, Zenon DEF FbRow
  <2>6. ASSUME NEW r \in fbRows'
        PROVE  FbIsRow(r) /\ \E q \in fbRows :
                  q.id = r.id /\ q.kind = r.kind /\ q.port = r.port
    <3>1. CASE r \in fbRows
      BY <2>4, <3>1, Zenon
    <3>2. CASE \E q \in fbRows : r = [q EXCEPT !.val = v]
      <4>1. PICK q \in fbRows : r = [q EXCEPT !.val = v]
        BY <3>2, Zenon
      <4>2. FbIsRow(r) /\ r.id = q.id /\ r.kind = q.kind /\ r.port = q.port
        BY <2>5, <4>1, Zenon
      <4> QED BY <4>2, Zenon
    <3> QED BY <2>7, <3>1, <3>2, Zenon
  <2>8. ASSUME NEW r \in fbRows', NEW q \in fbRows', r.id = q.id PROVE r = q
    <3>1. CASE r.id # i
      <4>0. \A u \in fbRows : [u EXCEPT !.val = v].id = u.id
        BY <2>5, Zenon
      <4>1. \A s \in fbRows' : s.id # i => s \in fbRows
        BY <2>7, <4>0, Zenon
      <4> QED BY <1>0, <2>8, <3>1, <4>1, Zenon DEF FbTables, FbRowsSound
    <3>2. CASE r.id = i
      <4>1. PICK s \in fbRows : s.id = i /\ r = [s EXCEPT !.val = v]
        BY <2>7, <3>2, Zenon
      <4>2. PICK u \in fbRows : u.id = i /\ q = [u EXCEPT !.val = v]
        BY <2>7, <2>8, <3>2, Zenon
      <4>3. s = u
        BY <1>0, <4>1, <4>2, Zenon DEF FbTables, FbRowsSound
      <4> QED BY <4>1, <4>2, <4>3, Zenon
    <3> QED BY <3>1, <3>2, Zenon
  <2>9. \A r \in fbRows : r.id # i => r \in fbRows'
    BY <2>3, Zenon
  <2>10. FbTables' /\ FbApplied'
    BY <1>0, <2>1, <2>2, <2>6, <2>8, <2>9, FbRowsTouched, Zenon
  <2> QED BY <1>0, <1>1, <2>2, <2>6, <2>10, Zenon DEF FbEdit, FbUnlock, FbGoto
<1>2. ASSUME FbDelete(h) PROVE Done
  <2> DEFINE i == fbReq[h].id
  <2>1. ~FbManaged(i)
    BY <1>0, <1>2, Zenon DEF FbDelete, FbHandlersSound
  <2>2. UNCHANGED <<fbPg, fbCtl, fbOwn, fbBind, fbState>>
    BY <1>2, Zenon DEF FbDelete
  <2>3. fbRows' = {r \in fbRows : r.id # i}
    BY <1>2, <2>1, Zenon DEF FbDelete
  <2> HIDE DEF i
  <2>4. FbTables' /\ FbApplied'
    BY <1>0, <2>1, <2>2, <2>3, FbRowsTouched, Zenon DEF FbTables, FbRowsSound
  <2> QED BY <1>0, <1>2, <2>2, <2>3, <2>4, Zenon DEF FbDelete, FbUnlock, FbGoto
<1>3. ASSUME FbControl(h) PROVE Done
  <2> DEFINE i == fbReq[h].id
  <2>1. ~FbManaged(i)
    BY <1>0, <1>3, Zenon DEF FbControl, FbHandlersSound
  <2>2. UNCHANGED <<fbPg, fbRows, fbOwn, fbBind, fbState>>
    BY <1>3, Zenon DEF FbControl
  <2>3. fbCtl' = {c \in fbCtl : c.id # i} \cup {[id |-> i, ctl |-> 9]}
    BY <1>3, <2>1, Zenon DEF FbControl
  <2> HIDE DEF i
  <2>4. FbTables' /\ FbApplied'
    BY <1>0, <2>1, <2>2, <2>3, FbControlTouched, Zenon
  <2> QED BY <1>0, <1>3, <2>2, <2>4, Zenon DEF FbControl, FbUnlock, FbGoto
<1>4. ASSUME NEW p \in FbLocal, FbCreateShared(h, p) PROVE Done
  <2>1. /\ UNCHANGED <<fbPg, fbCtl, fbOwn, fbBind, fbState, fbLock>>
        /\ fbPg /\ fbReq' = [fbReq EXCEPT ![h] = FbIdle]
        /\ \A r \in fbRows : r.id # p.id
    BY <1>4, Zenon DEF FbCreateShared, FbStart, FbRow
  <2>2. \/ fbRows' = fbRows
        \/ FbFree(p) /\ fbRows' = fbRows \cup {FbCreated(p)}
    BY <1>4, Zenon DEF FbCreateShared
  <2>3. FbTables' /\ FbApplied'
    BY <1>0, <2>1, <2>2, FbRowAdded, FbTablesKept, Zenon DEF fbDb
  <2>4. Ids
    BY <1>0, <2>1, Zenon DEF FbHandlersSound
  <2> QED BY <1>0, <2>1, <2>3, <2>4, Zenon
<1>5. ASSUME FbCreateInsert(h) PROVE Done
  <2> DEFINE p == fbReq[h].p
  <2>1. /\ UNCHANGED <<fbPg, fbCtl, fbOwn, fbBind, fbState, fbLock>>
        /\ fbReq' = [fbReq EXCEPT ![h] = FbIdle]
        /\ fbRows' = fbRows \/ fbRows' = fbRows \cup {FbCreated(p)}
    BY <1>5, Zenon DEF FbCreateInsert, FbGoto
  <2>2. p \in FbLocal /\ ~fbPg /\ \A r \in fbRows : r.id # p.id
    BY <1>0, <1>5, Zenon DEF FbCreateInsert, FbHandlersSound
  <2> HIDE DEF p
  <2>3. FbTables' /\ FbApplied'
    BY <1>0, <2>1, <2>2, FbRowAdded, FbTablesKept, Zenon DEF fbDb
  <2>4. Ids
    BY <1>0, <1>5, Zenon DEF FbHandlersSound, FbCreateInsert
  <2> QED BY <1>0, <2>1, <2>3, <2>4, Zenon
<1>6. ASSUME NEW s, NEW k \in FbRefs, NEW id, FbBindCredential(h, s, k, id) PROVE Done
  <2>1. FbTables' /\ FbApplied'
    BY <1>0, <1>6, FbBindingAdded, Zenon
  <2> QED BY <1>0, <1>6, <2>1, Zenon DEF FbBindCredential, FbStart
<1>7. ASSUME NEW s, NEW k \in FbRefs, FbUnbind(h, s, k) PROVE Done
  <2>1. FbTables' /\ FbApplied' /\ fbOwn' \subseteq fbOwn
    BY <1>0, <1>7, FbBindingLost, Zenon
  <2> QED BY <1>0, <1>7, <2>1, Zenon DEF FbUnbind, FbStart
<1>8. ASSUME NEW s \in FbSources, FbResetSource(h, s) PROVE Done
  <2>1. FbTables' /\ FbApplied'
    BY <1>0, <1>8, FbSourceReset, Zenon DEF FbResetSource
  <2>2. fbState' = [t \in FbSources |-> fbState'[t]]
    BY <1>0, <1>8, Zenon DEF FbResetSource
  <2> QED BY <1>8, <2>1, <2>2, Zenon DEF FbResetSource, FbStart
<1>9. Done
    BY <1>1, <1>2, <1>3, <1>4, <1>5, <1>6, <1>7, <1>8, Zenon
<1> QED BY <1>9, FbLocalStep, FbIdleFields, Zenon

\* a restart forgets requests and the lock, and no table
LEMMA FbRestartStep ==
    ASSUME FbIInv, FbRestart
    PROVE  FbIInv'
<1>1. UNCHANGED <<fbPg, fbDb>> /\ fbState' = fbState
    BY Zenon DEF FbRestart, fbDb
<1>2. FbTables' /\ FbApplied'
    BY <1>1, FbTablesKept, Zenon DEF FbIInv
<1>3. fbReq' = [h \in FbHandlers |-> FbIdle] /\ \A h \in FbHandlers : fbReq'[h] = FbIdle
    BY Zenon DEF FbRestart
<1>4. FbHandlersSound'
    BY <1>3, FbIdleFields, Zenon DEF FbHandlersSound
<1> QED BY <1>1, <1>2, <1>4, Zenon DEF FbIInv

\* the invariant holds in an empty database
LEMMA FbInitSound ==
    ASSUME FbInit
    PROVE  FbIInv
<1>1. FbTables
    BY Zenon DEF FbInit, FbTables, FbRowsSound, FbOwnSound, FbBindSound, FbSharedDistinct, FbDistinct
<1>2. FbHandlersSound
    BY FbIdleFields, Zenon DEF FbInit, FbHandlersSound
<1>3. ASSUME NEW b \in FbBundles PROVE fbState[b.src] # [gen |-> b.gen, rev |-> b.rev]
  <2>1. b.gen # 0 /\ b.src \in FbSources
    BY FbAssumption, Zenon DEF FbValid, FbSources
  <2> QED BY <2>1, Zenon DEF FbInit, FbNoGen
<1>4. FbApplied
    BY <1>3, Zenon DEF FbApplied
<1>5. fbState = [s \in FbSources |-> fbState[s]]
    BY Zenon DEF FbInit
<1> QED BY <1>1, <1>2, <1>4, <1>5, Zenon DEF FbIInv

\* In every interleaving of bundles from several sources with local creates,
\* edits, deletes, controls, bindings, resets and restarts, a source owns exactly
\* what its recorded generation says, and in PostgreSQL no public endpoint is
\* claimed by two policies: enforce_fleet_ownership keeps the lock for the handler
\* it lets through, and reconcile plans and writes under that lock.
THEOREM OwnershipExact == FbSpec => []FbOwnershipExact
<1>1. FbInit => FbIInv
    BY FbInitSound, Zenon
<1>2. FbIInv /\ [FbNext]_fbVars => FbIInv'
  <2> SUFFICES ASSUME FbIInv, [FbNext]_fbVars PROVE FbIInv'
    OBVIOUS
  <2>1. CASE UNCHANGED fbVars
    <3>1. UNCHANGED <<fbPg, fbDb>> /\ fbState' = fbState /\ fbReq' = fbReq
          /\ fbLock' = fbLock /\ fbRows' = fbRows /\ fbOwn' = fbOwn
      BY <2>1, Zenon DEF fbVars, fbDb
    <3>2. FbTables' /\ FbApplied'
      BY <3>1, FbTablesKept, Zenon DEF FbIInv
    <3>3. FbHandlersSound'
      BY <3>1, Zenon DEF FbIInv, FbHandlersSound, FbManaged
    <3> QED BY <3>1, <3>2, <3>3, Zenon DEF FbIInv
  <2>2. ASSUME NEW h \in FbHandlers, FbHandlerStep(h) PROVE FbIInv'
    BY <2>2, FbReconcileStep, FbQuietStep, FbWritingStep, Zenon DEF FbHandlerStep
  <2> QED BY <2>1, <2>2, FbRestartStep, Zenon DEF FbNext
<1>3. FbIInv => FbOwnershipExact
  <2> SUFFICES ASSUME FbIInv PROVE FbOwnershipExact
    OBVIOUS
  <2>1. ASSUME NEW b \in FbBundles, FbIsApplied(b)
        PROVE  /\ \A o \in FbOwned(b.src) : \E x \in b.res :
                     /\ x.res = o.res
                     /\ [id |-> o.id, kind |-> x.kind, port |-> x.port, val |-> x.val]
                          \in fbRows
                     /\ {c.ctl : c \in {c \in fbCtl : c.id = o.id}} = {x.ctl} \ {0}
               /\ \A x \in b.res : x.ref = "" => FbOldOf(b.src, x) # {}
    BY <2>1, Zenon DEF FbIsApplied, FbInstalled, FbHasControl, FbOwned, FbOldOf
  <2>2. FbAppliedExactly
    BY <2>1, Zenon DEF FbIInv, FbApplied, FbAppliedExactly
  <2> QED BY <2>2, Zenon DEF FbIInv, FbTables, FbOwnershipExact
<1> QED BY <1>1, <1>2, <1>3, PTL DEF FbSpec

-----------------------------------------------------------------------------
(* Servers that push their policies to each other *)

FsPolicy == [name : FsPorts, port : FsPorts, owner : FsServers \cup {""}]

\* The types of the state and of the requests under way.
FsRequest(m) ==
    /\ m.to \in FsServers /\ m.b.from \in FsServers
    /\ m.b.gen \in Nat /\ m.b.ver \in Nat
    /\ m.b.v1 \subseteq FsPolicy /\ m.b.v2 \subseteq FsPolicy

FsTyped ==
    /\ fsPol \in [FsServers -> SUBSET FsPolicy]
    /\ fsGen \in [FsServers -> Nat] /\ fsVer \in [FsServers -> Nat]
    /\ fsState \in [FsServers -> [FsServers -> Nat]]
    /\ fsHas \in [FsServers -> [FsServers -> Nat]]
    /\ \A m \in fsNet : FsRequest(m)

\* A snapshot holds no more changes than its sender has made, and one that
\* holds all of them is what the sender manages now.
FsSnapshot(m) ==
    m.v2 => /\ m.b.gen <= fsGen[m.b.from]
            /\ m.b.ver <= fsVer[m.b.from]
            /\ m.b.ver = fsVer[m.b.from] => m.b.v2 = FsLocal(m.b.from)

\* A later generation holds no fewer changes.
FsOrdered(m, k) ==
    m.v2 /\ k.v2 /\ m.b.from = k.b.from /\ m.b.gen <= k.b.gen => m.b.ver <= k.b.ver

\* What a request would install is no older than what was installed, unless
\* it is stale.
FsNewer(m) ==
    m.v2 /\ ~FsStale(m) => fsHas[m.to][m.b.from] <= m.b.ver

\* The inductive invariant of the exchange.
FsReplica(n, m) ==
    /\ fsHas[n][m] <= fsVer[m]
    /\ n # m /\ fsHas[n][m] = fsVer[m] => FsManaged(n, m) = FsOwnedBy(m, FsLocal(m))
FsIInv ==
    /\ FsTyped
    /\ \A m \in fsNet : FsSnapshot(m) /\ FsNewer(m)
    /\ \A m, k \in fsNet : FsOrdered(m, k)
    /\ \A n, m \in FsServers : FsReplica(n, m)

\* A policy set of one server changes only in what it manages itself, and the
\* change is counted.
LEMMA FsLocalChange ==
    ASSUME FsIInv, NEW n \in FsServers, NEW S \in SUBSET FsPolicy,
           \A r \in FsPolicy : r.owner # "" => (r \in S <=> r \in fsPol[n]),
           fsPol' = [fsPol EXCEPT ![n] = S],
           fsVer' = [fsVer EXCEPT ![n] = @ + 1],
           UNCHANGED <<fsGen, fsState, fsNet, fsHas>>
    PROVE  FsIInv'
<1>1. FsTyped'
  <2>0. fsVer[n] \in Nat
    BY Zenon DEF FsIInv, FsTyped
  <2>1. fsVer[n] + 1 \in Nat
    BY ONLY <2>0, SMT
  <2>2. fsVer' \in [FsServers -> Nat] /\ fsPol' \in [FsServers -> SUBSET FsPolicy]
    BY <2>1, Zenon DEF FsIInv, FsTyped
  <2> QED BY <2>2, Zenon DEF FsIInv, FsTyped, FsRequest
<1>2. ASSUME NEW m \in FsServers, m # n
      PROVE  FsLocal(m)' = FsLocal(m) /\ fsVer'[m] = fsVer[m]
    BY <1>2, Zenon DEF FsIInv, FsTyped, FsLocal, FsManaged
<1>3. fsVer'[n] = fsVer[n] + 1 /\ \A m \in FsServers : fsVer[m] \in Nat
    BY Zenon DEF FsIInv, FsTyped
<1>4. ASSUME NEW m \in fsNet PROVE FsSnapshot(m)'
  <2>1. FsSnapshot(m) /\ FsRequest(m)
    BY Zenon DEF FsIInv, FsTyped
  <2>2. CASE m.b.from = n
    <3>1. m.v2 => m.b.gen <= fsGen[n] /\ m.b.ver <= fsVer[n]
      BY <2>1, <2>2, Zenon DEF FsSnapshot
    <3>2. m.b.ver \in Nat /\ fsVer[n] \in Nat
      BY <1>3, <2>1, Zenon DEF FsRequest
    <3>3. m.b.ver <= fsVer[n] => m.b.ver <= fsVer[n] + 1 /\ m.b.ver # fsVer[n] + 1
      BY ONLY <3>2, SMT
    <3> QED BY <1>3, <2>2, <3>1, <3>3, Zenon DEF FsSnapshot
  <2>3. CASE m.b.from # n
    BY <1>2, <2>1, <2>3, Zenon DEF FsSnapshot, FsRequest
  <2> QED BY <2>2, <2>3
<1>5. ASSUME NEW a \in FsServers, NEW m \in FsServers PROVE FsReplica(a, m)'
  <2>1. FsReplica(a, m) /\ fsHas[a][m] \in Nat
    BY Zenon DEF FsIInv, FsTyped
  <2>2. CASE m = n
    <3>1. fsHas[a][n] <= fsVer[n] /\ fsHas[a][n] \in Nat
      BY <2>1, <2>2, Zenon DEF FsReplica
    <3>2. fsHas[a][n] <= fsVer[n] + 1 /\ fsHas[a][n] # fsVer[n] + 1
      BY ONLY <1>3, <3>1, n \in FsServers, SMT
    <3> QED BY <1>3, <2>2, <3>2, Zenon DEF FsReplica
  <2>3. CASE m # n
    <3>1. FsManaged(a, m)' = FsManaged(a, m)
      <4>1. m # ""
        BY FsAssumption, Zenon
      <4>2. CASE a = n
        <5>1. fsPol'[n] = S /\ fsPol[n] \subseteq FsPolicy
          BY Zenon DEF FsIInv, FsTyped
        <5> QED BY <4>1, <4>2, <5>1, Zenon DEF FsManaged
      <4>3. CASE a # n
        BY <4>3, Zenon DEF FsIInv, FsTyped, FsManaged
      <4> QED BY <4>2, <4>3
    <3> QED BY <1>2, <2>1, <2>3, <3>1, Zenon DEF FsReplica, FsOwnedBy
  <2> QED BY <2>2, <2>3
<1>6. \A m \in fsNet : FsNewer(m)'
    BY Zenon DEF FsIInv, FsNewer, FsStale
<1>7. \A m, k \in fsNet : FsOrdered(m, k)'
    BY Zenon DEF FsIInv, FsOrdered
<1> QED BY <1>1, <1>4, <1>5, <1>6, <1>7, Zenon DEF FsIInv

\* The requests under way may become fewer, or go on as v1 imports.
LEMMA FsNetChange ==
    ASSUME FsIInv, UNCHANGED <<fsPol, fsGen, fsState, fsVer, fsHas>>,
           \A m \in fsNet' : m \in fsNet \/ (FsRequest(m) /\ ~m.v2)
    PROVE  FsIInv'
<1>1. FsTyped'
    BY Zenon DEF FsIInv, FsTyped, FsRequest
<1>2. \A m \in fsNet' : FsSnapshot(m)' /\ FsNewer(m)'
    BY Zenon DEF FsIInv, FsSnapshot, FsNewer, FsStale, FsLocal, FsManaged
<1>3. \A m, k \in fsNet' : FsOrdered(m, k)'
    BY Zenon DEF FsIInv, FsOrdered
<1>4. \A n, m \in FsServers : FsReplica(n, m)'
    BY Zenon DEF FsIInv, FsReplica, FsLocal, FsManaged, FsOwnedBy
<1> QED BY <1>1, <1>2, <1>3, <1>4, Zenon DEF FsIInv

\* A snapshot carries the next generation and every change made so far.
LEMMA FsSyncStep ==
    ASSUME FsIInv, NEW n \in FsServers, FsSync(n)
    PROVE  FsIInv'
<1>1. /\ UNCHANGED <<fsPol, fsState, fsVer, fsHas>>
      /\ fsGen' = IF fsV2[n] THEN [fsGen EXCEPT ![n] = @ + 1] ELSE fsGen
      /\ \A m \in fsNet' : m \in fsNet \/ \E k \in FsServers :
            m = [to |-> k, v2 |-> fsV2[n], b |-> FsBundle(n)]
    BY Zenon DEF FsSync
<1>2. ASSUME NEW m \in fsNet', m \notin fsNet
      PROVE  /\ m.to \in FsServers /\ m.v2 = fsV2[n] /\ m.b.from = n
             /\ m.b.gen = fsGen[n] + 1 /\ m.b.ver = fsVer[n]
             /\ m.b.v2 = FsLocal(n) /\ m.b.v1 = fsPol[n]
  <2>1. PICK k \in FsServers : m = [to |-> k, v2 |-> fsV2[n], b |-> FsBundle(n)]
    BY <1>1, <1>2, Zenon
  <2>2. m.to = k /\ m.v2 = fsV2[n] /\ m.b = FsBundle(n)
    BY <2>1, Zenon
  <2>3. /\ FsBundle(n).from = n /\ FsBundle(n).gen = fsGen[n] + 1
        /\ FsBundle(n).ver = fsVer[n]
        /\ FsBundle(n).v2 = FsLocal(n) /\ FsBundle(n).v1 = fsPol[n]
    BY Zenon DEF FsBundle, FsExported, FsLegacyExported
  <2> QED BY <2>2, <2>3, Zenon
<1>3. /\ fsGen[n] \in Nat /\ fsVer[n] \in Nat /\ fsGen[n] + 1 \in Nat
      /\ fsPol[n] \subseteq FsPolicy /\ FsLocal(n) \subseteq FsPolicy
  <2>1. fsGen[n] \in Nat /\ fsVer[n] \in Nat /\ fsPol[n] \subseteq FsPolicy
    BY Zenon DEF FsIInv, FsTyped
  <2>2. fsGen[n] + 1 \in Nat
    BY ONLY <2>1, SMT
  <2> QED BY <2>1, <2>2, Zenon DEF FsLocal, FsManaged
<1>4. \A m \in fsNet' : FsRequest(m)
    BY <1>2, <1>3, Zenon DEF FsRequest, FsIInv, FsTyped
<1>5. FsTyped'
  <2>1. fsGen' \in [FsServers -> Nat]
    BY <1>1, <1>3, Zenon DEF FsIInv, FsTyped
  <2> QED BY <1>1, <1>4, <2>1, Zenon DEF FsIInv, FsTyped, FsRequest
<1>6. CASE ~fsV2[n]
  <2>1. \A m \in fsNet' : m \in fsNet \/ (FsRequest(m) /\ ~m.v2)
    BY <1>2, <1>4, <1>6, Zenon
  <2> QED BY <1>1, <1>6, <2>1, FsNetChange, Zenon
<1>7. CASE fsV2[n]
  <2>1. fsGen' = [fsGen EXCEPT ![n] = fsGen[n] + 1]
    BY <1>1, <1>7, Zenon
  <2>2. fsGen'[n] = fsGen[n] + 1 /\ \A m \in FsServers : m # n => fsGen'[m] = fsGen[m]
    BY <2>1, Zenon DEF FsIInv, FsTyped
  <2>3. ASSUME NEW m \in fsNet PROVE FsSnapshot(m)' /\ FsNewer(m)'
    <3>1. FsSnapshot(m) /\ FsNewer(m) /\ FsRequest(m)
      BY Zenon DEF FsIInv, FsTyped
    <3>2. FsNewer(m)'
      BY <1>1, <3>1, Zenon DEF FsNewer, FsStale
    <3>3. m.v2 => m.b.gen <= fsGen'[m.b.from]
      <4>1. m.v2 => m.b.gen <= fsGen[m.b.from]
        BY <3>1, Zenon DEF FsSnapshot
      <4>2. m.b.gen \in Nat /\ m.b.from \in FsServers
        BY <3>1, Zenon DEF FsRequest
      <4>3. m.b.gen <= fsGen[n] => m.b.gen <= fsGen[n] + 1
        BY ONLY <1>3, <4>2, SMT
      <4> QED BY <2>2, <4>1, <4>2, <4>3, Zenon
    <3> QED BY <1>1, <3>1, <3>2, <3>3, Zenon DEF FsSnapshot, FsLocal, FsManaged
  <2>4. ASSUME NEW m \in fsNet', m \notin fsNet PROVE FsSnapshot(m)' /\ FsNewer(m)'
    <3>1. fsGen[n] + 1 <= fsGen[n] + 1 /\ fsVer[n] <= fsVer[n]
      BY ONLY <1>3, SMT
    <3>2. FsLocal(n)' = FsLocal(n)
      BY <1>1, Zenon DEF FsLocal, FsManaged
    <3>3. FsSnapshot(m)'
      BY <1>1, <1>2, <2>2, <2>4, <3>1, <3>2, Zenon DEF FsSnapshot
    <3>4. fsHas[m.to][n] <= fsVer[n]
      BY <1>2, <2>4, Zenon DEF FsIInv, FsReplica
    <3>5. FsNewer(m)'
      BY <1>1, <1>2, <2>4, <3>4, Zenon DEF FsNewer
    <3> QED BY <3>3, <3>5
  <2>5. ASSUME NEW m \in fsNet, NEW k \in fsNet', k \notin fsNet
        PROVE  FsOrdered(m, k) /\ FsOrdered(k, m)
    <3>1. FsSnapshot(m) /\ FsRequest(m)
      BY Zenon DEF FsIInv, FsTyped
    <3>2. m.b.gen \in Nat
      BY <3>1, Zenon DEF FsRequest
    <3>3. m.b.gen <= fsGen[n] => ~(fsGen[n] + 1 <= m.b.gen)
      BY ONLY <1>3, <3>2, SMT
    <3> QED BY <1>2, <2>5, <3>1, <3>3, Zenon DEF FsOrdered, FsSnapshot
  <2>6. ASSUME NEW m \in fsNet', NEW k \in fsNet', m \notin fsNet, k \notin fsNet
        PROVE  FsOrdered(m, k)
    <3>1. fsVer[n] <= fsVer[n]
      BY ONLY <1>3, SMT
    <3> QED BY <1>2, <2>6, <3>1, Zenon DEF FsOrdered
  <2>7. \A m \in fsNet' : FsSnapshot(m)' /\ FsNewer(m)'
    BY <2>3, <2>4, Zenon
  <2>8. \A m, k \in fsNet' : FsOrdered(m, k)'
    <3>1. \A m, k \in fsNet : FsOrdered(m, k)
      BY Zenon DEF FsIInv
    <3>2. \A m, k \in fsNet' : FsOrdered(m, k)
      BY <2>5, <2>6, <3>1, Zenon
    <3> QED BY <3>2, Zenon DEF FsOrdered
  <2>9. \A a, m \in FsServers : FsReplica(a, m)'
    BY <1>1, Zenon DEF FsIInv, FsReplica, FsLocal, FsManaged, FsOwnedBy
  <2> QED BY <1>5, <2>7, <2>8, <2>9, Zenon DEF FsIInv
<1> QED BY <1>6, <1>7

\* A reset leaves a replica of whatever age, which counts as none.
LEMMA FsResetStep ==
    ASSUME FsIInv, NEW n \in FsServers, NEW m \in FsServers, FsReset(n, m)
    PROVE  FsIInv'
<1>1. /\ fsState' = [fsState EXCEPT ![n][m] = 0]
      /\ fsHas' = [fsHas EXCEPT ![n][m] = 0]
      /\ UNCHANGED <<fsPol, fsGen, fsNet, fsVer>>
    BY Zenon DEF FsReset
<1>2. /\ fsHas'[n][m] = 0
      /\ \A a, b \in FsServers : a # n \/ b # m =>
            fsHas'[a][b] = fsHas[a][b] /\ fsState'[a][b] = fsState[a][b]
    BY <1>1, Zenon DEF FsIInv, FsTyped
<1>3. FsTyped'
    BY <1>1, SMT DEF FsIInv, FsTyped, FsRequest
<1>4. ASSUME NEW k \in fsNet PROVE FsSnapshot(k)' /\ FsNewer(k)'
  <2>1. FsSnapshot(k) /\ FsNewer(k) /\ FsRequest(k)
    BY Zenon DEF FsIInv, FsTyped
  <2>2. FsSnapshot(k)'
    BY <1>1, <2>1, Zenon DEF FsSnapshot, FsLocal, FsManaged
  <2>3. CASE k.to = n /\ k.b.from = m
    <3>1. 0 <= k.b.ver
      BY <2>1, SMT DEF FsRequest
    <3> QED BY <1>2, <2>2, <2>3, <3>1, Zenon DEF FsNewer
  <2>4. CASE ~(k.to = n /\ k.b.from = m)
    BY <1>2, <2>1, <2>2, <2>4, Zenon DEF FsNewer, FsStale, FsRequest
  <2> QED BY <2>3, <2>4
<1>5. \A k, j \in fsNet : FsOrdered(k, j)'
    BY Zenon DEF FsIInv, FsOrdered
<1>6. ASSUME NEW a \in FsServers, NEW b \in FsServers PROVE FsReplica(a, b)'
  <2>1. /\ FsManaged(a, b)' = FsManaged(a, b)
        /\ FsOwnedBy(b, FsLocal(b))' = FsOwnedBy(b, FsLocal(b))
    BY <1>1, Zenon DEF FsManaged, FsLocal, FsOwnedBy
  <2>2. FsReplica(a, b) /\ fsHas[a][b] \in Nat /\ fsVer[b] \in Nat
    BY Zenon DEF FsIInv, FsTyped
  <2>3. CASE a = n /\ b = m
    <3>1. fsHas[a][b] <= fsVer[b]
      BY <2>2, Zenon DEF FsReplica
    <3>2. 0 <= fsVer[b] /\ (0 = fsVer[b] => fsHas[a][b] = fsVer[b])
      BY ONLY <2>2, <3>1, SMT
    <3> QED BY <1>1, <1>2, <2>1, <2>2, <2>3, <3>2, Zenon DEF FsReplica
  <2>4. CASE ~(a = n /\ b = m)
    BY <1>1, <1>2, <2>1, <2>2, <2>4, Zenon DEF FsReplica
  <2> QED BY <2>3, <2>4
<1> QED BY <1>1, <1>3, <1>4, <1>5, <1>6, Zenon DEF FsIInv

\* Installing a snapshot makes the replica as new as the snapshot.
LEMMA FsReconcileStep ==
    ASSUME FsIInv, NEW k \in fsNet, FsReconcile(k)
    PROVE  FsIInv'
<1>1. PICK n \in FsServers, m \in FsServers, g \in Nat, v \in Nat :
         n = k.to /\ m = k.b.from /\ g = k.b.gen /\ v = k.b.ver
    BY Zenon DEF FsIInv, FsTyped, FsRequest
<1>2. /\ FsRequest(k) /\ FsSnapshot(k) /\ FsNewer(k)
      /\ fsHas[n][m] \in Nat /\ fsVer[m] \in Nat
    BY Zenon DEF FsIInv, FsTyped
<1>3. /\ k.v2 /\ ~FsStale(k)
      /\ fsPol' = [fsPol EXCEPT ![n] =
                     (fsPol[n] \ FsManaged(n, m)) \cup FsOwnedBy(m, k.b.v2)]
      /\ fsState' = [fsState EXCEPT ![n][m] = g]
      /\ fsHas' = [fsHas EXCEPT ![n][m] = FsLarger(fsHas[n][m], v)]
      /\ UNCHANGED <<fsGen, fsNet, fsVer>>
    BY <1>1, Zenon DEF FsReconcile
<1>4. FsLarger(fsHas[n][m], v) = v
  <2>1. fsHas[n][m] <= v
    BY <1>1, <1>2, <1>3, Zenon DEF FsNewer
  <2> QED BY <1>2, <2>1, SMT DEF FsLarger
<1>5. /\ fsHas'[n][m] = v /\ fsState'[n][m] = g
      /\ \A a, b \in FsServers : a # n \/ b # m =>
            fsHas'[a][b] = fsHas[a][b] /\ fsState'[a][b] = fsState[a][b]
    BY <1>3, <1>4, Zenon DEF FsIInv, FsTyped
<1> DEFINE new == FsOwnedBy(m, k.b.v2)
<1>6. new \subseteq FsPolicy /\ \A r \in new : r.owner = m
  <2>1. ASSUME NEW r \in k.b.v2
        PROVE  [r EXCEPT !.owner = m] \in FsPolicy /\ [r EXCEPT !.owner = m].owner = m
    BY <1>2, Zenon DEF FsRequest, FsPolicy
  <2>2. ASSUME NEW r \in new PROVE r \in FsPolicy /\ r.owner = m
    <3>1. PICK x \in k.b.v2 : r = [x EXCEPT !.owner = m]
      BY Zenon DEF FsOwnedBy
    <3> QED BY <2>1, <3>1
  <2> QED BY <2>2, Zenon
<1>7. /\ fsPol[n] \subseteq FsPolicy /\ m # "" 
      /\ fsPol'[n] = (fsPol[n] \ FsManaged(n, m)) \cup new
      /\ \A a \in FsServers : a # n => fsPol'[a] = fsPol[a]
    BY <1>3, FsAssumption, Zenon DEF FsIInv, FsTyped
<1>8. FsTyped'
  <2>1. fsPol' \in [FsServers -> SUBSET FsPolicy]
    BY <1>3, <1>6, <1>7, Zenon DEF FsIInv, FsTyped
  <2>2. /\ fsHas' \in [FsServers -> [FsServers -> Nat]]
        /\ fsState' \in [FsServers -> [FsServers -> Nat]]
    BY <1>3, <1>4, Zenon DEF FsIInv, FsTyped
  <2> QED BY <1>3, <2>1, <2>2, Zenon DEF FsIInv, FsTyped, FsRequest
<1>9. /\ FsManaged(n, m)' = new
      /\ \A b : b # m => FsManaged(n, b)' = FsManaged(n, b)
    BY <1>6, <1>7, Zenon DEF FsManaged
<1>10. \A a \in FsServers : FsLocal(a)' = FsLocal(a)
    BY <1>7, <1>9, Zenon DEF FsLocal, FsManaged
<1>11. ASSUME NEW j \in fsNet PROVE FsSnapshot(j)' /\ FsNewer(j)'
  <2>1. FsSnapshot(j) /\ FsNewer(j) /\ FsRequest(j) /\ FsOrdered(k, j)
    BY Zenon DEF FsIInv, FsTyped
  <2>2. FsSnapshot(j)'
    BY <1>3, <1>10, <2>1, Zenon DEF FsSnapshot, FsRequest
  <2>3. CASE j.to = n /\ j.b.from = m
    <3>1. ASSUME j.v2, ~(j.b.gen < g) PROVE v <= j.b.ver
      <4>1. g <= j.b.gen
        BY ONLY <2>1, <3>1, g \in Nat, SMT DEF FsRequest
      <4> QED BY <1>1, <1>3, <2>1, <2>3, <3>1, <4>1, Zenon DEF FsOrdered
    <3> QED BY <1>5, <2>2, <2>3, <3>1, Zenon DEF FsNewer, FsStale
  <2>4. CASE ~(j.to = n /\ j.b.from = m)
    BY <1>5, <2>1, <2>2, <2>4, Zenon DEF FsNewer, FsStale, FsRequest
  <2> QED BY <2>3, <2>4
<1>12. ASSUME NEW a \in FsServers, NEW b \in FsServers PROVE FsReplica(a, b)'
  <2>1. FsReplica(a, b)
    BY Zenon DEF FsIInv
  <2>2. FsOwnedBy(b, FsLocal(b))' = FsOwnedBy(b, FsLocal(b))
    BY <1>10, Zenon DEF FsOwnedBy
  <2>3. CASE a = n /\ b = m
    BY <1>1, <1>2, <1>3, <1>5, <1>9, <2>2, <2>3, Zenon DEF FsReplica, FsSnapshot
  <2>4. CASE ~(a = n /\ b = m)
    <3>1. FsManaged(a, b)' = FsManaged(a, b)
      <4>1. CASE a = n
        BY <1>9, <2>4, <4>1, Zenon
      <4>2. CASE a # n
        BY <1>7, <4>2, Zenon DEF FsManaged
      <4> QED BY <4>1, <4>2
    <3> QED BY <1>3, <1>5, <2>1, <2>2, <2>4, <3>1, Zenon DEF FsReplica
  <2> QED BY <2>3, <2>4
<1>13. \A j, i \in fsNet : FsOrdered(j, i)'
    BY Zenon DEF FsIInv, FsOrdered
<1> QED BY <1>3, <1>8, <1>11, <1>12, <1>13, Zenon DEF FsIInv

\* every step keeps the exchange in order
LEMMA FsStep == FsIInv /\ [FsNext]_fsVars => FsIInv'
<1> SUFFICES ASSUME FsIInv, [FsNext]_fsVars PROVE FsIInv'
    OBVIOUS
<1>1. CASE UNCHANGED <<fsPol, fsGen, fsState, fsVer, fsHas>> /\ fsNet' \subseteq fsNet
    BY <1>1, FsNetChange, Zenon
<1>2. CASE UNCHANGED fsVars
    BY <1>1, <1>2, Zenon DEF fsVars
<1>3. ASSUME NEW n \in FsServers, NEW name \in FsPorts, NEW port \in FsPorts,
             FsCreate(n, name, port)
      PROVE  FsIInv'
  <2> DEFINE p == [name |-> name, port |-> port, owner |-> ""]
             S == fsPol[n] \cup {p}
  <2>1. p \in FsPolicy /\ p.owner = "" /\ fsPol[n] \subseteq FsPolicy
    BY Zenon DEF FsPolicy, FsIInv, FsTyped
  <2>2. fsPol' = [fsPol EXCEPT ![n] = S] /\ fsVer' = [fsVer EXCEPT ![n] = @ + 1]
        /\ UNCHANGED <<fsGen, fsState, fsNet, fsHas>>
    BY <1>3, Zenon DEF FsCreate
  <2> HIDE DEF p
  <2>3. S \in SUBSET FsPolicy
        /\ \A r \in FsPolicy : r.owner # "" => (r \in S <=> r \in fsPol[n])
    BY <2>1, Zenon
  <2> HIDE DEF S
  <2> QED BY <2>2, <2>3, FsLocalChange, Zenon
<1>4. ASSUME NEW n \in FsServers, NEW r \in fsPol[n], FsRemove(n, r) PROVE FsIInv'
  <2> DEFINE S == fsPol[n] \ {r}
  <2>1. S \in SUBSET FsPolicy
        /\ \A q \in FsPolicy : q.owner # "" => (q \in S <=> q \in fsPol[n])
    BY <1>4, Zenon DEF FsIInv, FsTyped, FsRemove
  <2>2. fsPol' = [fsPol EXCEPT ![n] = S] /\ fsVer' = [fsVer EXCEPT ![n] = @ + 1]
        /\ UNCHANGED <<fsGen, fsState, fsNet, fsHas>>
    BY <1>4, Zenon DEF FsRemove
  <2> HIDE DEF S
  <2> QED BY <2>1, <2>2, FsLocalChange, Zenon
<1>5. ASSUME NEW m \in fsNet, FsImport(m) PROVE FsIInv'
  <2>1. FsRequest(m)
    BY Zenon DEF FsIInv, FsTyped
  <2>2. PICK n \in FsServers : n = m.to
    BY <2>1, Zenon DEF FsRequest
  <2> DEFINE taken == {x \in m.b.v1 : \A r \in fsPol[n] :
                                        r.name # x.name /\ r.port # x.port}
             new == FsOwnedBy("", taken)
             S == fsPol[n] \cup new
  <2>3. new \subseteq FsPolicy /\ \A r \in new : r.owner = ""
    <3>1. ASSUME NEW x \in taken
          PROVE  [x EXCEPT !.owner = ""] \in FsPolicy /\ [x EXCEPT !.owner = ""].owner = ""
      BY <2>1, Zenon DEF FsRequest, FsPolicy
    <3> QED BY <3>1, Zenon DEF FsOwnedBy
  <2>4. fsPol' = [fsPol EXCEPT ![n] = S] /\ fsVer' = [fsVer EXCEPT ![n] = @ + 1]
        /\ UNCHANGED <<fsGen, fsState, fsNet, fsHas>>
    BY <1>5, <2>2, Zenon DEF FsImport
  <2> HIDE DEF new
  <2>5. S \in SUBSET FsPolicy
        /\ \A r \in FsPolicy : r.owner # "" => (r \in S <=> r \in fsPol[n])
    BY <2>3, Zenon DEF FsIInv, FsTyped
  <2> HIDE DEF S
  <2> QED BY <2>4, <2>5, FsLocalChange, Zenon
<1>6. ASSUME NEW m \in fsNet, FsNoRoute(m) PROVE FsIInv'
  <2> DEFINE k == [to |-> m.to, v2 |-> FALSE, b |-> m.b]
  <2>1. fsNet' = fsNet \cup {k} /\ UNCHANGED <<fsPol, fsGen, fsState, fsVer, fsHas>>
    BY <1>6, Zenon DEF FsNoRoute
  <2>2. FsRequest(m)
    BY Zenon DEF FsIInv, FsTyped
  <2>3. ASSUME NEW j \in fsNet', j \notin fsNet PROVE FsRequest(j) /\ ~j.v2
    <3>1. j = [to |-> m.to, v2 |-> FALSE, b |-> m.b]
      BY <2>1, <2>3, Zenon
    <3>2. j.to = m.to /\ j.v2 = FALSE /\ j.b = m.b
      BY <3>1, Zenon
    <3> QED BY <2>2, <3>2, Zenon DEF FsRequest
  <2> QED BY <2>1, <2>3, FsNetChange, Zenon
<1>7. ASSUME NEW m \in fsNet, FsLost(m) PROVE FsIInv'
    BY <1>1, <1>7, Zenon DEF FsLost
<1>8. ASSUME NEW n \in FsServers, FsUpgrade(n) PROVE FsIInv'
    BY <1>1, <1>8, Zenon DEF FsUpgrade
<1>9. ASSUME NEW p \in FsPairs, FsTogglePeer(p[1], p[2]) PROVE FsIInv'
    BY <1>1, <1>9, Zenon DEF FsTogglePeer
<1>10. ASSUME NEW p \in FsPairs, FsReset(p[1], p[2]) PROVE FsIInv'
  <2>1. p[1] \in FsServers /\ p[2] \in FsServers
    BY SMT DEF FsPairs
  <2> QED BY <1>10, <2>1, FsResetStep, Zenon
<1> QED BY <1>2, <1>3, <1>4, <1>5, <1>6, <1>7, <1>8, <1>9, <1>10, FsSyncStep,
           FsReconcileStep, Zenon DEF FsNext

\* A server that has installed all the changes a source made manages for it
\* exactly what the source manages itself, for any number of servers, with
\* snapshots that are lost, repeated or late, and with peers upgraded from the
\* v1 import (fleet policy exchange).
THEOREM ReplicasAgree == FsSpec => []FsReplicasAgree
<1>1. FsInit => FsIInv
  <2> SUFFICES ASSUME FsInit PROVE FsIInv
    OBVIOUS
  <2>1. FsTyped
    BY SMT DEF FsInit, FsTyped
  <2>2. ASSUME NEW n \in FsServers, NEW m \in FsServers PROVE FsReplica(n, m)
    <3>1. fsHas[n][m] = 0 /\ fsVer[m] = 0 /\ fsPol[n] = {} /\ fsPol[m] = {}
      BY Zenon DEF FsInit
    <3>2. fsHas[n][m] <= fsVer[m]
      BY ONLY <3>1, SMT
    <3> QED BY <3>1, <3>2, Zenon DEF FsReplica, FsManaged, FsLocal, FsOwnedBy
  <2> QED BY <2>1, <2>2, Zenon DEF FsInit, FsIInv
<1>2. FsIInv => FsReplicasAgree
    BY Zenon DEF FsIInv, FsReplicasAgree, FsReplica
<1> QED BY <1>1, <1>2, FsStep, PTL DEF FsSpec

=============================================================================
