------------------------- MODULE RemoteUpdateProofs -------------------------
(***************************************************************************)
(* Proofs about RemoteUpdate: the receipts a remote update leaves on disk, *)
(* and the tasks of the server, the worker of the client and the update it *)
(* starts, with any number of tasks, crashes, faults and bounds.           *)
(***************************************************************************)
EXTENDS RemoteUpdate, TLAPS

-----------------------------------------------------------------------------
(* Receipts of remote updates on disk *)

RfPcs == {"idle", "temp", "filled", "linked", "record", "record_filled", "record_linked",
          "recorded"}
RfData == 0..RfTorn
RfFiles == [data : RfData, old : BOOLEAN]
RfProcs == [pc : RfPcs, c : RfClients, r : RfData]
RfTypeOK ==
    /\ rfReceipt \in [RfClients -> RfData]
    /\ rfTmp \in [RfClients -> RfFiles]
    /\ rfRecord \in [RfIds -> RfData]
    /\ rfRecTmp \in [RfIds -> RfFiles]
    /\ rfProc \in RfProcs
    /\ rfOwed \subseteq RfIds
    /\ rfCount \in 0..RfMaxReceipts

\* the process that writes a receipt has left its temporary; the one that
\* quarantines a receipt removes it only when its record is on disk
RfProcess ==
    /\ rfProc.pc \in {"temp", "filled", "linked"} =>
          rfTmp[rfProc.c].data # 0 /\ rfProc.r \in RfIds
    /\ rfProc.pc \in {"record", "record_filled", "record_linked", "recorded"} =>
          rfProc.r \in RfIds /\ rfReceipt[rfProc.c] = rfProc.r
    /\ rfProc.pc \in {"record_linked", "recorded"} => rfRecord[rfProc.r] = rfProc.r

\* The inductive invariant of the receipts.
RfIInv == RfTypeOK /\ RfProcess /\ RfReceiptsSafe

\* what a file may hold: nothing, a torn write, or one receipt
LEMMA RfSizes ==
    /\ 0 \in RfData /\ RfTorn \in RfData /\ RfTorn # 0
    /\ RfIds \subseteq RfData /\ 0 \notin RfIds
    /\ \A d \in RfData : d # 0 => d \in RfIds
BY RfAssumption, SMT DEF RfTorn, RfIds, RfData

\* the counter of receipts stays in its range
LEMMA RfCounts ==
    /\ 0 \in 0..RfMaxReceipts
    /\ \A n \in 0..RfMaxReceipts :
          n < RfMaxReceipts => n + 1 \in 0..RfMaxReceipts /\ n + 1 \in RfIds
BY RfAssumption, SMT DEF RfTorn, RfIds

\* fields of files and processes
LEMMA RfRows ==
    /\ RfNone \in RfFiles /\ RfNone.data = 0
    /\ RfIdle \in RfProcs /\ RfIdle.pc = "idle"
    /\ \A d \in RfData : RfFresh(d) \in RfFiles /\ RfFresh(d).data = d
    /\ \A f \in RfFiles : f.data \in RfData
    /\ \A q \in RfProcs : q.pc \in RfPcs /\ q.c \in RfClients /\ q.r \in RfData
BY RfAssumption, RfSizes, SMT DEF RfNone, RfIdle, RfFresh, RfPcs, RfFiles, RfProcs

\* a file that became old keeps its contents
LEMMA RfAged ==
    ASSUME NEW f \in RfFiles
    PROVE  [f EXCEPT !.old = f.data # 0] \in RfFiles /\ [f EXCEPT !.old = f.data # 0].data = f.data
<1> DEFINE b == f.data # 0
<1>1. b \in BOOLEAN
  OBVIOUS
<1> HIDE DEF b
<1>2. [f EXCEPT !.old = b] \in RfFiles /\ [f EXCEPT !.old = b].data = f.data
  BY <1>1, SMT DEF RfFiles
<1> QED BY <1>2, Zenon DEF b

\* a process may be at any step with any identity and receipt
LEMMA RfAt ==
    ASSUME NEW pc \in RfPcs, NEW c \in RfClients, NEW r \in RfData
    PROVE  [pc |-> pc, c |-> c, r |-> r] \in RfProcs
BY SMT DEF RfProcs

\* a process that goes on keeps its identity and receipt
LEMMA RfGoes ==
    ASSUME NEW q \in RfProcs, NEW pc \in RfPcs
    PROVE  /\ [q EXCEPT !.pc = pc] \in RfProcs
           /\ [q EXCEPT !.pc = pc].pc = pc
           /\ [q EXCEPT !.pc = pc].c = q.c
           /\ [q EXCEPT !.pc = pc].r = q.r
BY SMT DEF RfProcs

\* the steps of a process
LEMMA RfPcNames ==
    /\ "idle" \in RfPcs /\ "temp" \in RfPcs /\ "filled" \in RfPcs /\ "linked" \in RfPcs
    /\ "record" \in RfPcs /\ "record_filled" \in RfPcs /\ "record_linked" \in RfPcs
    /\ "recorded" \in RfPcs
BY Zenon DEF RfPcs

\* the invariant holds before the first receipt
LEMMA RfStarts == RfInit => RfIInv
<1> SUFFICES ASSUME RfInit PROVE RfIInv
  OBVIOUS
<1>1. RfTypeOK
  BY RfSizes, RfCounts, RfRows, Zenon DEF RfInit, RfTypeOK
<1>2. RfProcess /\ RfReceiptsSafe
  BY RfSizes, RfRows, SMT DEF RfInit, RfProcess, RfReceiptsSafe, RfEvidenceKept, RfOneReceipt
<1> QED BY <1>1, <1>2, Zenon DEF RfIInv

\* An identity's files move when it is idle or its own process writes them.
LEMMA RfIdleSteps ==
    ASSUME RfIInv, NEW c \in RfClients,
           \/ RfRecoverResume(c) \/ RfCreateReceipt(c) \/ RfReported(c) \/ RfQuarantine(c)
    PROVE RfIInv'
<1> USE RfSizes, RfRows
<1>0. RfTypeOK /\ RfProcess /\ RfEvidenceKept /\ RfOneReceipt
  BY Zenon DEF RfIInv, RfReceiptsSafe
<1>1. CASE RfRecoverResume(c)
  <2>0. rfTmp[c].data \in RfData /\ rfTmp[c].data \in RfIds
    BY <1>0, <1>1, SMTT(20) DEF RfTypeOK, RfRecoverResume, RfRecoverable
  <2>5. rfOwed' \subseteq RfIds
    BY <1>0, <1>1, <2>0, Zenon DEF RfTypeOK, RfRecoverResume
  <2>6. /\ rfReceipt' \in [RfClients -> RfData]
        /\ rfTmp' \in [RfClients -> RfFiles]
    BY <1>0, <1>1, <2>0, SMTT(20) DEF RfTypeOK, RfRecoverResume
  <2>1. RfTypeOK'
    BY <1>0, <1>1, <2>5, <2>6, Zenon DEF RfTypeOK, RfRecoverResume
  <2>2. RfProcess'
    BY <1>0, <1>1, SMTT(20) DEF RfTypeOK, RfProcess, RfRecoverResume
  <2>3. RfEvidenceKept'
    <3>1. \A d \in RfClients : rfReceipt[d] # 0 => rfReceipt'[d] = rfReceipt[d]
      BY <1>0, <1>1, SMTT(20) DEF RfTypeOK, RfRecoverResume, RfRecoverable
    <3>2. rfReceipt'[c] = rfTmp[c].data /\ rfOwed' \subseteq rfOwed \cup {rfTmp[c].data}
      BY <1>0, <1>1, Zenon DEF RfTypeOK, RfRecoverResume
    <3>3. rfRecord' = rfRecord
      BY <1>1, Zenon DEF RfRecoverResume
    <3> SUFFICES ASSUME NEW r \in rfOwed'
                 PROVE  (\E d \in RfClients : rfReceipt'[d] = r) \/ rfRecord'[r] = r
      BY Zenon DEF RfEvidenceKept
    <3>4. CASE r \in rfOwed
      BY <1>0, <3>1, <3>3, <3>4, SMTT(20) DEF RfTypeOK, RfEvidenceKept
    <3> QED BY <3>2, <3>4, Zenon
  <2>4. RfOneReceipt'
    BY <1>0, <1>1, SMTT(20) DEF RfTypeOK, RfOneReceipt, RfRecoverResume, RfRecoverable
  <2> QED BY <2>1, <2>2, <2>3, <2>4, Zenon DEF RfIInv, RfReceiptsSafe
<1>2. CASE RfCreateReceipt(c)
  <2>0. rfCount + 1 \in 0..RfMaxReceipts /\ rfCount + 1 \in RfIds
    BY <1>0, <1>2, RfCounts, Zenon DEF RfTypeOK, RfCreateReceipt
  <2>5. rfProc' \in RfProcs
    BY <2>0, <1>2, RfAt, RfPcNames, Zenon DEF RfCreateReceipt
  <2>1. RfTypeOK'
    BY <1>0, <1>2, <2>0, <2>5, SMTT(20) DEF RfTypeOK, RfCreateReceipt
  <2>2. RfProcess'
    <3>1. /\ rfProc'.pc = "temp" /\ rfProc'.c = c /\ rfProc'.r = rfCount + 1
          /\ rfTmp'[c] = RfFresh(RfTorn)
      BY <1>0, <1>2, Zenon DEF RfTypeOK, RfCreateReceipt
    <3> QED BY <2>0, <3>1, SMTT(20) DEF RfProcess
  <2>3. RfEvidenceKept'
    BY <1>0, <1>2, Zenon DEF RfEvidenceKept, RfCreateReceipt
  <2>4. RfOneReceipt'
    BY <1>0, <1>2, SMTT(20) DEF RfTypeOK, RfOneReceipt, RfCreateReceipt, RfAnyReceipt
  <2> QED BY <2>1, <2>2, <2>3, <2>4, Zenon DEF RfIInv, RfReceiptsSafe
<1>3. CASE RfReported(c)
  <2>5. rfOwed' \subseteq RfIds
    BY <1>0, <1>3, Zenon DEF RfTypeOK, RfReported
  <2>6. rfReceipt' \in [RfClients -> RfData]
    BY <1>0, <1>3, SMTT(20) DEF RfTypeOK, RfReported
  <2>1. RfTypeOK'
    BY <1>0, <1>3, <2>5, <2>6, Zenon DEF RfTypeOK, RfReported
  <2>2. RfProcess'
    BY <1>0, <1>3, SMTT(20) DEF RfTypeOK, RfProcess, RfReported
  <2>3. RfEvidenceKept'
    BY <1>0, <1>3, SMTT(20) DEF RfTypeOK, RfEvidenceKept, RfReported
  <2>4. RfOneReceipt'
    BY <1>0, <1>3, SMTT(20) DEF RfTypeOK, RfOneReceipt, RfReported
  <2> QED BY <2>1, <2>2, <2>3, <2>4, Zenon DEF RfIInv, RfReceiptsSafe
<1>4. CASE RfQuarantine(c)
  <2> DEFINE i == rfReceipt[c]
  <2>7. i \in RfIds
    BY <1>0, <1>4, SMTT(20) DEF RfTypeOK, RfQuarantine
  <2>8. rfRecTmp' = rfRecTmp \/ rfRecTmp' = [rfRecTmp EXCEPT ![i] = RfFresh(RfTorn)]
    BY <1>4, Zenon DEF RfQuarantine
  <2>0. i \in RfIds /\ rfRecTmp' \in [RfIds -> RfFiles]
    BY <1>0, <2>7, <2>8, SMTT(20) DEF RfTypeOK
  <2>1. \/ rfProc' = [pc |-> "record", c |-> c, r |-> i]
        \/ rfProc' = [pc |-> "recorded", c |-> c, r |-> i] /\ rfRecord[i] = i
    BY <1>4, Zenon DEF RfQuarantine
  <2>2. /\ rfReceipt' = rfReceipt /\ rfTmp' = rfTmp /\ rfRecord' = rfRecord
        /\ rfOwed' = rfOwed /\ rfCount' = rfCount
    BY <1>4, Zenon DEF RfQuarantine
  <2> HIDE DEF i
  <2>6. rfProc' \in RfProcs
    <3>1. i \in RfData /\ "record" \in RfPcs /\ "recorded" \in RfPcs
      BY <2>0, RfPcNames, Zenon
    <3>2. [pc |-> "record", c |-> c, r |-> i] \in RfProcs
      BY <3>1, SMTT(20) DEF RfProcs
    <3>3. [pc |-> "recorded", c |-> c, r |-> i] \in RfProcs
      BY <3>1, SMTT(20) DEF RfProcs
    <3> QED BY <2>1, <3>2, <3>3, Zenon
  <2>3. RfTypeOK'
    BY <1>0, <2>0, <2>6, <2>2, Zenon DEF RfTypeOK
  <2>4. RfProcess'
    BY <1>0, <2>0, <2>1, <2>2, SMTT(20) DEF RfTypeOK, RfProcess, i
  <2>5. RfEvidenceKept' /\ RfOneReceipt'
    BY <1>0, <2>2, Zenon DEF RfEvidenceKept, RfOneReceipt
  <2> QED BY <2>3, <2>4, <2>5, Zenon DEF RfIInv, RfReceiptsSafe
<1> QED BY <1>1, <1>2, <1>3, <1>4, Zenon

\* A step of the process that writes: one file, and its own place.
LEMMA RfWriterSteps ==
    ASSUME RfIInv, \/ RfFillReceipt \/ RfLinkReceipt \/ RfUnlinkReceiptTmp \/ RfFillRecord
                   \/ RfLinkRecord \/ RfUnlinkRecordTmp \/ RfRemoveReceipt
    PROVE RfIInv'
<1> USE RfSizes, RfRows
<1>0. RfTypeOK /\ RfProcess /\ RfEvidenceKept /\ RfOneReceipt
  BY Zenon DEF RfIInv, RfReceiptsSafe
<1>1. CASE RfFillReceipt
  <2>0. /\ rfProc' \in RfProcs /\ rfProc'.pc = "filled"
        /\ rfProc'.c = rfProc.c /\ rfProc'.r = rfProc.r
    <3>1. rfProc \in RfProcs /\ rfProc' = [rfProc EXCEPT !.pc = "filled"]
      BY <1>0, <1>1, Zenon DEF RfTypeOK, RfFillReceipt
    <3>2. "filled" \in RfPcs
      BY RfPcNames, Zenon
    <3> QED BY ONLY <3>1, <3>2, RfGoes, Zenon
  <2>1. RfTypeOK'
    BY <1>0, <1>1, <2>0, SMTT(20) DEF RfTypeOK, RfProcess, RfFillReceipt
  <2>2. RfProcess'
    <3>1. rfProc.r \in RfIds /\ rfProc.r # 0 /\ rfProc.c \in RfClients
      BY <1>0, <1>1, Zenon DEF RfTypeOK, RfProcess, RfFillReceipt
    <3>2. rfTmp'[rfProc.c].data = rfProc.r
      BY <1>0, <1>1, <3>1, Zenon DEF RfTypeOK, RfFillReceipt
    <3> QED BY <2>0, <3>1, <3>2, SMTT(20) DEF RfProcess
  <2>3. RfEvidenceKept'
    BY <1>0, <1>1, Zenon DEF RfEvidenceKept, RfFillReceipt
  <2>4. RfOneReceipt'
    BY <1>0, <1>1, SMTT(20) DEF RfTypeOK, RfProcess, RfOneReceipt, RfFillReceipt
  <2> QED BY <2>1, <2>2, <2>3, <2>4, Zenon DEF RfIInv, RfReceiptsSafe
<1>2. CASE RfLinkReceipt
  <2>0. /\ rfProc' \in RfProcs /\ rfProc'.pc = "linked"
        /\ rfProc'.c = rfProc.c /\ rfProc'.r = rfProc.r
    <3>1. rfProc \in RfProcs /\ rfProc' = [rfProc EXCEPT !.pc = "linked"]
      BY <1>0, <1>2, Zenon DEF RfTypeOK, RfLinkReceipt
    <3>2. "linked" \in RfPcs
      BY RfPcNames, Zenon
    <3> QED BY ONLY <3>1, <3>2, RfGoes, Zenon
  <2>1. RfTypeOK'
    BY <1>0, <1>2, <2>0, SMTT(20) DEF RfTypeOK, RfProcess, RfLinkReceipt
  <2>2. RfProcess'
    BY <1>0, <1>2, <2>0, SMTT(20) DEF RfTypeOK, RfProcess, RfLinkReceipt
  <2>3. RfEvidenceKept'
    <3>1. \A d \in RfClients : rfReceipt[d] # 0 => rfReceipt'[d] = rfReceipt[d]
      BY <1>0, <1>2, SMTT(20) DEF RfTypeOK, RfLinkReceipt
    <3>2. /\ rfProc.c \in RfClients /\ rfReceipt'[rfProc.c] = rfProc.r
          /\ rfOwed' = rfOwed \cup {rfProc.r}
      BY <1>0, <1>2, Zenon DEF RfTypeOK, RfLinkReceipt
    <3>3. rfRecord' = rfRecord
      BY <1>2, Zenon DEF RfLinkReceipt
    <3> SUFFICES ASSUME NEW r \in rfOwed'
                 PROVE  (\E d \in RfClients : rfReceipt'[d] = r) \/ rfRecord'[r] = r
      BY Zenon DEF RfEvidenceKept
    <3>4. CASE r \in rfOwed
      BY <1>0, <3>1, <3>3, <3>4, SMTT(20) DEF RfTypeOK, RfEvidenceKept
    <3> QED BY <3>2, <3>4, Zenon
  <2>4. RfOneReceipt'
    BY <1>0, <1>2, SMTT(20) DEF RfTypeOK, RfProcess, RfOneReceipt, RfLinkReceipt
  <2> QED BY <2>1, <2>2, <2>3, <2>4, Zenon DEF RfIInv, RfReceiptsSafe
<1>3. CASE RfUnlinkReceiptTmp
  <2>0. rfProc' \in RfProcs /\ rfProc'.pc = "idle"
    BY <1>3, Zenon DEF RfUnlinkReceiptTmp
  <2>1. RfTypeOK'
    BY <1>0, <1>3, <2>0, SMTT(20) DEF RfTypeOK, RfProcess, RfUnlinkReceiptTmp
  <2>2. RfProcess'
    BY <1>0, <1>3, <2>0, SMTT(20) DEF RfTypeOK, RfProcess, RfUnlinkReceiptTmp
  <2>3. RfEvidenceKept'
    BY <1>0, <1>3, Zenon DEF RfEvidenceKept, RfUnlinkReceiptTmp
  <2>4. RfOneReceipt'
    BY <1>0, <1>3, SMTT(20) DEF RfTypeOK, RfProcess, RfOneReceipt, RfUnlinkReceiptTmp
  <2> QED BY <2>1, <2>2, <2>3, <2>4, Zenon DEF RfIInv, RfReceiptsSafe
<1>4. CASE RfFillRecord
  <2>0. /\ rfProc' \in RfProcs /\ rfProc'.pc = "record_filled"
        /\ rfProc'.c = rfProc.c /\ rfProc'.r = rfProc.r
    <3>1. rfProc \in RfProcs /\ rfProc' = [rfProc EXCEPT !.pc = "record_filled"]
      BY <1>0, <1>4, Zenon DEF RfTypeOK, RfFillRecord
    <3>2. "record_filled" \in RfPcs
      BY RfPcNames, Zenon
    <3> QED BY ONLY <3>1, <3>2, RfGoes, Zenon
  <2>1. RfTypeOK'
    BY <1>0, <1>4, <2>0, SMTT(20) DEF RfTypeOK, RfProcess, RfFillRecord
  <2>2. RfProcess'
    BY <1>0, <1>4, <2>0, SMTT(20) DEF RfTypeOK, RfProcess, RfFillRecord
  <2>3. RfEvidenceKept'
    BY <1>0, <1>4, Zenon DEF RfEvidenceKept, RfFillRecord
  <2>4. RfOneReceipt'
    BY <1>0, <1>4, Zenon DEF RfOneReceipt, RfFillRecord
  <2> QED BY <2>1, <2>2, <2>3, <2>4, Zenon DEF RfIInv, RfReceiptsSafe
<1>5. CASE RfLinkRecord
  <2>0. /\ rfProc' \in RfProcs /\ rfProc'.pc = "record_linked"
        /\ rfProc'.c = rfProc.c /\ rfProc'.r = rfProc.r
    <3>1. rfProc \in RfProcs /\ rfProc' = [rfProc EXCEPT !.pc = "record_linked"]
      BY <1>0, <1>5, Zenon DEF RfTypeOK, RfLinkRecord
    <3>2. "record_linked" \in RfPcs
      BY RfPcNames, Zenon
    <3> QED BY ONLY <3>1, <3>2, RfGoes, Zenon
  <2>1. RfTypeOK'
    BY <1>0, <1>5, <2>0, SMTT(20) DEF RfTypeOK, RfProcess, RfLinkRecord
  <2>2. RfProcess'
    BY <1>0, <1>5, <2>0, SMTT(20) DEF RfTypeOK, RfProcess, RfLinkRecord
  <2>3. RfEvidenceKept'
    BY <1>0, <1>5, SMTT(20) DEF RfTypeOK, RfProcess, RfEvidenceKept, RfLinkRecord
  <2>4. RfOneReceipt'
    BY <1>0, <1>5, Zenon DEF RfOneReceipt, RfLinkRecord
  <2> QED BY <2>1, <2>2, <2>3, <2>4, Zenon DEF RfIInv, RfReceiptsSafe
<1>6. CASE RfUnlinkRecordTmp
  <2>0. /\ rfProc' \in RfProcs /\ rfProc'.pc = "recorded"
        /\ rfProc'.c = rfProc.c /\ rfProc'.r = rfProc.r
    <3>1. rfProc \in RfProcs /\ rfProc' = [rfProc EXCEPT !.pc = "recorded"]
      BY <1>0, <1>6, Zenon DEF RfTypeOK, RfUnlinkRecordTmp
    <3>2. "recorded" \in RfPcs
      BY RfPcNames, Zenon
    <3> QED BY ONLY <3>1, <3>2, RfGoes, Zenon
  <2>1. RfTypeOK'
    BY <1>0, <1>6, <2>0, SMTT(20) DEF RfTypeOK, RfProcess, RfUnlinkRecordTmp
  <2>2. RfProcess'
    BY <1>0, <1>6, <2>0, SMTT(20) DEF RfTypeOK, RfProcess, RfUnlinkRecordTmp
  <2>3. RfEvidenceKept'
    BY <1>0, <1>6, Zenon DEF RfEvidenceKept, RfUnlinkRecordTmp
  <2>4. RfOneReceipt'
    BY <1>0, <1>6, Zenon DEF RfOneReceipt, RfUnlinkRecordTmp
  <2> QED BY <2>1, <2>2, <2>3, <2>4, Zenon DEF RfIInv, RfReceiptsSafe
<1>7. CASE RfRemoveReceipt
  <2>0. rfProc' \in RfProcs /\ rfProc'.pc = "idle"
    BY <1>7, Zenon DEF RfRemoveReceipt
  <2>1. RfTypeOK'
    BY <1>0, <1>7, <2>0, SMTT(20) DEF RfTypeOK, RfProcess, RfRemoveReceipt
  <2>2. RfProcess'
    BY <1>0, <1>7, <2>0, SMTT(20) DEF RfTypeOK, RfProcess, RfRemoveReceipt
  <2>3. RfEvidenceKept'
    BY <1>0, <1>7, SMTT(20) DEF RfTypeOK, RfProcess, RfEvidenceKept, RfRemoveReceipt
  <2>4. RfOneReceipt'
    BY <1>0, <1>7, SMTT(20) DEF RfTypeOK, RfProcess, RfOneReceipt, RfRemoveReceipt
  <2> QED BY <2>1, <2>2, <2>3, <2>4, Zenon DEF RfIInv, RfReceiptsSafe
<1> QED BY <1>1, <1>2, <1>3, <1>4, <1>5, <1>6, <1>7, Zenon

\* every file operation, kill and delivery keeps the invariant
LEMMA RfStep == RfIInv /\ [RfNext]_rfVars => RfIInv'
<1> SUFFICES ASSUME RfIInv, [RfNext]_rfVars PROVE RfIInv'
  OBVIOUS
<1> USE RfSizes, RfRows
<1>0. RfTypeOK /\ RfProcess /\ RfEvidenceKept /\ RfOneReceipt
  BY Zenon DEF RfIInv, RfReceiptsSafe
<1>1. ASSUME NEW i \in RfIds, RfRecoverQuarantine(i) PROVE RfIInv'
  <2>1. RfTypeOK'
    BY <1>0, <1>1, SMTT(20) DEF RfTypeOK, RfRecoverQuarantine
  <2>2. RfProcess' /\ RfOneReceipt'
    <3>1. rfProc.pc = "idle" /\ rfProc' = rfProc /\ rfReceipt' = rfReceipt /\ rfTmp' = rfTmp
      BY <1>1, Zenon DEF RfRecoverQuarantine
    <3>2. RfProcess'
      BY <3>1, SMTT(20) DEF RfProcess
    <3> QED BY <1>0, <3>1, <3>2, Zenon DEF RfOneReceipt
  <2>3. RfEvidenceKept'
    <3>1. \A j \in RfIds : rfRecord[j] # 0 => rfRecord'[j] = rfRecord[j]
      BY <1>0, <1>1, SMTT(20) DEF RfTypeOK, RfRecoverQuarantine, RfRecoverable
    <3>2. rfReceipt' = rfReceipt /\ rfOwed' = rfOwed
      BY <1>1, Zenon DEF RfRecoverQuarantine
    <3> QED BY <1>0, <3>1, <3>2, Zenon DEF RfTypeOK, RfEvidenceKept
  <2> QED BY <2>1, <2>2, <2>3, Zenon DEF RfIInv, RfReceiptsSafe
<1>2. ASSUME NEW i \in RfIds, RfClearRecord(i) PROVE RfIInv'
  <2>1. RfTypeOK'
    BY <1>0, <1>2, SMTT(20) DEF RfTypeOK, RfClearRecord
  <2>2. RfProcess' /\ RfOneReceipt'
    <3>1. rfProc.pc = "idle" /\ rfProc' = rfProc /\ rfReceipt' = rfReceipt /\ rfTmp' = rfTmp
      BY <1>2, Zenon DEF RfClearRecord
    <3>2. RfProcess'
      BY <3>1, SMTT(20) DEF RfProcess
    <3> QED BY <1>0, <3>1, <3>2, Zenon DEF RfOneReceipt
  <2>3. RfEvidenceKept'
    BY <1>0, <1>2, SMTT(20) DEF RfTypeOK, RfEvidenceKept, RfClearRecord
  <2> QED BY <2>1, <2>2, <2>3, Zenon DEF RfIInv, RfReceiptsSafe
<1>3. CASE RfAge
  <2>1. /\ rfTmp' \in [RfClients -> RfFiles]
        /\ \A c \in RfClients : rfTmp'[c].data = rfTmp[c].data
    BY <1>0, <1>3, RfAged, Zenon DEF RfTypeOK, RfAge
  <2>2. rfRecTmp' \in [RfIds -> RfFiles]
    BY <1>0, <1>3, RfAged, Zenon DEF RfTypeOK, RfAge
  <2>3. RfTypeOK'
    BY <1>0, <1>3, <2>1, <2>2, Zenon DEF RfTypeOK, RfAge
  <2>4. RfProcess' /\ RfEvidenceKept'
    BY <1>0, <1>3, SMTT(20) DEF RfProcess, RfEvidenceKept, RfAge
  <2>5. RfOneReceipt'
    BY <1>0, <1>3, <2>1, Zenon DEF RfOneReceipt, RfAge
  <2> QED BY <2>3, <2>4, <2>5, Zenon DEF RfIInv, RfReceiptsSafe
<1>4. CASE RfKill
  <2>1. RfTypeOK'
    BY <1>0, <1>4, Zenon DEF RfTypeOK, RfKill
  <2>2. RfProcess'
    BY <1>4, SMTT(20) DEF RfProcess, RfKill
  <2>3. RfEvidenceKept' /\ RfOneReceipt'
    BY <1>0, <1>4, Zenon DEF RfEvidenceKept, RfOneReceipt, RfKill
  <2> QED BY <2>1, <2>2, <2>3, Zenon DEF RfIInv, RfReceiptsSafe
<1>5. CASE UNCHANGED rfVars
  <2>0. /\ rfReceipt' = rfReceipt /\ rfTmp' = rfTmp /\ rfRecord' = rfRecord
        /\ rfRecTmp' = rfRecTmp /\ rfProc' = rfProc /\ rfOwed' = rfOwed
        /\ rfCount' = rfCount
    BY <1>5, Zenon DEF rfVars
  <2>1. RfTypeOK'
    BY <1>0, <2>0, Zenon DEF RfTypeOK
  <2>2. RfProcess'
    BY <1>0, <2>0, Zenon DEF RfProcess
  <2>3. RfEvidenceKept' /\ RfOneReceipt'
    BY <1>0, <2>0, Zenon DEF RfEvidenceKept, RfOneReceipt
  <2> QED BY <2>1, <2>2, <2>3, Zenon DEF RfIInv, RfReceiptsSafe
<1> QED BY <1>1, <1>2, <1>3, <1>4, <1>5, RfIdleSteps, RfWriterSteps, Zenon DEF RfNext

\* Wherever the process is killed, the evidence of an unfinished update is
\* still on disk, as a receipt or complete in the quarantine, and no two
\* identities of an installation hold a receipt at once.
THEOREM ReceiptsSafe == RfSpec => []RfReceiptsSafe
<1>1. RfIInv => RfReceiptsSafe
  BY Zenon DEF RfIInv
<1> QED BY RfStarts, RfStep, <1>1, PTL DEF RfSpec

-----------------------------------------------------------------------------
(* Remote updates: the task table, the worker and its receipt *)

RuKinds == {"started", "awaiting", "succeeded", "failed", "cancelled"}
RuFinals == {"succeeded", "failed", "cancelled"}
RuActs == {"check", "download", "status", "apply", "rollback", "recover"}
RuSts == {"queued", "claimed", "running", "cancel_requested", "succeeded", "failed",
          "cancelled"}
RuStages == {"queued", "claimed", "executing", "awaiting_restart", "completed", "failed",
             "cancelled"}
RuTaskPcs == {"claimed", "started", "working", "preparing", "bound", "answered",
              "scheduling", "finished"}
RuReceiptPcs == {"reconciled", "replanning", "reanswered", "rescheduling", "reporting"}
RuPcs == {"idle", "down"} \cup RuTaskPcs \cup RuReceiptPcs
RuReports == [kind : {"none"} \cup RuKinds \cup RuSts, op : Nat,
              code : {"none", "failed_closed"} \cup RuActs]
RuProofs == [worker : Nat, token : Nat, rep : RuReports]
RuTaskSet ==
    [act : RuActs, st : RuSts, stage : RuStages, cancel : BOOLEAN, attempt : Nat,
     owner : Nat, left : Nat, plan : Nat, resume : Nat, result : Nat,
     code : {"none", "failed_closed"} \cup RuActs, proof : RuProofs]
RuWorkers ==
    [pc : RuPcs, inst : Nat, task : Nat, token : Nat, seen : BOOLEAN, op : Nat,
     left : Nat, term : BOOLEAN, resp : RuReports, rep : RuReports]
RuReceipts == [task : Nat, worker : Nat, token : Nat, op : Nat, left : Nat]

\* a task the server closed was closed by a report, or the time n is over
RuCovered(t, n) ==
    n > 0 => IF RuTerminal(t) THEN t.proof # RuNoProof
             ELSE RuLeased(t) /\ t.stage = "awaiting_restart" /\ n <= t.left

RuTaskOk(t, ops, done) ==
    /\ t \in RuTaskSet
    /\ t.plan <= ops
    /\ t.proof = RuNoProof \/ t.proof.rep.kind \in RuFinals
    /\ t.stage = "awaiting_restart" => t.resume <= t.left
    /\ t.stage = "awaiting_restart" => RuLeased(t)
    /\ t.stage # "awaiting_restart" => t.resume = 0
    /\ t.st = "succeeded" /\ RuRequiresRestart(t.act) => t.result \in done

RuSoundReport(rep, t, ops, done) ==
    /\ rep.kind \in RuKinds /\ rep.op <= ops
    /\ rep.kind = "succeeded" /\ RuRequiresRestart(t.act) => rep.op \in done

RuLateOk(m, ts, ops, done) ==
    /\ m.task \in DOMAIN ts /\ m.q \in RuProofs
    /\ RuSoundReport(m.q.rep, ts[m.task], ops, done)

RuReceiptOk(rc, ts, ops) ==
    rc \in RuReceipts /\ rc.op <= ops /\ (rc.op # 0 => rc.task \in DOMAIN ts)

RuWorkerOk(w, rc, ts, late, ops, done) ==
    /\ w \in RuWorkers
    /\ w.pc \in RuTaskPcs => w.task \in DOMAIN ts
    /\ w.pc \in RuReceiptPcs => rc.op # 0
    /\ w.pc = "working" => ~RuRequiresRestart(ts[w.task].act)
    /\ w.pc = "finished" => RuSoundReport(w.rep, ts[w.task], ops, done)
    /\ w.pc = "reporting" => RuSoundReport(w.rep, ts[rc.task], ops, done)
    /\ w.pc \in {"bound", "answered"} => rc.op = w.op /\ rc.task = w.task /\ rc.op # 0
    /\ w.pc = "bound" => /\ ts[w.task].plan # w.op
                         /\ \A m \in late : m.q.rep.kind = "awaiting" => m.q.rep.op # w.op
    /\ w.pc = "answered" => RuCovered(ts[w.task], w.left)
    /\ w.pc = "reanswered" => RuCovered(ts[rc.task], w.left)


\* the task table and the reports on their way
RuTablesOk(ts, late, ops, done) ==
    /\ ts \in Seq(RuTaskSet) /\ ops \in Nat
    /\ \A i \in DOMAIN ts : RuTaskOk(ts[i], ops, done)
    /\ \A m \in late : RuLateOk(m, ts, ops, done)

\* The inductive invariant of remote updates.
RuIInv ==
    /\ RuTablesOk(ruTasks, ruLate, ruOps, ruDone)
    /\ ruQuar \in BOOLEAN
    /\ RuReceiptOk(ruReceipt, ruTasks, ruOps)
    /\ RuWorkerOk(ruW, ruReceipt, ruTasks, ruLate, ruOps, ruDone)

\* what a step may do to a task, op being the plan that a report brings
RuMove(t, u, op) ==
    /\ u.act = t.act /\ u.plan \in {t.plan, 0, op}
    /\ \A n \in Nat : RuCovered(t, n) => RuCovered(u, n)
RuMoved(ts, us, op) ==
    DOMAIN ts \subseteq DOMAIN us /\ \A i \in DOMAIN ts : RuMove(ts[i], us[i], op)

\* the names the proofs need
LEMMA RuNames ==
    /\ {"queued", "claimed", "running", "cancel_requested"} \subseteq RuSts
    /\ {"succeeded", "failed", "cancelled"} \subseteq RuSts
    /\ {"queued", "claimed", "executing", "awaiting_restart"} \subseteq RuStages
    /\ {"completed", "failed", "cancelled"} \subseteq RuStages
BY Zenon DEF RuSts, RuStages

\* the fields of a task whose lease is cleared
LEMMA RuCleared ==
    ASSUME NEW t \in RuTaskSet
    PROVE  /\ RuClearLease(t) \in RuTaskSet
           /\ RuClearLease(t).act = t.act /\ RuClearLease(t).st = t.st
           /\ RuClearLease(t).proof = t.proof /\ RuClearLease(t).result = t.result
           /\ RuClearLease(t).left = 0 /\ RuClearLease(t).plan = 0
           /\ RuClearLease(t).resume = 0
BY Zenon DEF RuClearLease, RuTaskSet

\* the fields of a task that enters another state
LEMMA RuNamed ==
    ASSUME NEW t \in RuTaskSet, NEW st \in RuSts, NEW stage \in RuStages
    PROVE  /\ [t EXCEPT !.st = st, !.stage = stage] \in RuTaskSet
           /\ [t EXCEPT !.st = st, !.stage = stage].act = t.act
           /\ [t EXCEPT !.st = st, !.stage = stage].st = st
           /\ [t EXCEPT !.st = st, !.stage = stage].stage = stage
           /\ [t EXCEPT !.st = st, !.stage = stage].proof = t.proof
           /\ [t EXCEPT !.st = st, !.stage = stage].plan = t.plan
           /\ [t EXCEPT !.st = st, !.stage = stage].resume = t.resume
BY Zenon DEF RuTaskSet

\* a closed or queued task, with its lease cleared, is as good as the task was
LEMMA RuClosed ==
    ASSUME NEW t, NEW ops \in Nat, NEW done, RuTaskOk(t, ops, done),
           NEW u \in RuTaskSet, u.proof = t.proof, u.plan = 0, u.resume = 0,
           u.stage # "awaiting_restart", u.st # "succeeded"
    PROVE  RuTaskOk(u, ops, done)
BY DEF RuTaskOk

\* a task that leaves the hands of a worker without a report
LEMMA RuEnds ==
    ASSUME NEW c \in RuTaskSet, NEW u,
           \/ u = [c EXCEPT !.st = "cancelled", !.stage = "cancelled"]
           \/ u = [c EXCEPT !.st = "queued", !.stage = "queued"]
           \/ u = [c EXCEPT !.st = "failed", !.stage = "failed", !.code = "failed_closed"]
    PROVE  /\ u \in RuTaskSet /\ u.act = c.act /\ u.proof = c.proof
           /\ u.plan = c.plan /\ u.resume = c.resume
           /\ u.stage # "awaiting_restart" /\ u.st # "succeeded"
<1>0. c \in RuTaskSet
  OBVIOUS
<1>1. CASE u = [c EXCEPT !.st = "cancelled", !.stage = "cancelled"]
  BY ONLY <1>0, <1>1, RuNames, Zenon DEF RuTaskSet
<1>2. CASE u = [c EXCEPT !.st = "queued", !.stage = "queued"]
  BY ONLY <1>0, <1>2, RuNames, Zenon DEF RuTaskSet
<1>3. CASE u = [c EXCEPT !.st = "failed", !.stage = "failed", !.code = "failed_closed"]
  BY ONLY <1>0, <1>3, RuNames, Zenon DEF RuTaskSet
<1> QED BY <1>1, <1>2, <1>3, Zenon

\* a task whose lease ran out was not covered any more
LEMMA RuLostLease ==
    ASSUME NEW t, NEW ops \in Nat, NEW done, RuTaskOk(t, ops, done), RuExpired(t)
    PROVE  /\ RuTaskOk(RuApplyLostLease(t), ops, done)
           /\ RuMove(t, RuApplyLostLease(t), 0)
<1> DEFINE c == RuClearLease(t)
           u == RuApplyLostLease(t)
<1>1. t \in RuTaskSet
  BY Zenon DEF RuTaskOk
<1>2. /\ c \in RuTaskSet /\ c.act = t.act /\ c.proof = t.proof
      /\ c.plan = 0 /\ c.resume = 0
  BY <1>1, RuCleared, Zenon
<1>3. \/ u = [c EXCEPT !.st = "cancelled", !.stage = "cancelled"]
      \/ u = [c EXCEPT !.st = "queued", !.stage = "queued"]
      \/ u = [c EXCEPT !.st = "failed", !.stage = "failed", !.code = "failed_closed"]
  BY Zenon DEF RuApplyLostLease
<1> HIDE DEF c, u
<1>4. /\ u \in RuTaskSet /\ u.act = t.act /\ u.proof = t.proof
      /\ u.plan = 0 /\ u.resume = 0 /\ u.stage # "awaiting_restart" /\ u.st # "succeeded"
  BY <1>2, <1>3, RuEnds, Zenon
<1>5. RuTaskOk(u, ops, done)
  BY <1>4, RuClosed, Zenon
<1>6. \A n \in Nat : RuCovered(t, n) => RuCovered(u, n)
  BY DEF RuCovered, RuExpired, RuLeased, RuTerminal
<1>7. RuMove(t, u, 0)
  BY <1>4, <1>6, Zenon DEF RuMove
<1> QED BY <1>5, <1>7, Zenon DEF u

\* a table of the same length
LEMMA RuSeqOf ==
    ASSUME NEW S, NEW ts \in Seq(S), NEW us, us = [i \in DOMAIN ts |-> us[i]],
           \A i \in DOMAIN ts : us[i] \in S
    PROVE  us \in Seq(S)
OBVIOUS

\* nothing moves
LEMMA RuStays == ASSUME NEW t PROVE RuMove(t, t, 0)
BY Zenon DEF RuMove

\* a table whose tasks are sound is sound beside the same reports
LEMMA RuTablesMoved ==
    ASSUME NEW ts, NEW us, NEW late, NEW op, NEW ops, NEW done,
           RuTablesOk(ts, late, ops, done), RuMoved(ts, us, op),
           us \in Seq(RuTaskSet), \A i \in DOMAIN us : RuTaskOk(us[i], ops, done)
    PROVE  RuTablesOk(us, late, ops, done)
<1>1. ASSUME NEW m \in late PROVE RuLateOk(m, us, ops, done)
  <2>1. RuLateOk(m, ts, ops, done)
    BY Zenon DEF RuTablesOk
  <2>2. m.task \in DOMAIN us /\ us[m.task].act = ts[m.task].act
    BY <2>1, Zenon DEF RuLateOk, RuMoved, RuMove
  <2> QED BY <2>1, <2>2, Zenon DEF RuLateOk, RuSoundReport
<1> QED BY <1>1, Zenon DEF RuTablesOk

\* reconcile_expired leaves a sound table sound, and moves no task backwards
LEMMA RuReconcileTables ==
    ASSUME NEW ts, NEW late, NEW ops, NEW done, RuTablesOk(ts, late, ops, done)
    PROVE  /\ RuTablesOk(RuReconcileExpired(ts), late, ops, done)
           /\ RuMoved(ts, RuReconcileExpired(ts), 0)
           /\ DOMAIN RuReconcileExpired(ts) = DOMAIN ts
<1> DEFINE us == RuReconcileExpired(ts)
<1>0. ts \in Seq(RuTaskSet) /\ ops \in Nat /\ \A i \in DOMAIN ts : RuTaskOk(ts[i], ops, done)
  BY Zenon DEF RuTablesOk
<1>1. DOMAIN us = DOMAIN ts
  BY Zenon DEF RuReconcileExpired
<1>2. ASSUME NEW i \in DOMAIN ts PROVE RuTaskOk(us[i], ops, done) /\ RuMove(ts[i], us[i], 0)
  <2>1. us[i] = IF RuExpired(ts[i]) THEN RuApplyLostLease(ts[i]) ELSE ts[i]
    BY Zenon DEF RuReconcileExpired
  <2>2. CASE RuExpired(ts[i])
    <3>1. us[i] = RuApplyLostLease(ts[i])
      BY <2>1, <2>2, Zenon
    <3>2. RuTaskOk(ts[i], ops, done)
      BY <1>0, Zenon
    <3> HIDE DEF us
    <3> QED BY <1>0, <2>2, <3>1, <3>2, RuLostLease, Zenon
  <2>3. CASE ~RuExpired(ts[i])
    <3>1. us[i] = ts[i]
      BY <2>1, <2>3, Zenon
    <3> HIDE DEF us
    <3> QED BY <1>0, <3>1, RuStays, Zenon
  <2> QED BY <2>2, <2>3, Zenon
<1> HIDE DEF us
<1>3. us \in Seq(RuTaskSet)
  <2>1. us = [i \in 1..Len(ts) |-> us[i]]
    BY <1>0, <1>1 DEF us, RuReconcileExpired
  <2>2. \A i \in 1..Len(ts) : us[i] \in RuTaskSet
    BY <1>0, <1>2 DEF RuTaskOk
  <2> QED BY <1>0, <2>1, <2>2
<1>4. RuMoved(ts, us, 0)
  BY <1>1, <1>2, Zenon DEF RuMoved
<1>5. \A i \in DOMAIN us : RuTaskOk(us[i], ops, done)
  BY <1>1, <1>2, Zenon
<1>6. RuTablesOk(us, late, ops, done)
  BY <1>3, <1>4, <1>5, RuTablesMoved, Zenon
<1> QED BY <1>1, <1>4, <1>6, Zenon DEF us

\* one task of a table moves
LEMMA RuOneMoves ==
    ASSUME NEW ts, NEW late, NEW ops, NEW done, RuTablesOk(ts, late, ops, done),
           NEW i \in DOMAIN ts, NEW u, NEW op, RuTaskOk(u, ops, done), RuMove(ts[i], u, op)
    PROVE  /\ RuTablesOk([ts EXCEPT ![i] = u], late, ops, done)
           /\ RuMoved(ts, [ts EXCEPT ![i] = u], op)
           /\ DOMAIN [ts EXCEPT ![i] = u] = DOMAIN ts
<1> DEFINE us == [ts EXCEPT ![i] = u]
<1>0. ts \in Seq(RuTaskSet) /\ \A j \in DOMAIN ts : RuTaskOk(ts[j], ops, done)
  BY Zenon DEF RuTablesOk
<1>1. DOMAIN us = DOMAIN ts /\ us[i] = u /\ \A j \in DOMAIN ts \ {i} : us[j] = ts[j]
  BY Zenon
<1>2. u \in RuTaskSet
  BY Zenon DEF RuTaskOk
<1>3. us \in Seq(RuTaskSet)
  BY <1>0, <1>2
<1> HIDE DEF us
<1>4. ASSUME NEW j \in DOMAIN ts PROVE RuTaskOk(us[j], ops, done) /\ RuMove(ts[j], us[j], op)
  <2>1. CASE j = i
    BY <1>1, <2>1, Zenon
  <2>2. CASE j # i
    <3>1. us[j] = ts[j]
      BY <1>1, <2>2, Zenon
    <3>2. RuMove(ts[j], ts[j], op)
      BY Zenon DEF RuMove
    <3> QED BY <1>0, <3>1, <3>2, Zenon
  <2> QED BY <2>1, <2>2, Zenon
<1>5. RuMoved(ts, us, op)
  BY <1>1, <1>4, Zenon DEF RuMoved
<1>6. RuTablesOk(us, late, ops, done)
  <2>1. \A j \in DOMAIN us : RuTaskOk(us[j], ops, done)
    BY <1>1, <1>4, Zenon
  <2> QED BY <1>3, <1>5, <2>1, RuTablesMoved, Zenon
<1> QED BY <1>1, <1>5, <1>6, Zenon DEF us

\* a table that moved twice has moved
LEMMA RuMovedTwice ==
    ASSUME NEW ts, NEW us, NEW vs, NEW op, RuMoved(ts, us, 0), RuMoved(us, vs, op)
    PROVE  RuMoved(ts, vs, op)
<1>1. ASSUME NEW i \in DOMAIN ts PROVE i \in DOMAIN vs /\ RuMove(ts[i], vs[i], op)
  <2>1. i \in DOMAIN us /\ RuMove(ts[i], us[i], 0)
    BY Zenon DEF RuMoved
  <2>2. i \in DOMAIN vs /\ RuMove(us[i], vs[i], op)
    BY <2>1, Zenon DEF RuMoved
  <2> QED BY <2>1, <2>2, Zenon DEF RuMove
<1> QED BY <1>1, Zenon DEF RuMoved

\* a task being cancelled keeps its lease
LEMMA RuCancelMoves ==
    ASSUME NEW t, NEW ops \in Nat, NEW done, RuTaskOk(t, ops, done), ~RuTerminal(t)
    PROVE  /\ RuTaskOk([t EXCEPT !.cancel = TRUE, !.st = "cancel_requested"], ops, done)
           /\ RuMove(t, [t EXCEPT !.cancel = TRUE, !.st = "cancel_requested"], 0)
<1> DEFINE u == [t EXCEPT !.cancel = TRUE, !.st = "cancel_requested"]
<1>1. t \in RuTaskSet
  BY Zenon DEF RuTaskOk
<1>2. u \in RuTaskSet
  BY <1>1, RuNames, Zenon DEF RuTaskSet
<1>3. /\ u.st = "cancel_requested" /\ u.stage = t.stage /\ u.act = t.act
      /\ u.plan = t.plan /\ u.left = t.left /\ u.resume = t.resume
      /\ u.proof = t.proof
  BY <1>1, Zenon DEF RuTaskSet
<1> HIDE DEF u
<1>4. RuTaskOk(u, ops, done)
  BY <1>2, <1>3, Zenon DEF RuTaskOk, RuLeased
<1>5. RuMove(t, u, 0)
  BY <1>3, Zenon DEF RuMove, RuCovered, RuLeased, RuTerminal
<1> QED BY <1>4, <1>5, Zenon DEF u

\* a task cancelled in the queue
LEMMA RuCancelQueued ==
    ASSUME NEW t, NEW ops \in Nat, NEW done, RuTaskOk(t, ops, done), t.st = "queued"
    PROVE  LET u == [RuClearLease(t) EXCEPT !.cancel = TRUE, !.st = "cancelled",
                                            !.stage = "cancelled"]
           IN  RuTaskOk(u, ops, done) /\ RuMove(t, u, 0)
<1> DEFINE c == RuClearLease(t)
<1>1. t \in RuTaskSet
  BY Zenon DEF RuTaskOk
<1>2. /\ c \in RuTaskSet /\ c.act = t.act /\ c.proof = t.proof
      /\ c.plan = 0 /\ c.resume = 0
  BY <1>1, RuCleared, Zenon
<1> HIDE DEF c
<1> DEFINE u == [c EXCEPT !.cancel = TRUE, !.st = "cancelled", !.stage = "cancelled"]
<1>3. u \in RuTaskSet
  BY <1>2, RuNames, Zenon DEF RuTaskSet
<1>4. /\ u.st = "cancelled" /\ u.stage = "cancelled" /\ u.act = c.act
      /\ u.plan = c.plan /\ u.resume = c.resume /\ u.proof = c.proof
  BY <1>2, Zenon DEF RuTaskSet
<1> HIDE DEF u
<1>5. RuTaskOk(u, ops, done)
  BY <1>2, <1>3, <1>4, RuClosed, Zenon
<1>6. RuMove(t, u, 0)
  BY <1>2, <1>4, Zenon DEF RuMove, RuCovered, RuLeased, RuTerminal
<1> QED BY <1>5, <1>6, Zenon DEF u, c

\* the fields of a report as a proof
LEMMA RuProofFields ==
    /\ \A q \in RuProofs : q.worker \in Nat /\ q.token \in Nat /\ q.rep \in RuReports
    /\ \A w, k \in Nat, r \in RuReports : [worker |-> w, token |-> k, rep |-> r] \in RuProofs
    /\ \A r \in RuReports : r.op \in Nat
    /\ RuNoProof.rep.kind = "none" /\ RuNoProof \in RuProofs
BY Zenon DEF RuProofs, RuReports, RuNoProof, RuReport

\* the server gives up on a task, or leases it to the worker inst
LEMMA RuClaimMoves ==
    ASSUME NEW t, NEW ops \in Nat, NEW done, RuTaskOk(t, ops, done), t.st = "queued",
           NEW inst \in Nat, NEW u,
           \/ u = [t EXCEPT !.st = "failed", !.stage = "failed", !.code = "failed_closed"]
           \/ u = [t EXCEPT !.st = "claimed", !.stage = "claimed", !.plan = 0,
                            !.resume = 0, !.attempt = @ + 1, !.owner = inst,
                            !.left = RuLease]
    PROVE  RuTaskOk(u, ops, done) /\ RuMove(t, u, 0) /\ u.attempt \in Nat
<1>0. t \in RuTaskSet /\ RuLease \in Nat
  BY RuAssumption, Zenon DEF RuTaskOk
<1>1. t.stage # "awaiting_restart" /\ t.resume = 0
  BY Zenon DEF RuTaskOk, RuLeased
<1>2. /\ u \in RuTaskSet /\ u.act = t.act /\ u.proof = t.proof
      /\ u.plan \in {t.plan, 0} /\ u.resume = 0
      /\ u.stage # "awaiting_restart" /\ u.st # "succeeded"
  <2>1. CASE u = [t EXCEPT !.st = "failed", !.stage = "failed", !.code = "failed_closed"]
    BY <1>0, <1>1, <2>1, RuEnds, Zenon
  <2>2. CASE u = [t EXCEPT !.st = "claimed", !.stage = "claimed", !.plan = 0,
                           !.resume = 0, !.attempt = @ + 1, !.owner = inst,
                           !.left = RuLease]
    <3>0. t.attempt + 1 \in Nat /\ inst \in Nat
      BY <1>0 DEF RuTaskSet
    <3>1. u \in RuTaskSet
      BY ONLY <1>0, <2>2, <3>0, RuNames, Zenon DEF RuTaskSet
    <3>2. /\ u.act = t.act /\ u.proof = t.proof /\ u.plan = 0 /\ u.resume = 0
          /\ u.stage = "claimed" /\ u.st = "claimed"
      BY ONLY <1>0, <2>2, Zenon DEF RuTaskSet
    <3> QED BY <3>1, <3>2, Zenon
  <2> QED BY <2>1, <2>2, Zenon
<1>3. RuTaskOk(u, ops, done)
  BY <1>2 DEF RuTaskOk
<1>4. RuMove(t, u, 0)
  BY <1>2, Zenon DEF RuMove, RuCovered, RuLeased, RuTerminal
<1>5. u.attempt \in Nat
  BY <1>2, Zenon DEF RuTaskSet
<1> QED BY <1>3, <1>4, <1>5, Zenon

\* a renewed lease
RuRenewed(t, st) == [t EXCEPT !.stage = "executing", !.left = RuLease, !.st = st]

\* renewing the lease keeps a task sound and where it was
LEMMA RuRenewMoves ==
    ASSUME NEW t, NEW ops \in Nat, NEW done, RuTaskOk(t, ops, done),
           RuLeased(t), t.stage \in {"claimed", "executing"},
           NEW st \in {"cancel_requested", "running"}
    PROVE  RuTaskOk(RuRenewed(t, st), ops, done) /\ RuMove(t, RuRenewed(t, st), 0)
<1>0. t \in RuTaskSet /\ RuLease \in Nat
  BY RuAssumption, Zenon DEF RuTaskOk
<1> DEFINE u == RuRenewed(t, st)
<1> USE DEF RuRenewed
<1>1. u \in RuTaskSet
  BY <1>0, RuNames, Zenon DEF RuTaskSet
<1>2. /\ u.stage = "executing" /\ u.st = st /\ u.act = t.act /\ u.plan = t.plan
      /\ u.resume = t.resume /\ u.proof = t.proof
  BY <1>0, Zenon DEF RuTaskSet
<1> HIDE DEF u, RuRenewed
<1>3. RuTaskOk(u, ops, done)
  BY <1>1, <1>2, Zenon DEF RuTaskOk
<1>4. RuMove(t, u, 0)
  BY <1>2, Zenon DEF RuMove, RuCovered, RuLeased, RuTerminal
<1> QED BY <1>3, <1>4, Zenon DEF u

\* a report that ends a task leaves its proof
LEMMA RuFinalMoves ==
    ASSUME NEW t, NEW ops \in Nat, NEW done, RuTaskOk(t, ops, done), ~RuTerminal(t),
           NEW q \in RuProofs, RuSoundReport(q.rep, t, ops, done), q.rep.kind \in RuFinals
    PROVE  LET v == RuApplyReport(t, q.rep)
               u == [v EXCEPT !.proof = q]
           IN  RuTerminal(v) /\ RuTaskOk(u, ops, done) /\ RuMove(t, u, 0)
<1> DEFINE c == RuClearLease(t)
           r == q.rep
           v == RuApplyReport(t, q.rep)
           u == [v EXCEPT !.proof = q]
<1>1. t \in RuTaskSet
  BY Zenon DEF RuTaskOk
<1>2. /\ c \in RuTaskSet /\ c.act = t.act /\ c.proof = t.proof
      /\ c.plan = 0 /\ c.resume = 0
  BY <1>1, RuCleared, Zenon
<1>3. r.op \in Nat /\ r.code \in {"none", "failed_closed"} \cup RuActs
  BY Zenon DEF RuProofs, RuReports
<1>4. \/ /\ r.kind = "succeeded"
         /\ v = [c EXCEPT !.st = "succeeded", !.stage = "completed", !.result = r.op,
                          !.code = "none"]
      \/ /\ r.kind = "failed"
         /\ v = [c EXCEPT !.st = "failed", !.stage = "failed", !.code = r.code]
      \/ /\ r.kind = "cancelled"
         /\ v = [c EXCEPT !.st = "cancelled", !.stage = "cancelled"]
  BY Zenon DEF RuApplyReport, RuFinals
<1> HIDE DEF c, v
<1>5. /\ v \in RuTaskSet /\ v.act = t.act /\ v.plan = 0 /\ v.resume = 0
      /\ v.stage # "awaiting_restart" /\ v.st \in {"succeeded", "failed", "cancelled"}
      /\ v.st = "succeeded" => r.kind = "succeeded" /\ v.result = r.op
  <2> HIDE DEF r
  <2>1. ASSUME r.kind = "succeeded",
               v = [c EXCEPT !.st = "succeeded", !.stage = "completed", !.result = r.op,
                             !.code = "none"]
        PROVE  <1>5!:
    <3>1. v \in RuTaskSet
      BY <1>2, <1>3, <2>1, RuNames, Zenon DEF RuTaskSet
    <3>2. /\ v.act = c.act /\ v.plan = c.plan /\ v.resume = c.resume
          /\ v.stage = "completed" /\ v.st = "succeeded" /\ v.result = r.op
      BY <1>2, <2>1, Zenon DEF RuTaskSet
    <3> QED BY <1>2, <2>1, <3>1, <3>2, Zenon
  <2>2. ASSUME r.kind = "failed",
               v = [c EXCEPT !.st = "failed", !.stage = "failed", !.code = r.code]
        PROVE  <1>5!:
    <3>1. v \in RuTaskSet
      BY <1>2, <1>3, <2>2, RuNames, Zenon DEF RuTaskSet
    <3>2. /\ v.act = c.act /\ v.plan = c.plan /\ v.resume = c.resume
          /\ v.stage = "failed" /\ v.st = "failed"
      BY <1>2, <2>2, Zenon DEF RuTaskSet
    <3> QED BY <1>2, <2>2, <3>1, <3>2, Zenon
  <2>3. ASSUME r.kind = "cancelled",
               v = [c EXCEPT !.st = "cancelled", !.stage = "cancelled"]
        PROVE  <1>5!:
    <3>1. v \in RuTaskSet
      BY <1>2, <2>3, RuNames, Zenon DEF RuTaskSet
    <3>2. /\ v.act = c.act /\ v.plan = c.plan /\ v.resume = c.resume
          /\ v.stage = "cancelled" /\ v.st = "cancelled"
      BY <1>2, <2>3, Zenon DEF RuTaskSet
    <3> QED BY <1>2, <2>3, <3>1, <3>2, Zenon
  <2> QED BY <1>4, <2>1, <2>2, <2>3, Zenon
<1>6. /\ u \in RuTaskSet /\ u.act = v.act /\ u.plan = v.plan /\ u.resume = v.resume
      /\ u.stage = v.stage /\ u.st = v.st /\ u.result = v.result /\ u.proof = q
  BY <1>5, Zenon DEF RuTaskSet
<1> HIDE DEF u
<1>7. RuTaskOk(u, ops, done)
  BY <1>5, <1>6 DEF RuTaskOk, RuSoundReport
<1>8. u.proof # RuNoProof
  BY <1>6, RuProofFields, Zenon DEF RuFinals
<1>9. RuMove(t, u, 0)
  BY <1>5, <1>6, <1>8, Zenon DEF RuMove, RuCovered, RuTerminal
<1>10. RuTerminal(v)
  BY <1>5, Zenon DEF RuTerminal
<1> QED BY <1>7, <1>9, <1>10, Zenon DEF u, v

\* the plan that a report brings
RuPlanOf(r) == IF r.kind = "awaiting" THEN r.op ELSE 0

\* a report that a task goes on
LEMMA RuGoesOnMoves ==
    ASSUME NEW t, NEW ops \in Nat, NEW done, RuTaskOk(t, ops, done), ~RuTerminal(t),
           NEW q \in RuProofs, RuSoundReport(q.rep, t, ops, done),
           q.rep.kind \in {"started", "awaiting"}, RuReportAccepted(t, q)
    PROVE  LET u == RuApplyReport(t, q.rep)
           IN  /\ ~RuTerminal(u)
               /\ RuTaskOk(u, ops, done) /\ RuMove(t, u, RuPlanOf(q.rep))
               /\ q.rep.kind = "awaiting" =>
                     /\ RuLeased(u) /\ u.stage = "awaiting_restart"
                     /\ \/ u = t /\ t.plan = q.rep.op
                        \/ u.left = RuResume /\ t.resume = 0
<1> DEFINE u == RuApplyReport(t, q.rep)
           r == q.rep
<1>1. t \in RuTaskSet /\ RuResume \in Nat /\ r.op \in Nat
  BY RuAssumption, RuProofFields, Zenon DEF RuTaskOk
<1>2. RuAuthorizeLease(t, q) /\ RuReportFits(t, r)
  BY Zenon DEF RuReportAccepted
<1>3. CASE r.kind = "started"
  <2>1. t.stage = "claimed" /\ u = [t EXCEPT !.st = "running", !.stage = "executing"]
    BY <1>2, <1>3, Zenon DEF RuReportFits, RuApplyReport
  <2> HIDE DEF u, r
  <2>2. u \in RuTaskSet
    BY <1>1, <2>1, RuNames, Zenon DEF RuTaskSet
  <2>3. /\ u.st = "running" /\ u.stage = "executing" /\ u.act = t.act /\ u.plan = t.plan
        /\ u.resume = t.resume /\ u.proof = t.proof
    BY <1>1, <2>1, Zenon DEF RuTaskSet
  <2>4. RuTaskOk(u, ops, done)
    BY <2>1, <2>2, <2>3, Zenon DEF RuTaskOk
  <2>5. RuMove(t, u, RuPlanOf(r))
    BY <2>1, <2>3, Zenon DEF RuMove, RuCovered, RuTerminal
  <2>6. ~RuTerminal(u)
    BY <2>3, Zenon DEF RuTerminal
  <2> QED BY <1>3, <2>4, <2>5, <2>6, Zenon DEF u, r
<1>4. CASE r.kind = "awaiting"
  <2>0. RuLeased(t)
    BY <1>2, Zenon DEF RuAuthorizeLease
  <2>1. CASE t.stage = "awaiting_restart"
    <3>1. u = t /\ t.plan = r.op
      BY <1>2, <1>4, <2>1, Zenon DEF RuReportFits, RuApplyReport
    <3>2. RuMove(t, t, RuPlanOf(r))
      BY Zenon DEF RuMove
    <3> HIDE DEF u, r
    <3> QED BY <2>0, <2>1, <3>1, <3>2, Zenon DEF u, r
  <2>2. CASE t.stage # "awaiting_restart"
    <3>1. /\ t.stage = "executing"
          /\ u = [t EXCEPT !.st = "running", !.stage = "awaiting_restart",
                           !.left = RuResume, !.plan = r.op, !.resume = RuResume]
      BY <1>2, <1>4, <2>2, Zenon DEF RuReportFits, RuApplyReport
    <3> HIDE DEF u, r
    <3>2. u \in RuTaskSet
      BY <1>1, <3>1, RuNames, Zenon DEF RuTaskSet
    <3>3. /\ u.st = "running" /\ u.stage = "awaiting_restart" /\ u.act = t.act
          /\ u.plan = r.op /\ u.resume = RuResume /\ u.left = RuResume
          /\ u.proof = t.proof
      BY <1>1, <3>1, Zenon DEF RuTaskSet
    <3>4. r.op <= ops
      BY Zenon DEF RuSoundReport, r
    <3>5. RuTaskOk(u, ops, done)
      BY <1>1, <3>2, <3>3, <3>4 DEF RuTaskOk, RuLeased
    <3>6. RuMove(t, u, RuPlanOf(r))
      BY <1>4, <3>1, <3>3, Zenon DEF RuMove, RuCovered, RuTerminal, RuPlanOf
    <3>7. ~RuTerminal(u) /\ RuLeased(u) /\ t.resume = 0
      BY <2>2, <3>3, Zenon DEF RuTerminal, RuLeased, RuTaskOk
    <3> QED BY <3>3, <3>5, <3>6, <3>7, Zenon DEF u, r
  <2> QED BY <2>1, <2>2, Zenon
<1> QED BY <1>3, <1>4, Zenon

\* a report handled by the server: the table after it
LEMMA RuHandleTables ==
    ASSUME NEW ts, NEW late, NEW ops, NEW done, RuTablesOk(ts, late, ops, done),
           NEW i \in DOMAIN ts, NEW q \in RuProofs, RuSoundReport(q.rep, ts[i], ops, done)
    PROVE  /\ RuTablesOk(RuHandleReport(ts, i, q), late, ops, done)
           /\ RuMoved(ts, RuHandleReport(ts, i, q), RuPlanOf(q.rep))
           /\ q.rep.kind = "awaiting" /\ RuReportAccepted(ts[i], q) =>
                 LET t == ts[i]
                     u == RuHandleReport(ts, i, q)[i]
                 IN  /\ RuLeased(u) /\ u.stage = "awaiting_restart"
                     /\ \/ u = t /\ t.plan = q.rep.op
                        \/ u.left = RuResume /\ t.resume = 0
<1> DEFINE us == RuHandleReport(ts, i, q)
           t == ts[i]
           v == RuApplyReport(t, q.rep)
           op == RuPlanOf(q.rep)
<1>0. ops \in Nat /\ RuTaskOk(t, ops, done)
  BY Zenon DEF RuTablesOk
<1>1. CASE ~RuReportAccepted(t, q) \/ RuTerminal(t)
  <2>1. us = ts
    BY <1>1, Zenon DEF RuHandleReport
  <2>2. RuMoved(ts, ts, op)
    BY Zenon DEF RuMoved, RuMove
  <2>3. ~(q.rep.kind = "awaiting" /\ RuReportAccepted(t, q))
    <3>1. ASSUME RuTerminal(t), t.proof = q, q.rep.kind = "awaiting" PROVE FALSE
      BY <1>0, <3>1, RuProofFields, Zenon DEF RuTaskOk, RuFinals
    <3> QED BY <1>1, <3>1, Zenon DEF RuReportAccepted
  <2> QED BY <2>1, <2>2, <2>3, Zenon
<1>2. CASE RuReportAccepted(t, q) /\ ~RuTerminal(t)
  <2>1. us = [ts EXCEPT ![i] = IF RuTerminal(v) THEN [v EXCEPT !.proof = q] ELSE v]
    BY <1>2, Zenon DEF RuHandleReport
  <2>2. q.rep.kind \in RuFinals \/ q.rep.kind \in {"started", "awaiting"}
    BY Zenon DEF RuSoundReport, RuKinds, RuFinals
  <2>3. CASE q.rep.kind \in RuFinals
    <3> DEFINE u == [v EXCEPT !.proof = q]
    <3>1. RuTerminal(v) /\ RuTaskOk(u, ops, done) /\ RuMove(t, u, 0)
      BY <1>0, <1>2, <2>3, RuFinalMoves, Zenon
    <3>2. us = [ts EXCEPT ![i] = u]
      BY <2>1, <3>1, Zenon
    <3> HIDE DEF u, us, v
    <3>3. q.rep.kind # "awaiting" /\ op = 0
      BY <2>3, Zenon DEF RuFinals, RuPlanOf
    <3>4. RuTablesOk(us, late, ops, done) /\ RuMoved(ts, us, 0)
      BY <3>1, <3>2, RuOneMoves, Zenon
    <3> QED BY <3>3, <3>4, Zenon DEF us
  <2>4. CASE q.rep.kind \in {"started", "awaiting"}
    <3>1. /\ ~RuTerminal(v) /\ RuTaskOk(v, ops, done) /\ RuMove(t, v, op)
          /\ q.rep.kind = "awaiting" =>
                /\ RuLeased(v) /\ v.stage = "awaiting_restart"
                /\ \/ v = t /\ t.plan = q.rep.op
                   \/ v.left = RuResume /\ t.resume = 0
      BY <1>0, <1>2, <2>4, RuGoesOnMoves, Zenon
    <3>2. us = [ts EXCEPT ![i] = v]
      BY <2>1, <3>1, Zenon
    <3> HIDE DEF us, v, op
    <3>3. us[i] = v
      BY <3>2, Zenon
    <3>4. RuTablesOk(us, late, ops, done) /\ RuMoved(ts, us, op)
      BY <3>1, <3>2, RuOneMoves, Zenon
    <3> QED BY <3>1, <3>3, <3>4, Zenon DEF us, op
  <2> QED BY <2>2, <2>3, <2>4, Zenon
<1> QED BY <1>1, <1>2, Zenon

\* a report that stays on its way
LEMMA RuLateAdded ==
    ASSUME NEW ts, NEW late, NEW ops, NEW done, RuTablesOk(ts, late, ops, done),
           NEW i \in DOMAIN ts, NEW q \in RuProofs, RuSoundReport(q.rep, ts[i], ops, done)
    PROVE  RuTablesOk(ts, late \cup {[task |-> i, q |-> q]}, ops, done)
<1>1. RuLateOk([task |-> i, q |-> q], ts, ops, done)
  BY Zenon DEF RuLateOk
<1> QED BY <1>1, Zenon DEF RuTablesOk

\* more operations, more of them completed, fewer reports on their way
LEMMA RuTablesGrow ==
    ASSUME NEW ts, NEW late, NEW ops, NEW done, RuTablesOk(ts, late, ops, done),
           NEW late2 \in SUBSET late, NEW ops2 \in Nat, ops <= ops2,
           NEW done2, done \subseteq done2
    PROVE  RuTablesOk(ts, late2, ops2, done2)
<1>0. ts \in Seq(RuTaskSet) /\ ops \in Nat
  BY Zenon DEF RuTablesOk
<1>1. ASSUME NEW i \in DOMAIN ts PROVE RuTaskOk(ts[i], ops2, done2)
  <2>1. RuTaskOk(ts[i], ops, done)
    BY Zenon DEF RuTablesOk
  <2>2. ts[i].plan \in Nat
    BY <2>1, Zenon DEF RuTaskOk, RuTaskSet
  <2>3. ts[i].plan <= ops2
    BY <1>0, <2>1, <2>2 DEF RuTaskOk
  <2> QED BY <2>1, <2>3, Zenon DEF RuTaskOk
<1>2. ASSUME NEW m \in late2 PROVE RuLateOk(m, ts, ops2, done2)
  <2>1. RuLateOk(m, ts, ops, done)
    BY Zenon DEF RuTablesOk
  <2>2. m.q.rep.op \in Nat
    BY <2>1, RuProofFields, Zenon DEF RuLateOk
  <2> QED BY <1>0, <2>1, <2>2 DEF RuLateOk, RuSoundReport
<1> QED BY <1>0, <1>1, <1>2, Zenon DEF RuTablesOk

\* the receipt is still one when the table moves
LEMMA RuReceiptMoved ==
    ASSUME NEW rc, NEW ts, NEW us, NEW op, NEW ops \in Nat, RuReceiptOk(rc, ts, ops),
           RuMoved(ts, us, op), NEW ops2 \in Nat, ops <= ops2
    PROVE  RuReceiptOk(rc, us, ops2)
<1>1. rc.op \in Nat
  BY Zenon DEF RuReceiptOk, RuReceipts
<1> QED BY <1>1 DEF RuReceiptOk, RuMoved

\* the worker's place is still right when the table moves
LEMMA RuWorkerMoved ==
    ASSUME NEW w, NEW rc, NEW ts, NEW us, NEW op, NEW late, NEW ops \in Nat, NEW done,
           RuWorkerOk(w, rc, ts, late, ops, done), RuReceiptOk(rc, ts, ops),
           RuMoved(ts, us, op), w.pc = "bound" => op # w.op,
           NEW late2 \in SUBSET late, NEW ops2 \in Nat, ops <= ops2,
           NEW done2, done \subseteq done2
    PROVE  RuWorkerOk(w, rc, us, late2, ops2, done2)
<1>0. w \in RuWorkers /\ w.left \in Nat /\ w.op \in Nat /\ w.rep.op \in Nat
  BY RuProofFields, Zenon DEF RuWorkerOk, RuWorkers
<1>1. \A i \in DOMAIN ts : i \in DOMAIN us /\ us[i].act = ts[i].act
  BY Zenon DEF RuMoved, RuMove
<1>2. \A i \in DOMAIN ts : \A n \in Nat : RuCovered(ts[i], n) => RuCovered(us[i], n)
  BY Zenon DEF RuMoved, RuMove
<1>3. \A i \in DOMAIN ts : us[i].plan \in {ts[i].plan, 0, op}
  BY Zenon DEF RuMoved, RuMove
<1>4. ASSUME NEW i \in DOMAIN ts, RuSoundReport(w.rep, ts[i], ops, done)
      PROVE  RuSoundReport(w.rep, us[i], ops2, done2)
  BY <1>0, <1>1, <1>4 DEF RuSoundReport
<1>5. w.pc \in RuTaskPcs => w.task \in DOMAIN ts /\ w.task \in DOMAIN us
  BY <1>1, Zenon DEF RuWorkerOk
<1>6. w.pc \in RuReceiptPcs => rc.op # 0 /\ rc.task \in DOMAIN ts
  BY Zenon DEF RuWorkerOk, RuReceiptOk
<1>7. w.pc = "working" => ~RuRequiresRestart(us[w.task].act)
  BY <1>1, <1>5, Zenon DEF RuWorkerOk, RuTaskPcs
<1>8. w.pc = "finished" => RuSoundReport(w.rep, us[w.task], ops2, done2)
  BY <1>4, <1>5, Zenon DEF RuWorkerOk, RuTaskPcs
<1>9. w.pc = "reporting" => RuSoundReport(w.rep, us[rc.task], ops2, done2)
  BY <1>4, <1>6, Zenon DEF RuWorkerOk, RuReceiptPcs
<1>10. w.pc \in {"bound", "answered"} => rc.op = w.op /\ rc.task = w.task /\ rc.op # 0
  BY Zenon DEF RuWorkerOk
<1>11. ASSUME w.pc = "bound"
       PROVE  /\ us[w.task].plan # w.op
              /\ \A m \in late2 : m.q.rep.kind = "awaiting" => m.q.rep.op # w.op
  <2>1. w.task \in DOMAIN ts
    BY <1>5, <1>11, Zenon DEF RuTaskPcs
  <2>2. ts[w.task].plan # w.op /\ w.op # 0 /\ op # w.op
    BY <1>10, <1>11, Zenon DEF RuWorkerOk
  <2>3. us[w.task].plan # w.op
    BY <1>3, <2>1, <2>2, Zenon
  <2> QED BY <1>11, <2>3, Zenon DEF RuWorkerOk
<1>12. w.pc = "answered" => RuCovered(us[w.task], w.left)
  BY <1>0, <1>2, <1>5, Zenon DEF RuWorkerOk, RuTaskPcs
<1>13. w.pc = "reanswered" => RuCovered(us[rc.task], w.left)
  BY <1>0, <1>2, <1>6, Zenon DEF RuWorkerOk, RuReceiptPcs
<1> QED BY <1>0, <1>5, <1>6, <1>7, <1>8, <1>9, <1>10, <1>11, <1>12, <1>13, Zenon
        DEF RuWorkerOk

\* a worker that is not at a task knows nothing
LEMMA RuIdleOk ==
    ASSUME NEW inst \in Nat, NEW rc, NEW ts, NEW late, NEW ops, NEW done
    PROVE  /\ RuWorkerOk(RuIdleWorker(inst), rc, ts, late, ops, done)
           /\ RuWorkerOk([RuIdleWorker(inst) EXCEPT !.pc = "down"], rc, ts, late, ops, done)
<1> DEFINE w == RuIdleWorker(inst)
           d == [w EXCEPT !.pc = "down"]
<1>1. w \in RuWorkers /\ w.pc = "idle"
  BY Zenon DEF RuIdleWorker, RuWorkers, RuReport, RuReports, RuPcs
<1>2. d \in RuWorkers /\ d.pc = "down"
  <2> HIDE DEF w
  <2>1. "down" \in RuPcs
    BY Zenon DEF RuPcs
  <2> QED BY <1>1, <2>1, Zenon DEF RuWorkers
<1> HIDE DEF w, d
<1>3. RuWorkerOk(w, rc, ts, late, ops, done)
  BY <1>1, Zenon DEF RuWorkerOk, RuTaskPcs, RuReceiptPcs
<1>4. RuWorkerOk(d, rc, ts, late, ops, done)
  BY <1>2, Zenon DEF RuWorkerOk, RuTaskPcs, RuReceiptPcs
<1> QED BY <1>3, <1>4, Zenon DEF w, d

\* a new task
LEMMA RuCreateTables ==
    ASSUME NEW ts, NEW late, NEW ops, NEW done, RuTablesOk(ts, late, ops, done),
           NEW act \in RuActions
    PROVE  /\ RuTablesOk(Append(ts, RuNewTask(act)), late, ops, done)
           /\ RuMoved(ts, Append(ts, RuNewTask(act)), 0)
<1> DEFINE t == RuNewTask(act)
           us == Append(ts, t)
<1>0. /\ ts \in Seq(RuTaskSet) /\ ops \in Nat
      /\ \A i \in DOMAIN ts : RuTaskOk(ts[i], ops, done)
  BY Zenon DEF RuTablesOk
<1>1. t \in RuTaskSet
  <2>1. act \in RuActs
    BY RuAssumption, Zenon DEF RuActs
  <2> QED BY <2>1, RuNames, RuProofFields, Zenon DEF RuNewTask, RuTaskSet
<1>2. RuTaskOk(t, ops, done)
  <2>1. t.plan = 0 /\ t.proof = RuNoProof /\ t.stage = "queued" /\ t.resume = 0 /\ t.st = "queued"
    BY Zenon DEF RuNewTask
  <2> HIDE DEF t
  <2> QED BY <1>0, <1>1, <2>1 DEF RuTaskOk
<1> HIDE DEF t
<1>3. us \in Seq(RuTaskSet) /\ Len(us) = Len(ts) + 1
  BY <1>0, <1>1
<1>4. \A i \in DOMAIN ts : i \in DOMAIN us /\ us[i] = ts[i]
  BY <1>0, <1>1
<1>5. \A i \in DOMAIN us : i \in DOMAIN ts \/ us[i] = t
  BY <1>0, <1>1
<1> HIDE DEF us
<1>6. RuMoved(ts, us, 0)
  BY <1>4, RuStays, Zenon DEF RuMoved
<1>7. \A i \in DOMAIN us : RuTaskOk(us[i], ops, done)
  BY <1>0, <1>2, <1>4, <1>5, Zenon
<1>8. RuTablesOk(us, late, ops, done)
  BY <1>3, <1>6, <1>7, RuTablesMoved, Zenon
<1> QED BY <1>6, <1>8, Zenon DEF us, t

\* one tick over a task
LEMMA RuTickMoves ==
    ASSUME NEW t, NEW ops \in Nat, NEW done, RuTaskOk(t, ops, done), NEW u,
           u = [t EXCEPT !.left = RuDec(@), !.resume = RuDec(@)]
    PROVE  /\ RuTaskOk(u, ops, done)
           /\ u.act = t.act /\ u.plan = t.plan
           /\ \A n \in Nat : RuCovered(t, n) => RuCovered(u, RuDec(n))
<1>1. t \in RuTaskSet /\ t.left \in Nat /\ t.resume \in Nat
  BY Zenon DEF RuTaskOk, RuTaskSet
<1>2. \A n \in Nat : RuDec(n) \in Nat /\ (\A k \in Nat : n <= k => RuDec(n) <= RuDec(k))
                     /\ (n = 0 => RuDec(n) = 0) /\ (RuDec(n) > 0 => n > 0)
  BY DEF RuDec
<1>3. u = [t EXCEPT !.left = RuDec(t.left), !.resume = RuDec(t.resume)]
  OBVIOUS
<1>4. u \in RuTaskSet
  BY <1>1, <1>2, <1>3, Zenon DEF RuTaskSet
<1>5. /\ u.left = RuDec(t.left) /\ u.resume = RuDec(t.resume) /\ u.st = t.st
      /\ u.stage = t.stage /\ u.act = t.act /\ u.plan = t.plan /\ u.proof = t.proof
      /\ u.result = t.result
  BY <1>1, <1>3, Zenon DEF RuTaskSet
<1>6. RuTaskOk(u, ops, done)
  <2>1. u.stage = "awaiting_restart" => u.resume <= u.left
    BY <1>1, <1>2, <1>5, Zenon DEF RuTaskOk
  <2>2. u.stage # "awaiting_restart" => u.resume = 0
    BY <1>1, <1>2, <1>5, Zenon DEF RuTaskOk
  <2>3. u.stage = "awaiting_restart" => RuLeased(u)
    BY <1>5, Zenon DEF RuTaskOk, RuLeased
  <2> QED BY <1>4, <1>5, <2>1, <2>2, <2>3, Zenon DEF RuTaskOk
<1>7. ASSUME NEW n \in Nat, RuCovered(t, n) PROVE RuCovered(u, RuDec(n))
  BY <1>1, <1>2, <1>5, <1>7, Zenon DEF RuCovered, RuTerminal, RuLeased
<1> QED BY <1>5, <1>6, <1>7, Zenon

\* the table one tick later
RuTicked(ts) ==
    [i \in DOMAIN ts |-> [ts[i] EXCEPT !.left = RuDec(@), !.resume = RuDec(@)]]

\* one tick over the table
LEMMA RuTickTables ==
    ASSUME NEW ts, NEW late, NEW ops, NEW done, RuTablesOk(ts, late, ops, done),
           NEW us, us = RuTicked(ts)
    PROVE  /\ RuTablesOk(us, late, ops, done) /\ DOMAIN us = DOMAIN ts
           /\ \A i \in DOMAIN ts :
                 /\ us[i].act = ts[i].act /\ us[i].plan = ts[i].plan
                 /\ \A n \in Nat : RuCovered(ts[i], n) => RuCovered(us[i], RuDec(n))
<1>0. /\ ts \in Seq(RuTaskSet) /\ ops \in Nat
      /\ \A i \in DOMAIN ts : RuTaskOk(ts[i], ops, done)
      /\ \A m \in late : RuLateOk(m, ts, ops, done)
  BY Zenon DEF RuTablesOk
<1>1. DOMAIN us = DOMAIN ts
  BY Zenon DEF RuTicked
<1>2. ASSUME NEW i \in DOMAIN ts
      PROVE  /\ RuTaskOk(us[i], ops, done)
             /\ us[i].act = ts[i].act /\ us[i].plan = ts[i].plan
             /\ \A n \in Nat : RuCovered(ts[i], n) => RuCovered(us[i], RuDec(n))
  <2>1. us[i] = [ts[i] EXCEPT !.left = RuDec(@), !.resume = RuDec(@)]
    BY Zenon DEF RuTicked
  <2>2. RuTaskOk(ts[i], ops, done)
    BY <1>0, Zenon
  <2> QED BY <1>0, <2>1, <2>2, RuTickMoves, Zenon
<1>3. us \in Seq(RuTaskSet)
  <2>1. us = [i \in DOMAIN ts |-> us[i]]
    BY Zenon DEF RuTicked
  <2>2. \A i \in DOMAIN ts : us[i] \in RuTaskSet
    BY <1>2, Zenon DEF RuTaskOk
  <2> QED BY ONLY <1>0, <2>1, <2>2, RuSeqOf, Zenon
<1>4. ASSUME NEW m \in late PROVE RuLateOk(m, us, ops, done)
  <2>1. RuLateOk(m, ts, ops, done)
    BY <1>0, Zenon
  <2>2. m.task \in DOMAIN us /\ us[m.task].act = ts[m.task].act
    BY <1>1, <1>2, <2>1, Zenon DEF RuLateOk
  <2> QED BY <2>1, <2>2, Zenon DEF RuLateOk, RuSoundReport
<1>5. RuTablesOk(us, late, ops, done)
  BY <1>0, <1>1, <1>2, <1>3, <1>4, Zenon DEF RuTablesOk
<1> QED BY <1>1, <1>2, <1>5, Zenon

\* the invariant in its parts
LEMMA RuParts ==
    ASSUME RuIInv
    PROVE  /\ RuTablesOk(ruTasks, ruLate, ruOps, ruDone)
           /\ RuReceiptOk(ruReceipt, ruTasks, ruOps)
           /\ RuWorkerOk(ruW, ruReceipt, ruTasks, ruLate, ruOps, ruDone)
           /\ ruOps \in Nat /\ ruW \in RuWorkers
           /\ ruReceipt \in RuReceipts /\ ruQuar \in BOOLEAN
           /\ \A i \in DOMAIN ruTasks : RuTaskOk(ruTasks[i], ruOps, ruDone)
BY Zenon DEF RuIInv, RuTablesOk, RuReceiptOk, RuWorkerOk

\* the fields of a worker and of a receipt
LEMMA RuWorkerFields ==
    /\ \A w \in RuWorkers : /\ w.inst \in Nat /\ w.token \in Nat /\ w.task \in Nat
                            /\ w.op \in Nat /\ w.left \in Nat /\ w.rep \in RuReports
    /\ \A r \in RuReceipts : /\ r.worker \in Nat /\ r.token \in Nat /\ r.task \in Nat
                             /\ r.op \in Nat
BY Zenon DEF RuWorkers, RuReceipts

\* no receipt
LEMMA RuNoneOk ==
    ASSUME NEW ts, NEW ops \in Nat PROVE RuReceiptOk(RuNoReceipt, ts, ops)
BY DEF RuReceiptOk, RuNoReceipt, RuReceipts

\* Steps of the server: the worker and its receipt stay.
LEMMA RuServerKeeps ==
    ASSUME RuIInv, NEW op, RuTablesOk(ruTasks', ruLate, ruOps, ruDone),
           RuMoved(ruTasks, ruTasks', op), ruW.pc = "bound" => op # ruW.op,
           ruLate' \subseteq ruLate, ruDone \subseteq ruDone',
           ruOps' = ruOps, ruW' = ruW, ruReceipt' = ruReceipt, ruQuar' \in BOOLEAN
    PROVE  RuIInv'
<1> USE RuParts
<1>0. ruOps \in Nat /\ ruOps <= ruOps
  BY SMT
<1>1. RuTablesOk(ruTasks', ruLate', ruOps', ruDone')
  BY <1>0, RuTablesGrow, Zenon
<1>2. RuReceiptOk(ruReceipt', ruTasks', ruOps')
  BY <1>0, RuReceiptMoved, Zenon
<1>3. RuWorkerOk(ruW', ruReceipt', ruTasks', ruLate', ruOps', ruDone')
  BY <1>0, RuWorkerMoved, Zenon
<1> QED BY <1>1, <1>2, <1>3, Zenon DEF RuIInv

\* the plan 0 is nobody's
LEMMA RuNotBoundToNone == ASSUME RuIInv PROVE ruW.pc = "bound" => 0 # ruW.op
BY RuParts, SMT DEF RuWorkerOk

\* Every step of the server and of time keeps the invariant.
LEMMA RuServerSteps ==
    ASSUME RuIInv,
           \/ \E a \in RuActions : RuCreate(a)
           \/ \E i \in 1..RuMaxTasks : RuCancel(i)
           \/ RuSweep \/ RuLateReport
    PROVE  RuIInv'
<1> USE RuParts, RuNotBoundToNone
<1> DEFINE ts == RuReconcileExpired(ruTasks)
<1>0. /\ RuTablesOk(ts, ruLate, ruOps, ruDone) /\ RuMoved(ruTasks, ts, 0)
      /\ DOMAIN ts = DOMAIN ruTasks
  BY RuReconcileTables, Zenon
<1>1. ASSUME NEW a \in RuActions, RuCreate(a) PROVE RuIInv'
  <2>1. /\ ruTasks' = Append(ts, RuNewTask(a))
        /\ UNCHANGED <<ruW, ruReceipt, ruQuar, ruDone, ruOps, ruLate>>
    BY <1>1, Zenon DEF RuCreate
  <2> HIDE DEF ts
  <2>2. RuTablesOk(ruTasks', ruLate, ruOps, ruDone) /\ RuMoved(ts, ruTasks', 0)
    BY <1>0, <2>1, RuCreateTables, Zenon
  <2>3. RuMoved(ruTasks, ruTasks', 0)
    BY <1>0, <2>2, RuMovedTwice, Zenon
  <2> QED BY <2>1, <2>2, <2>3, RuServerKeeps, Zenon
<1>2. ASSUME NEW i \in 1..RuMaxTasks, RuCancel(i) PROVE RuIInv'
  <2>1. /\ i \in DOMAIN ruTasks
        /\ UNCHANGED <<ruW, ruReceipt, ruQuar, ruDone, ruOps, ruLate>>
        /\ ruTasks' = IF RuTerminal(ts[i]) \/ ts[i].cancel THEN ts
                      ELSE IF ts[i].st = "queued"
                      THEN [ts EXCEPT ![i] = [RuClearLease(ts[i]) EXCEPT !.cancel = TRUE,
                                              !.st = "cancelled", !.stage = "cancelled"]]
                      ELSE [ts EXCEPT ![i].cancel = TRUE, ![i].st = "cancel_requested"]
    BY <1>2, Zenon DEF RuCancel
  <2> HIDE DEF ts
  <2>2. i \in DOMAIN ts /\ RuTaskOk(ts[i], ruOps, ruDone)
    BY <1>0, <2>1, Zenon DEF RuTablesOk
  <2>3. RuTablesOk(ruTasks', ruLate, ruOps, ruDone) /\ RuMoved(ts, ruTasks', 0)
    <3>1. CASE ruTasks' = ts
      BY <1>0, <3>1, RuStays, Zenon DEF RuMoved
    <3>2. ASSUME ts[i].st = "queued", NEW u,
                 u = [RuClearLease(ts[i]) EXCEPT !.cancel = TRUE, !.st = "cancelled",
                                                 !.stage = "cancelled"],
                 ruTasks' = [ts EXCEPT ![i] = u]
          PROVE  RuTablesOk(ruTasks', ruLate, ruOps, ruDone) /\ RuMoved(ts, ruTasks', 0)
      <4>1. RuTaskOk(u, ruOps, ruDone) /\ RuMove(ts[i], u, 0)
        BY <2>2, <3>2, RuCancelQueued, Zenon
      <4> QED BY <1>0, <2>2, <3>2, <4>1, RuOneMoves, Zenon
    <3>3. ASSUME ~RuTerminal(ts[i]), NEW u,
                 u = [ts[i] EXCEPT !.cancel = TRUE, !.st = "cancel_requested"],
                 ruTasks' = [ts EXCEPT ![i] = u]
          PROVE  RuTablesOk(ruTasks', ruLate, ruOps, ruDone) /\ RuMoved(ts, ruTasks', 0)
      <4>1. RuTaskOk(u, ruOps, ruDone) /\ RuMove(ts[i], u, 0)
        BY <2>2, <3>3, RuCancelMoves, Zenon
      <4> QED BY <1>0, <2>2, <3>3, <4>1, RuOneMoves, Zenon
    <3>4. [ts EXCEPT ![i].cancel = TRUE, ![i].st = "cancel_requested"]
             = [ts EXCEPT ![i] = [ts[i] EXCEPT !.cancel = TRUE, !.st = "cancel_requested"]]
      BY <2>2, Zenon
    <3> QED BY <2>1, <3>1, <3>2, <3>3, <3>4, Zenon
  <2>4. RuMoved(ruTasks, ruTasks', 0)
    BY <1>0, <2>3, RuMovedTwice, Zenon
  <2> QED BY <2>1, <2>3, <2>4, RuServerKeeps, Zenon
<1>3. CASE RuSweep
  <2>1. ruTasks' = ts /\ UNCHANGED <<ruW, ruReceipt, ruQuar, ruDone, ruOps, ruLate>>
    BY <1>3, Zenon DEF RuSweep
  <2> HIDE DEF ts
  <2> QED BY <1>0, <2>1, RuServerKeeps, Zenon
<1>4. CASE RuLateReport
  <2>1. PICK m \in ruLate : /\ ruTasks' = RuHandleReport(ruTasks, m.task, m.q)
                            /\ ruLate' = ruLate \ {m}
    BY <1>4, Zenon DEF RuLateReport
  <2>2. UNCHANGED <<ruW, ruReceipt, ruQuar, ruDone, ruOps>>
    BY <1>4, Zenon DEF RuLateReport
  <2>3. /\ m.task \in DOMAIN ruTasks /\ m.q \in RuProofs
        /\ RuSoundReport(m.q.rep, ruTasks[m.task], ruOps, ruDone)
    BY Zenon DEF RuTablesOk, RuLateOk
  <2>4. /\ RuTablesOk(ruTasks', ruLate, ruOps, ruDone)
        /\ RuMoved(ruTasks, ruTasks', RuPlanOf(m.q.rep))
    BY <2>1, <2>3, RuHandleTables, Zenon
  <2>5. ruW.pc = "bound" => RuPlanOf(m.q.rep) # ruW.op
    BY Zenon DEF RuWorkerOk, RuPlanOf
  <2> QED BY <2>1, <2>2, <2>4, <2>5, RuServerKeeps, Zenon
<1> QED BY <1>1, <1>2, <1>3, <1>4, Zenon

\* Time passes for the leases, the receipt and the worker alike.
LEMMA RuTickKeeps == ASSUME RuIInv, RuTick PROVE RuIInv'
<1> USE RuParts
<1>0. /\ ruTasks' = RuTicked(ruTasks)
      /\ ruReceipt' = [ruReceipt EXCEPT !.left = RuDec(ruReceipt.left)]
      /\ ruW' = [ruW EXCEPT !.left = RuDec(ruW.left)]
      /\ UNCHANGED <<ruQuar, ruDone, ruOps, ruLate>>
  BY Zenon DEF RuTick, RuTicked
<1>1. /\ RuTablesOk(ruTasks', ruLate', ruOps', ruDone') /\ DOMAIN ruTasks' = DOMAIN ruTasks
      /\ \A i \in DOMAIN ruTasks :
            /\ ruTasks'[i].act = ruTasks[i].act /\ ruTasks'[i].plan = ruTasks[i].plan
            /\ \A n \in Nat : RuCovered(ruTasks[i], n) => RuCovered(ruTasks'[i], RuDec(n))
  <2>1. /\ RuTablesOk(ruTasks', ruLate, ruOps, ruDone) /\ DOMAIN ruTasks' = DOMAIN ruTasks
        /\ \A i \in DOMAIN ruTasks :
              /\ ruTasks'[i].act = ruTasks[i].act /\ ruTasks'[i].plan = ruTasks[i].plan
              /\ \A n \in Nat : RuCovered(ruTasks[i], n) => RuCovered(ruTasks'[i], RuDec(n))
    BY <1>0, RuTickTables
  <2> QED BY <1>0, <2>1, Zenon
<1>2. \A n \in Nat : RuDec(n) \in Nat
  BY DEF RuDec
<1>3. /\ ruReceipt' \in RuReceipts /\ ruReceipt'.op = ruReceipt.op
      /\ ruReceipt'.task = ruReceipt.task
  <2>1. ruReceipt.left \in Nat
    BY Zenon DEF RuReceipts
  <2> QED BY ONLY ruReceipt \in RuReceipts, <1>0, <1>2, <2>1, Zenon DEF RuReceipts
<1>4. RuReceiptOk(ruReceipt', ruTasks', ruOps')
  BY <1>0, <1>1, <1>3, Zenon DEF RuReceiptOk
<1>5. /\ ruW' \in RuWorkers /\ ruW'.pc = ruW.pc /\ ruW'.task = ruW.task
      /\ ruW'.op = ruW.op /\ ruW'.rep = ruW.rep /\ ruW'.left = RuDec(ruW.left)
  <2>1. ruW.left \in Nat
    BY RuWorkerFields, Zenon
  <2> QED BY ONLY ruW \in RuWorkers, <1>0, <1>2, <2>1, Zenon DEF RuWorkers
<1>6. RuWorkerOk(ruW', ruReceipt', ruTasks', ruLate', ruOps', ruDone')
  <2>0. ruW.left \in Nat
    BY RuWorkerFields, Zenon
  <2>1. /\ ruW.pc \in RuTaskPcs => ruW.task \in DOMAIN ruTasks
        /\ ruW.pc \in RuReceiptPcs => ruReceipt.op # 0 /\ ruReceipt.task \in DOMAIN ruTasks
    BY Zenon DEF RuWorkerOk, RuReceiptOk
  <2>2. ruW.pc = "working" => ~RuRequiresRestart(ruTasks'[ruW.task].act)
    BY <1>1, <2>1, Zenon DEF RuWorkerOk, RuTaskPcs
  <2>3. ruW.pc = "finished" => RuSoundReport(ruW.rep, ruTasks'[ruW.task], ruOps, ruDone)
    BY <1>1, <2>1, Zenon DEF RuWorkerOk, RuTaskPcs, RuSoundReport
  <2>4. ruW.pc = "reporting" => RuSoundReport(ruW.rep, ruTasks'[ruReceipt.task], ruOps, ruDone)
    BY <1>1, <2>1, Zenon DEF RuWorkerOk, RuReceiptPcs, RuSoundReport
  <2>5. ruW.pc = "bound" => ruTasks'[ruW.task].plan # ruW.op
    BY <1>1, <2>1, Zenon DEF RuWorkerOk, RuTaskPcs
  <2>6. ruW.pc = "answered" => RuCovered(ruTasks'[ruW.task], RuDec(ruW.left))
    BY <1>1, <2>0, <2>1, Zenon DEF RuWorkerOk, RuTaskPcs
  <2>7. ruW.pc = "reanswered" => RuCovered(ruTasks'[ruReceipt.task], RuDec(ruW.left))
    BY <1>1, <2>0, <2>1, Zenon DEF RuWorkerOk, RuReceiptPcs
  <2> QED BY <1>0, <1>1, <1>3, <1>5, <2>1, <2>2, <2>3, <2>4, <2>5, <2>6, <2>7, Zenon
          DEF RuWorkerOk
<1> QED BY <1>0, <1>1, <1>4, <1>6, Zenon DEF RuIInv

\* the worker goes on with its task
LEMMA RuGotoOk ==
    ASSUME NEW w \in RuWorkers, NEW rc, NEW ts, NEW late, NEW ops, NEW done,
           NEW pc \in {"started", "preparing", "working", "scheduling"}, w.task \in DOMAIN ts,
           pc = "working" => ~RuRequiresRestart(ts[w.task].act)
    PROVE  RuWorkerOk([w EXCEPT !.pc = pc], rc, ts, late, ops, done)
<1> DEFINE v == [w EXCEPT !.pc = pc]
<1>0. pc \in RuPcs
  BY Zenon DEF RuPcs, RuTaskPcs
<1>1. v \in RuWorkers /\ v.pc = pc /\ v.task = w.task
  BY <1>0, Zenon DEF RuWorkers
<1> HIDE DEF v
<1>2. RuWorkerOk(v, rc, ts, late, ops, done)
  BY <1>1, Zenon DEF RuWorkerOk, RuTaskPcs, RuReceiptPcs
<1> QED BY <1>2, Zenon DEF v

\* the worker has something to report
LEMMA RuFinishOk ==
    ASSUME NEW w \in RuWorkers, NEW rc, NEW ts, NEW late, NEW ops, NEW done,
           w.task \in DOMAIN ts, NEW rep \in RuReports,
           RuSoundReport(rep, ts[w.task], ops, done)
    PROVE  RuWorkerOk([w EXCEPT !.pc = "finished", !.rep = rep], rc, ts, late, ops, done)
<1> DEFINE v == [w EXCEPT !.pc = "finished", !.rep = rep]
<1>0. "finished" \in RuPcs
  BY Zenon DEF RuPcs, RuTaskPcs
<1>1. v \in RuWorkers /\ v.pc = "finished" /\ v.task = w.task /\ v.rep = rep
  BY <1>0, Zenon DEF RuWorkers
<1> HIDE DEF v
<1>2. RuWorkerOk(v, rc, ts, late, ops, done)
  BY <1>1, Zenon DEF RuWorkerOk, RuTaskPcs, RuReceiptPcs
<1> QED BY <1>2, Zenon DEF v

\* reports that claim no installation
LEMMA RuHarmless ==
    ASSUME NEW kind \in {"started", "failed", "cancelled"},
           NEW code \in {"none", "failed_closed"} \cup RuActs
    PROVE  /\ RuReport(kind, 0, code) \in RuReports
           /\ \A t, done : \A ops \in Nat : RuSoundReport(RuReport(kind, 0, code), t, ops, done)
<1>1. RuReport(kind, 0, code) \in RuReports
  BY Zenon DEF RuReport, RuReports, RuKinds
<1>2. RuReport(kind, 0, code).kind = kind /\ RuReport(kind, 0, code).op = 0
  BY Zenon DEF RuReport
<1> QED BY <1>1, <1>2 DEF RuSoundReport, RuKinds

\* the worker reports that its operation failed
LEMMA RuFailedOk ==
    ASSUME RuIInv, NEW us, NEW op, RuMoved(ruTasks, us, op), NEW rc, NEW late,
           ruW.task \in DOMAIN ruTasks, RuOperationFailed
    PROVE  RuWorkerOk(ruW', rc, us, late, ruOps, ruDone)
<1>1. ruW' = [ruW EXCEPT !.pc = "finished", !.rep = RuReport("failed", 0, RuAct)]
  BY Zenon DEF RuOperationFailed, RuFinished
<1>2. RuAct \in RuActs
  BY RuParts, Zenon DEF RuAct, RuTaskOk, RuTaskSet
<1>3. RuReport("failed", 0, RuAct) \in RuReports
      /\ RuSoundReport(RuReport("failed", 0, RuAct), us[ruW.task], ruOps, ruDone)
  BY <1>2, RuParts, RuHarmless, Zenon
<1>4. ruW.task \in DOMAIN us
  BY Zenon DEF RuMoved
<1> QED BY <1>1, <1>3, <1>4, RuParts, RuFinishOk, Zenon

\* the table after a report that may be lost, late or refused
LEMMA RuSendTables ==
    ASSUME RuIInv, NEW i \in DOMAIN ruTasks, NEW q \in RuProofs,
           RuSoundReport(q.rep, ruTasks[i], ruOps, ruDone),
           ruTasks' \in {ruTasks, RuHandleReport(ruTasks, i, q)},
           ruLate' \in {ruLate, ruLate \cup {[task |-> i, q |-> q]}},
           UNCHANGED <<ruOps, ruDone>>
    PROVE  /\ RuTablesOk(ruTasks', ruLate', ruOps', ruDone')
           /\ RuMoved(ruTasks, ruTasks', RuPlanOf(q.rep))
<1>1. RuTablesOk(ruTasks', ruLate, ruOps, ruDone) /\ RuMoved(ruTasks, ruTasks', RuPlanOf(q.rep))
  <2>1. CASE ruTasks' = ruTasks
    <3>1. RuMoved(ruTasks, ruTasks, RuPlanOf(q.rep))
      BY Zenon DEF RuMoved, RuMove
    <3> QED BY <2>1, <3>1, RuParts, Zenon
  <2>2. CASE ruTasks' = RuHandleReport(ruTasks, i, q)
    BY <2>2, RuParts, RuHandleTables, Zenon
  <2> QED BY <2>1, <2>2, Zenon
<1>2. RuSoundReport(q.rep, ruTasks'[i], ruOps, ruDone) /\ i \in DOMAIN ruTasks'
  BY <1>1, Zenon DEF RuSoundReport, RuMoved, RuMove
<1>3. RuTablesOk(ruTasks', ruLate \cup {[task |-> i, q |-> q]}, ruOps, ruDone)
  BY <1>1, <1>2, RuLateAdded, Zenon
<1> QED BY <1>1, <1>3, Zenon

\* A step of the worker that keeps its receipt or drops it.
LEMMA RuWorkerKeeps ==
    ASSUME RuIInv, RuTablesOk(ruTasks', ruLate', ruOps', ruDone'),
           NEW op, RuMoved(ruTasks, ruTasks', op), ruOps' = ruOps,
           ruReceipt' \in {ruReceipt, RuNoReceipt}, ruQuar' \in BOOLEAN,
           RuWorkerOk(ruW', ruReceipt', ruTasks', ruLate', ruOps', ruDone')
    PROVE  RuIInv'
<1>0. ruOps \in Nat /\ ruOps <= ruOps
  BY RuParts, SMT
<1>1. RuReceiptOk(ruReceipt', ruTasks', ruOps')
  <2>1. CASE ruReceipt' = ruReceipt
    <3>1. RuReceiptOk(ruReceipt, ruTasks', ruOps)
      BY <1>0, RuParts, RuReceiptMoved, Zenon
    <3> QED BY <2>1, <3>1, Zenon
  <2>2. CASE ruReceipt' = RuNoReceipt
    BY <1>0, <2>2, RuNoneOk, Zenon
  <2> QED BY <2>1, <2>2, Zenon
<1> QED BY <1>1, Zenon DEF RuIInv

\* A step that leaves the table alone moves no task.
LEMMA RuSameTables ==
    ASSUME RuIInv, UNCHANGED <<ruTasks, ruLate, ruOps, ruDone>>
    PROVE  /\ RuTablesOk(ruTasks', ruLate', ruOps', ruDone')
           /\ RuMoved(ruTasks, ruTasks', 0)
<1>1. RuMoved(ruTasks, ruTasks, 0)
  BY RuStays, Zenon DEF RuMoved
<1> QED BY <1>1, RuParts, Zenon

\* the worker is back in its loop, or gone
LEMMA RuAwayOk ==
    ASSUME RuIInv,
           ruW' \in {RuIdleWorker(ruW.inst), RuIdleWorker(ruW.inst + 1),
                     [RuIdleWorker(ruW.inst) EXCEPT !.pc = "down"]}
    PROVE  RuWorkerOk(ruW', ruReceipt', ruTasks', ruLate', ruOps', ruDone')
<1>1. ruW.inst \in Nat /\ ruW.inst + 1 \in Nat
  BY RuParts, RuWorkerFields
<1>2. CASE ruW' = RuIdleWorker(ruW.inst)
  BY <1>1, <1>2, RuIdleOk, Zenon
<1>3. CASE ruW' = RuIdleWorker(ruW.inst + 1)
  BY <1>1, <1>3, RuIdleOk, Zenon
<1>4. CASE ruW' = [RuIdleWorker(ruW.inst) EXCEPT !.pc = "down"]
  BY <1>1, <1>4, RuIdleOk, Zenon
<1> QED BY <1>2, <1>3, <1>4, Zenon

\* the worker is where it was
LEMMA RuStaysOk ==
    ASSUME RuIInv, NEW op, RuMoved(ruTasks, ruTasks', op), ruW.pc = "bound" => op # ruW.op,
           UNCHANGED <<ruW, ruReceipt, ruLate, ruOps, ruDone>>
    PROVE  RuWorkerOk(ruW', ruReceipt', ruTasks', ruLate', ruOps', ruDone')
<1>0. ruOps \in Nat /\ ruOps <= ruOps
  BY RuParts, SMT
<1>1. RuWorkerOk(ruW, ruReceipt, ruTasks', ruLate, ruOps, ruDone)
  BY <1>0, RuParts, RuWorkerMoved, Zenon
<1> QED BY <1>1, Zenon

\* claim takes a task that nobody holds
LEMMA RuClaimKeeps == ASSUME RuIInv, RuClaim PROVE RuIInv'
<1> USE RuParts
<1> DEFINE ts == RuReconcileExpired(ruTasks)
           after(n) == RuServerClaim(ts, n)
<1>1. /\ RuTablesOk(ts, ruLate, ruOps, ruDone) /\ RuMoved(ruTasks, ts, 0)
      /\ DOMAIN ts = DOMAIN ruTasks
  BY RuReconcileTables, Zenon
<1>p. PICK i \in DOMAIN ts :
         /\ ts[i].st = "queued" /\ ruW.pc = "idle" /\ ruReceipt.op = 0
         /\ ruTasks' = after(i)
         /\ ruW' \in {ruW, [ruW EXCEPT !.pc = "claimed", !.task = i, !.seen = ruQuar,
                                       !.token = after(i)[i].attempt]}
         /\ UNCHANGED <<ruReceipt, ruQuar, ruDone, ruOps, ruLate>>
  BY Zenon DEF RuClaim, RuAt
<1> DEFINE aft == after(i)
<1>2. /\ ruW.pc = "idle" /\ ruReceipt.op = 0 /\ ruTasks' = aft
      /\ ruW' \in {ruW, [ruW EXCEPT !.pc = "claimed", !.task = i, !.seen = ruQuar,
                                    !.token = aft[i].attempt]}
      /\ UNCHANGED <<ruReceipt, ruQuar, ruDone, ruOps, ruLate>>
  BY <1>p, Zenon
<1> HIDE DEF ts
<1>3. i \in DOMAIN ts /\ ts[i].st = "queued"
  BY <1>p, Zenon
<1>4. RuTaskOk(ts[i], ruOps, ruDone) /\ ruW.inst \in Nat
  BY <1>1, <1>3, RuWorkerFields, Zenon DEF RuTablesOk
<1> DEFINE lost == [ts[i] EXCEPT !.st = "failed", !.stage = "failed",
                                 !.code = "failed_closed"]
           won == [ts[i] EXCEPT !.st = "claimed", !.stage = "claimed", !.plan = 0,
                                !.resume = 0, !.attempt = @ + 1, !.owner = ruW.inst,
                                !.left = RuLease]
           u == IF ts[i].attempt >= RuMaxAttempts THEN lost ELSE won
<1>5. aft = [ts EXCEPT ![i] = u] /\ (u = lost \/ u = won)
  BY Zenon DEF RuServerClaim
<1> HIDE DEF u
<1>6. RuTaskOk(u, ruOps, ruDone) /\ RuMove(ts[i], u, 0) /\ u.attempt \in Nat
  BY <1>3, <1>4, <1>5, RuClaimMoves, Zenon
<1> HIDE DEF aft
<1>7. /\ RuTablesOk(aft, ruLate, ruOps, ruDone) /\ RuMoved(ts, aft, 0)
      /\ DOMAIN aft = DOMAIN ts /\ aft[i] = u
  BY <1>1, <1>3, <1>5, <1>6, RuOneMoves, Zenon
<1>8. RuMoved(ruTasks, ruTasks', 0) /\ RuTablesOk(ruTasks', ruLate', ruOps', ruDone')
  BY <1>1, <1>2, <1>7, RuMovedTwice, Zenon
<1>9. RuWorkerOk(ruW', ruReceipt', ruTasks', ruLate', ruOps', ruDone')
  <2>1. CASE ruW' = ruW
    BY <1>2, <1>8, <2>1, RuStaysOk, RuNotBoundToNone, Zenon
  <2>2. CASE ruW' = [ruW EXCEPT !.pc = "claimed", !.task = i, !.seen = ruQuar,
                                !.token = aft[i].attempt]
    <3>1. i \in Nat /\ "claimed" \in RuPcs
      BY <1>1, <1>3 DEF RuTablesOk, RuPcs, RuTaskPcs
    <3>2. ruW' \in RuWorkers /\ ruW'.pc = "claimed" /\ ruW'.task = i
      BY ONLY <2>2, <3>1, <1>6, <1>7, ruW \in RuWorkers, ruQuar \in BOOLEAN, Zenon DEF RuWorkers
    <3>3. ruW'.task \in DOMAIN ruTasks'
      BY <1>2, <1>3, <1>7, <3>2, Zenon
    <3> QED BY <3>2, <3>3, Zenon DEF RuWorkerOk, RuTaskPcs, RuReceiptPcs
  <2> QED BY <1>2, <2>1, <2>2, Zenon
<1> QED BY <1>2, <1>8, <1>9, RuWorkerKeeps, Zenon

\* the quarantine is looked at, and the operation chosen
LEMMA RuCheckQuarantineKeeps == ASSUME RuIInv, RuCheckQuarantine PROVE RuIInv'
<1> USE RuParts
<1>1. /\ ruW.pc = "started"
      /\ UNCHANGED <<ruTasks, ruReceipt, ruQuar, ruDone, ruOps, ruLate>>
  BY Zenon DEF RuCheckQuarantine, RuAt
<1>2. ruW.task \in DOMAIN ruTasks
  BY <1>1, Zenon DEF RuWorkerOk, RuTaskPcs
<1>3. RuWorkerOk(ruW', ruReceipt, ruTasks, ruLate, ruOps, ruDone)
  <2>1. CASE ruW' = [ruW EXCEPT !.pc = "finished",
                                !.rep = RuReport("failed", 0, "failed_closed")]
    BY <1>2, <2>1, RuHarmless, RuFinishOk, Zenon
  <2>2. ASSUME NEW pc \in {"preparing", "working"}, ruW' = [ruW EXCEPT !.pc = pc],
               pc = "working" => ~RuRequiresRestart(RuAct)
        PROVE  RuWorkerOk(ruW', ruReceipt, ruTasks, ruLate, ruOps, ruDone)
    BY <1>2, <2>2, RuGotoOk, Zenon DEF RuAct
  <2> QED BY <2>1, <2>2, Zenon DEF RuCheckQuarantine
<1> QED BY <1>1, <1>3, RuSameTables, RuWorkerKeeps, Zenon

\* execute_action claims no installation
LEMMA RuExecuteActionKeeps == ASSUME RuIInv, RuExecuteAction PROVE RuIInv'
<1> USE RuParts
<1>1. /\ ruW.pc = "working"
      /\ RuFinished(RuReport("succeeded", 0, "none")) \/ RuOperationFailed
      /\ UNCHANGED <<ruTasks, ruReceipt, ruQuar, ruDone, ruOps, ruLate>>
  BY Zenon DEF RuExecuteAction, RuAt
<1>2. ruW.task \in DOMAIN ruTasks /\ ~RuRequiresRestart(ruTasks[ruW.task].act)
  BY <1>1, Zenon DEF RuWorkerOk, RuTaskPcs, RuExecuteAction, RuAt
<1>3. RuWorkerOk(ruW', ruReceipt, ruTasks, ruLate, ruOps, ruDone)
  <2>1. CASE RuFinished(RuReport("succeeded", 0, "none"))
    <3> DEFINE rep == RuReport("succeeded", 0, "none")
    <3>1. rep \in RuReports /\ rep.kind = "succeeded" /\ rep.op = 0
      BY Zenon DEF RuReport, RuReports, RuKinds
    <3>2. ruW' = [ruW EXCEPT !.pc = "finished", !.rep = rep]
      BY <2>1, Zenon DEF RuFinished
    <3> HIDE DEF rep
    <3>3. RuSoundReport(rep, ruTasks[ruW.task], ruOps, ruDone)
      BY <1>2, <3>1 DEF RuSoundReport, RuKinds
    <3> QED BY <1>2, <3>1, <3>2, <3>3, RuFinishOk, Zenon
  <2>2. CASE RuOperationFailed
    <3>1. RuMoved(ruTasks, ruTasks, 0)
      BY RuStays, Zenon DEF RuMoved
    <3> QED BY <1>2, <2>2, <3>1, RuFailedOk, Zenon
  <2> QED BY <1>1, <2>1, <2>2, Zenon
<1> QED BY <1>1, <1>3, RuSameTables, RuWorkerKeeps, Zenon


\* A report that is answered, refused, lost or late.
LEMMA RuSentKeeps ==
    ASSUME RuIInv, NEW i \in DOMAIN ruTasks, NEW q \in RuProofs,
           RuSoundReport(q.rep, ruTasks[i], ruOps, ruDone),
           ruTasks' \in {ruTasks, RuHandleReport(ruTasks, i, q)},
           ruLate' \in {ruLate, ruLate \cup {[task |-> i, q |-> q]}},
           UNCHANGED <<ruOps, ruDone>>,
           ruReceipt' \in {ruReceipt, RuNoReceipt}, ruQuar' \in BOOLEAN,
           RuWorkerOk(ruW', ruReceipt', ruTasks', ruLate', ruOps', ruDone')
    PROVE  RuIInv'
<1>1. /\ RuTablesOk(ruTasks', ruLate', ruOps', ruDone')
      /\ RuMoved(ruTasks, ruTasks', RuPlanOf(q.rep))
  BY RuSendTables, Zenon
<1> QED BY <1>1, RuWorkerKeeps, Zenon

\* the Started report
LEMMA RuReportStartedKeeps == ASSUME RuIInv, RuReportStarted PROVE RuIInv'
<1> USE RuParts
<1> DEFINE i == ruW.task
           q == [worker |-> ruW.inst, token |-> ruW.token,
                 rep |-> RuReport("started", 0, "none")]
<1>1. /\ ruW.pc = "claimed" /\ UNCHANGED <<ruReceipt, ruQuar, ruDone, ruOps>>
      /\ RuGoto("started") \/ RuBackToLoop
      /\ ruTasks' \in {ruTasks, RuHandleReport(ruTasks, i, q)}
      /\ ruLate' \in {ruLate, ruLate \cup {[task |-> i, q |-> q]}}
  BY Zenon DEF RuReportStarted, RuSend, RuAt
<1>2. i \in DOMAIN ruTasks
  BY <1>1, Zenon DEF RuWorkerOk, RuTaskPcs
<1>3. q \in RuProofs /\ q.rep = RuReport("started", 0, "none")
  BY RuWorkerFields, RuHarmless, RuProofFields, Zenon
<1>4. RuSoundReport(q.rep, ruTasks[i], ruOps, ruDone)
  BY <1>3, RuHarmless, Zenon
<1> HIDE DEF q
<1>5. RuWorkerOk(ruW', ruReceipt', ruTasks', ruLate', ruOps', ruDone')
  <2>1. CASE RuGoto("started")
    <3>1. RuMoved(ruTasks, ruTasks', RuPlanOf(q.rep))
      BY <1>1, <1>2, <1>3, <1>4, RuSendTables, Zenon
    <3>2. ruW.task \in DOMAIN ruTasks' /\ ruW' = [ruW EXCEPT !.pc = "started"]
      BY <1>2, <2>1, <3>1, Zenon DEF RuMoved, RuGoto
    <3> QED BY <3>2, RuGotoOk, Zenon
  <2>2. CASE RuBackToLoop
    BY <2>2, RuAwayOk, Zenon DEF RuBackToLoop
  <2> QED BY <1>1, <2>1, <2>2, Zenon
<1> QED BY <1>1, <1>2, <1>3, <1>4, <1>5, RuSentKeeps, Zenon

\* the report of the outcome, after which a restart's receipt is dropped
LEMMA RuReportOutcomeKeeps == ASSUME RuIInv, RuReportOutcome PROVE RuIInv'
<1> USE RuParts
<1> DEFINE i == ruW.task
           q == [worker |-> ruW.inst, token |-> ruW.token, rep |-> ruW.rep]
<1>1. /\ ruW.pc = "finished" /\ UNCHANGED <<ruQuar, ruDone, ruOps>> /\ RuBackToLoop
      /\ ruReceipt' \in {ruReceipt, RuNoReceipt}
      /\ ruTasks' \in {ruTasks, RuHandleReport(ruTasks, i, q)}
      /\ ruLate' \in {ruLate, ruLate \cup {[task |-> i, q |-> q]}}
  BY Zenon DEF RuReportOutcome, RuSend, RuAt
<1>2. i \in DOMAIN ruTasks /\ RuSoundReport(ruW.rep, ruTasks[i], ruOps, ruDone)
  BY <1>1, Zenon DEF RuWorkerOk, RuTaskPcs
<1>3. q \in RuProofs /\ q.rep = ruW.rep
  BY RuWorkerFields, RuProofFields, Zenon
<1> HIDE DEF q
<1>5. RuWorkerOk(ruW', ruReceipt', ruTasks', ruLate', ruOps', ruDone')
  BY <1>1, RuAwayOk, Zenon DEF RuBackToLoop
<1> QED BY <1>1, <1>2, <1>3, <1>5, RuSentKeeps, Zenon

\* a new operation: its receipt is written first
LEMMA RuPrepareRestartKeeps == ASSUME RuIInv, RuPrepareRestart PROVE RuIInv'
<1> USE RuParts
<1>1. /\ ruW.pc = "preparing" /\ UNCHANGED <<ruTasks, ruQuar, ruDone, ruLate>>
  BY Zenon DEF RuPrepareRestart, RuAt
<1>2. ruW.task \in DOMAIN ruTasks
  BY <1>1, Zenon DEF RuWorkerOk, RuTaskPcs
<1>3. CASE RuOperationFailed /\ UNCHANGED <<ruOps, ruReceipt>>
  <2>1. RuMoved(ruTasks, ruTasks, 0)
    BY RuStays, Zenon DEF RuMoved
  <2>2. RuWorkerOk(ruW', ruReceipt, ruTasks, ruLate, ruOps, ruDone)
    BY <1>2, <1>3, <2>1, RuFailedOk, Zenon
  <2> QED BY <1>1, <1>3, <2>2, RuSameTables, RuWorkerKeeps, Zenon
<1>4. ASSUME ruOps' = ruOps + 1, ruW' = [ruW EXCEPT !.pc = "bound", !.op = ruOps + 1],
             ruReceipt' = [task |-> ruW.task, worker |-> ruW.inst, token |-> ruW.token,
                           op |-> ruOps + 1, left |-> RuResume]
      PROVE  RuIInv'
  <2>1. ruOps' \in Nat /\ ruOps <= ruOps' /\ ruOps' # 0 /\ RuResume \in Nat
    BY <1>4, RuAssumption
  <2>2. RuTablesOk(ruTasks', ruLate', ruOps', ruDone')
    BY <1>1, <2>1, RuTablesGrow, Zenon
  <2>3. /\ ruReceipt' \in RuReceipts /\ ruReceipt'.op = ruOps'
        /\ ruReceipt'.task = ruW.task
    BY <1>4, <2>1, RuWorkerFields, Zenon DEF RuReceipts
  <2>4. ruReceipt'.op <= ruOps'
    BY <2>1, <2>3
  <2>5. RuReceiptOk(ruReceipt', ruTasks', ruOps')
    BY <1>1, <1>2, <2>3, <2>4, Zenon DEF RuReceiptOk
  <2>6. "bound" \in RuPcs
    BY Zenon DEF RuPcs, RuTaskPcs
  <2>7. /\ ruW' \in RuWorkers /\ ruW'.pc = "bound" /\ ruW'.op = ruOps'
        /\ ruW'.task = ruW.task
    BY ONLY <1>4, <2>1, <2>6, ruW \in RuWorkers, Zenon DEF RuWorkers
  <2>8. ruTasks[ruW.task].plan # ruOps'
    <3>1. ruTasks[ruW.task].plan \in Nat /\ ruTasks[ruW.task].plan <= ruOps
      BY <1>2, Zenon DEF RuTaskOk, RuTaskSet
    <3> QED BY <1>4, <3>1
  <2>9. ASSUME NEW m \in ruLate PROVE m.q.rep.op # ruOps'
    <3>1. m.q \in RuProofs /\ m.q.rep.op <= ruOps
      BY Zenon DEF RuTablesOk, RuLateOk, RuSoundReport
    <3>2. m.q.rep.op \in Nat
      BY <3>1, RuProofFields, Zenon
    <3> QED BY <1>4, <3>1, <3>2
  <2>10. RuWorkerOk(ruW', ruReceipt', ruTasks', ruLate', ruOps', ruDone')
    BY <1>1, <1>2, <2>1, <2>3, <2>7, <2>8, <2>9, Zenon DEF RuWorkerOk, RuTaskPcs, RuReceiptPcs
  <2> QED BY <1>1, <2>2, <2>5, <2>10, Zenon DEF RuIInv
<1> QED BY <1>3, <1>4, Zenon DEF RuPrepareRestart

\* the AwaitingRestart report binds the operation until the resume deadline
LEMMA RuReportAwaitingKeeps == ASSUME RuIInv, RuReportAwaiting PROVE RuIInv'
<1> USE RuParts
<1> DEFINE i == ruW.task
           q == [worker |-> ruW.inst, token |-> ruW.token,
                 rep |-> RuReport("awaiting", ruW.op, "none")]
           ok == /\ RuReportAccepted(ruTasks[i], q)
                 /\ ruTasks' = RuHandleReport(ruTasks, i, q) /\ ruLate' = ruLate
                 /\ ruW' = [ruW EXCEPT !.pc = "answered", !.left = RuResume]
<1>1. /\ ruW.pc = "bound" /\ UNCHANGED <<ruReceipt, ruQuar, ruDone, ruOps>>
      /\ ok \/ RuOperationFailed
      /\ ruTasks' \in {ruTasks, RuHandleReport(ruTasks, i, q)}
      /\ ruLate' \in {ruLate, ruLate \cup {[task |-> i, q |-> q]}}
  BY Zenon DEF RuReportAwaiting, RuSend, RuAt, RuReportPg
<1>2. /\ i \in DOMAIN ruTasks /\ ruReceipt.op = ruW.op /\ ruReceipt.task = ruW.task
      /\ ruReceipt.op # 0 /\ ruTasks[i].plan # ruW.op
  BY <1>1, Zenon DEF RuWorkerOk, RuTaskPcs
<1>3. q \in RuProofs /\ q.rep.kind = "awaiting" /\ q.rep.op = ruW.op
  BY RuWorkerFields, Zenon DEF RuProofs, RuReports, RuReport, RuKinds
<1>4. RuSoundReport(q.rep, ruTasks[i], ruOps, ruDone)
  BY <1>2, <1>3, Zenon DEF RuSoundReport, RuKinds, RuReceiptOk
<1> HIDE DEF q
<1>5. RuMoved(ruTasks, ruTasks', RuPlanOf(q.rep))
  BY <1>1, <1>2, <1>3, <1>4, RuSendTables, Zenon
<1>6. RuWorkerOk(ruW', ruReceipt', ruTasks', ruLate', ruOps', ruDone')
  <2>1. CASE ok
    <3>1. i \in DOMAIN ruTasks'
      BY <1>2, <1>5, Zenon DEF RuMoved
    <3>2. /\ RuLeased(ruTasks'[i]) /\ ruTasks'[i].stage = "awaiting_restart"
          /\ \/ ruTasks'[i] = ruTasks[i] /\ ruTasks[i].plan = q.rep.op
             \/ ruTasks'[i].left = RuResume /\ ruTasks[i].resume = 0
      BY <1>2, <1>3, <1>4, <2>1, RuHandleTables, Zenon
    <3>3. ruTasks'[i].left = RuResume /\ RuResume \in Nat
      BY <1>2, <1>3, <3>2, RuAssumption, SMT
    <3>4. RuCovered(ruTasks'[i], RuResume)
      BY <3>2, <3>3 DEF RuCovered, RuLeased, RuTerminal
    <3>5. "answered" \in RuPcs
      BY Zenon DEF RuPcs, RuTaskPcs
    <3>6. /\ ruW' \in RuWorkers /\ ruW'.pc = "answered" /\ ruW'.op = ruW.op
          /\ ruW'.task = ruW.task /\ ruW'.left = RuResume
      BY ONLY <2>1, <3>3, <3>5, ruW \in RuWorkers, Zenon DEF RuWorkers
    <3> HIDE DEF ok
    <3> QED BY <1>1, <1>2, <3>1, <3>4, <3>6, Zenon DEF RuWorkerOk, RuTaskPcs, RuReceiptPcs
  <2>2. CASE RuOperationFailed
    <3>1. RuWorkerOk(ruW', ruReceipt', ruTasks', ruLate', ruOps, ruDone)
      BY <1>2, <1>5, <2>2, RuFailedOk, Zenon
    <3> QED BY <1>1, <3>1, Zenon
  <2> QED BY <1>1, <2>1, <2>2, Zenon
<1> QED BY <1>1, <1>2, <1>3, <1>4, <1>6, RuSentKeeps, Zenon

\* validate_restart_binding
LEMMA RuRestartAnsweredKeeps == ASSUME RuIInv, RuRestartAnswered PROVE RuIInv'
<1> USE RuParts
<1>1. /\ ruW.pc = "answered"
      /\ UNCHANGED <<ruTasks, ruReceipt, ruQuar, ruDone, ruOps, ruLate>>
      /\ RuOperationFailed \/ RuGoto("scheduling")
  BY Zenon DEF RuRestartAnswered, RuAt
<1>2. ruW.task \in DOMAIN ruTasks
  BY <1>1, Zenon DEF RuWorkerOk, RuTaskPcs
<1>3. RuWorkerOk(ruW', ruReceipt, ruTasks, ruLate, ruOps, ruDone)
  <2>1. CASE RuOperationFailed
    <3>1. RuMoved(ruTasks, ruTasks, 0)
      BY RuStays, Zenon DEF RuMoved
    <3> QED BY <1>2, <2>1, <3>1, RuFailedOk, Zenon
  <2>2. CASE RuGoto("scheduling")
    BY <1>2, <2>2, RuGotoOk, Zenon DEF RuGoto
  <2> QED BY <1>1, <2>1, <2>2, Zenon
<1> QED BY <1>1, <1>3, RuSameTables, RuWorkerKeeps, Zenon

\* the scheduling
LEMMA RuRestartScheduledKeeps == ASSUME RuIInv, RuRestartScheduled PROVE RuIInv'
<1> USE RuParts
<1>1. /\ ruW.pc = "scheduling"
      /\ UNCHANGED <<ruTasks, ruReceipt, ruQuar, ruDone, ruOps, ruLate>>
      /\ RuOperationFailed \/ ruW' = [RuIdleWorker(ruW.inst) EXCEPT !.pc = "down"]
  BY Zenon DEF RuRestartScheduled, RuSchedule, RuAt
<1>2. ruW.task \in DOMAIN ruTasks
  BY <1>1, Zenon DEF RuWorkerOk, RuTaskPcs
<1>3. RuWorkerOk(ruW', ruReceipt', ruTasks', ruLate', ruOps', ruDone')
  <2>1. CASE RuOperationFailed
    <3>1. RuMoved(ruTasks, ruTasks, 0)
      BY RuStays, Zenon DEF RuMoved
    <3>2. RuWorkerOk(ruW', ruReceipt, ruTasks, ruLate, ruOps, ruDone)
      BY <1>2, <2>1, <3>1, RuFailedOk, Zenon
    <3> QED BY <1>1, <3>2, Zenon
  <2>2. CASE ruW' = [RuIdleWorker(ruW.inst) EXCEPT !.pc = "down"]
    BY <2>2, RuAwayOk, Zenon
  <2> QED BY <1>1, <2>1, <2>2, Zenon
<1> QED BY <1>1, <1>3, RuSameTables, RuWorkerKeeps, Zenon

\* the renewal of the lease, while the operation is suspended
LEMMA RuRenewKeeps == ASSUME RuIInv, RuRenew PROVE RuIInv'
<1> USE RuParts
<1> DEFINE i == ruW.task
           t == ruTasks[i]
           q == [worker |-> ruW.inst, token |-> ruW.token]
           st == IF t.cancel THEN "cancel_requested" ELSE "running"
           u == [t EXCEPT !.stage = "executing", !.left = RuLease, !.st = st]
           moved == RuRenewAccepted(t, q) /\ ruTasks' = [ruTasks EXCEPT ![i] = u]
           cancelled == ruW' = [ruW EXCEPT !.pc = "finished",
                                           !.rep = RuReport("cancelled", 0, "none")]
<1>1. /\ ruW.pc \in {"working", "preparing", "bound", "answered"}
      /\ UNCHANGED <<ruReceipt, ruQuar, ruDone, ruOps, ruLate>>
      /\ UNCHANGED ruTasks \/ moved
      /\ UNCHANGED ruW \/ RuBackToLoop \/ cancelled
  BY Zenon DEF RuRenew, RuRenewPg
<1>2. i \in DOMAIN ruTasks
  BY <1>1, Zenon DEF RuWorkerOk, RuTaskPcs
<1>3. RuTablesOk(ruTasks', ruLate', ruOps', ruDone') /\ RuMoved(ruTasks, ruTasks', 0)
  <2>1. CASE UNCHANGED ruTasks
    BY <1>1, <2>1, RuSameTables, Zenon
  <2>2. CASE moved
    <3>0. ruOps \in Nat
      BY Zenon
    <3>1. RuLeased(t) /\ t.stage \in {"claimed", "executing"}
      BY <2>2, Zenon DEF RuRenewAccepted, RuAuthorizeLease
    <3>2. RuTaskOk(t, ruOps, ruDone) /\ st \in {"cancel_requested", "running"}
      BY <1>2, Zenon
    <3>3. ruTasks' = [ruTasks EXCEPT ![i] = RuRenewed(t, st)]
      BY <2>2, Zenon DEF RuRenewed
    <3> HIDE DEF st, u, moved
    <3>4. RuTaskOk(RuRenewed(t, st), ruOps, ruDone) /\ RuMove(t, RuRenewed(t, st), 0)
      BY <3>0, <3>1, <3>2, RuRenewMoves, Zenon
    <3> QED BY <1>1, <1>2, <3>3, <3>4, RuOneMoves, Zenon
  <2> QED BY <1>1, <2>1, <2>2, Zenon
<1> HIDE DEF moved
<1>4. RuWorkerOk(ruW', ruReceipt', ruTasks', ruLate', ruOps', ruDone')
  <2>1. CASE UNCHANGED ruW
    BY <1>1, <1>3, <2>1, RuStaysOk, RuNotBoundToNone, Zenon
  <2>2. CASE RuBackToLoop
    BY <2>2, RuAwayOk, Zenon DEF RuBackToLoop
  <2>3. CASE cancelled
    <3>1. ruW.task \in DOMAIN ruTasks'
      BY <1>2, <1>3, Zenon DEF RuMoved
    <3>2. /\ RuReport("cancelled", 0, "none") \in RuReports
          /\ RuSoundReport(RuReport("cancelled", 0, "none"), ruTasks'[ruW.task], ruOps', ruDone')
      BY <1>1, RuHarmless, Zenon
    <3> QED BY <2>3, <3>1, <3>2, RuFinishOk, Zenon
  <2> QED BY <1>1, <2>1, <2>2, <2>3, Zenon
<1> QED BY <1>1, <1>3, <1>4, RuWorkerKeeps, Zenon

\* a receipt that cannot be honoured goes to the quarantine
LEMMA RuQuarantineKeeps ==
    ASSUME RuIInv, RuQuarantine, UNCHANGED <<ruTasks, ruDone, ruOps, ruLate>>
    PROVE  RuIInv'
<1>1. RuWorkerOk(ruW', ruReceipt', ruTasks', ruLate', ruOps', ruDone')
  BY RuAwayOk, Zenon DEF RuQuarantine, RuBackToLoop
<1>2. ruReceipt' = RuNoReceipt /\ ruQuar' \in BOOLEAN
  BY Zenon DEF RuQuarantine
<1> QED BY <1>1, <1>2, RuSameTables, RuWorkerKeeps, Zenon

\* reconcile answers with what the table says of the receipt's task
LEMMA RuResumeReconcileKeeps == ASSUME RuIInv, RuResumeReconcile PROVE RuIInv'
<1> USE RuParts
<1> DEFINE ts == RuReconcileExpired(ruTasks)
           t == ts[ruReceipt.task]
<1>1. /\ ruW.pc = "idle" /\ ruReceipt.op # 0 /\ UNCHANGED <<ruDone, ruOps, ruLate>>
  BY Zenon DEF RuResumeReconcile, RuAt
<1>2. /\ RuTablesOk(ts, ruLate, ruOps, ruDone) /\ RuMoved(ruTasks, ts, 0)
      /\ DOMAIN ts = DOMAIN ruTasks
  BY RuReconcileTables, Zenon
<1>3. CASE RuQuarantine /\ UNCHANGED ruTasks
  BY <1>1, <1>3, RuQuarantineKeeps, Zenon
<1>4. CASE UNCHANGED <<ruTasks, ruW, ruQuar, ruReceipt>>
  BY <1>1, <1>4, RuSameTables, RuStaysOk, RuNotBoundToNone, RuWorkerKeeps, Zenon
<1>5. ASSUME ruTasks' = ts, UNCHANGED <<ruQuar, ruReceipt>>,
             ruW' = [ruW EXCEPT !.pc = "reconciled", !.term = RuTerminal(t), !.left = t.left,
                                !.resp = RuReport(t.st, t.result, t.code)]
      PROVE  RuIInv'
  <2> HIDE DEF ts
  <2>1. ruReceipt.task \in DOMAIN ts
    BY <1>1, <1>2, Zenon DEF RuReceiptOk
  <2>2. t \in RuTaskSet
    BY <1>2, <2>1, Zenon DEF RuTablesOk, RuTaskOk
  <2> HIDE DEF t
  <2>3. /\ t.left \in Nat /\ RuTerminal(t) \in BOOLEAN
        /\ RuReport(t.st, t.result, t.code) \in RuReports
    BY <2>2 DEF RuTaskSet, RuTerminal, RuReport, RuReports
  <2>4. "reconciled" \in RuPcs
    BY Zenon DEF RuPcs, RuReceiptPcs
  <2>5. ruW' \in RuWorkers /\ ruW'.pc = "reconciled"
    BY ONLY <1>5, <2>3, <2>4, ruW \in RuWorkers, Zenon DEF RuWorkers
  <2>6. RuWorkerOk(ruW', ruReceipt', ruTasks', ruLate', ruOps', ruDone')
    BY <1>1, <1>5, <2>5, Zenon DEF RuWorkerOk, RuTaskPcs, RuReceiptPcs
  <2> QED BY <1>1, <1>2, <1>5, <2>6, RuWorkerKeeps, Zenon
<1> QED BY <1>3, <1>4, <1>5, Zenon DEF RuResumeReconcile

\* the worker goes on with its receipt
LEMMA RuReplanningOk ==
    ASSUME RuIInv, ruReceipt.op # 0, ruW' = [ruW EXCEPT !.pc = "replanning"]
    PROVE  RuWorkerOk(ruW', ruReceipt, ruTasks, ruLate, ruOps, ruDone)
<1>1. "replanning" \in RuPcs
  BY Zenon DEF RuPcs, RuReceiptPcs
<1>2. ruW' \in RuWorkers /\ ruW'.pc = "replanning"
  BY <1>1, RuParts, Zenon DEF RuWorkers
<1> QED BY <1>2, Zenon DEF RuWorkerOk, RuTaskPcs, RuReceiptPcs

\* a worker about to report a sound outcome is sound
LEMMA RuReportingOk ==
    ASSUME RuIInv, ruReceipt.op # 0, NEW rep \in RuReports,
           RuSoundReport(rep, ruTasks[ruReceipt.task], ruOps, ruDone),
           ruW' = [ruW EXCEPT !.pc = "reporting", !.rep = rep]
    PROVE  RuWorkerOk(ruW', ruReceipt, ruTasks, ruLate, ruOps, ruDone)
<1>1. "reporting" \in RuPcs
  BY Zenon DEF RuPcs, RuReceiptPcs
<1>2. ruW' \in RuWorkers /\ ruW'.pc = "reporting" /\ ruW'.rep = rep
  BY <1>1, RuParts, Zenon DEF RuWorkers
<1> QED BY <1>2, Zenon DEF RuWorkerOk, RuTaskPcs, RuReceiptPcs

\* success is reported for the receipt's own operation, found completed
LEMMA RuResumeDecideKeeps == ASSUME RuIInv, RuResumeDecide PROVE RuIInv'
<1> USE RuParts
<1>1. ruW.pc = "reconciled" /\ UNCHANGED <<ruTasks, ruDone, ruOps, ruLate>>
  BY Zenon DEF RuResumeDecide, RuAt
<1>2. ruReceipt.op # 0 /\ ruReceipt.task \in DOMAIN ruTasks
  BY <1>1, Zenon DEF RuWorkerOk, RuReceiptPcs, RuReceiptOk
<1>3. CASE RuQuarantine
  BY <1>1, <1>3, RuQuarantineKeeps, Zenon
<1>4. ASSUME UNCHANGED <<ruQuar, ruReceipt>>,
             RuWorkerOk(ruW', ruReceipt, ruTasks, ruLate, ruOps, ruDone)
      PROVE  RuIInv'
  BY <1>1, <1>4, RuSameTables, RuWorkerKeeps, Zenon
<1>5. ASSUME UNCHANGED <<ruQuar, ruReceipt>>, RuBackToLoop PROVE RuIInv'
  <2>1. RuWorkerOk(ruW', ruReceipt', ruTasks', ruLate', ruOps', ruDone')
    BY <1>5, RuAwayOk, Zenon DEF RuBackToLoop
  <2> QED BY <1>1, <1>4, <1>5, <2>1, Zenon
<1>6. ASSUME UNCHANGED <<ruQuar, ruReceipt>>, RuGoto("replanning") PROVE RuIInv'
  BY <1>2, <1>4, <1>6, RuReplanningOk, Zenon DEF RuGoto
<1>7. ASSUME UNCHANGED <<ruQuar, ruReceipt>>, RuVerifyCompleted,
             ruW' = [ruW EXCEPT !.pc = "reporting",
                                !.rep = RuReport("succeeded", ruReceipt.op, "none")]
      PROVE  RuIInv'
  <2> DEFINE rep == RuReport("succeeded", ruReceipt.op, "none")
  <2>1. rep \in RuReports /\ rep.kind = "succeeded" /\ rep.op = ruReceipt.op
    BY RuWorkerFields, Zenon DEF RuReport, RuReports, RuKinds
  <2>2. ruReceipt.op <= ruOps /\ ruReceipt.op \in ruDone
    BY <1>7, Zenon DEF RuVerifyCompleted, RuReceiptOk
  <2> HIDE DEF rep
  <2>3. RuSoundReport(rep, ruTasks[ruReceipt.task], ruOps, ruDone)
    BY <2>1, <2>2, Zenon DEF RuSoundReport, RuKinds
  <2>4. ruW' = [ruW EXCEPT !.pc = "reporting", !.rep = rep]
    BY <1>7, Zenon DEF rep
  <2>5. RuWorkerOk(ruW', ruReceipt, ruTasks, ruLate, ruOps, ruDone)
    BY <1>2, <2>1, <2>3, <2>4, RuReportingOk, Zenon
  <2> QED BY <1>4, <1>7, <2>5, Zenon
<1>8. ASSUME UNCHANGED <<ruQuar, ruReceipt>>,
             ruW' = [ruW EXCEPT !.pc = "reporting",
                                !.rep = RuReport("failed", 0, RuReceiptAct)]
      PROVE  RuIInv'
  <2>1. RuReceiptAct \in RuActs
    BY <1>2, Zenon DEF RuReceiptAct, RuTaskOk, RuTaskSet
  <2> DEFINE rep == RuReport("failed", 0, RuReceiptAct)
  <2>2. rep \in RuReports /\ RuSoundReport(rep, ruTasks[ruReceipt.task], ruOps, ruDone)
    BY <2>1, RuHarmless, Zenon
  <2>3. ruW' = [ruW EXCEPT !.pc = "reporting", !.rep = rep]
    BY <1>8, Zenon
  <2> HIDE DEF rep
  <2>4. RuWorkerOk(ruW', ruReceipt, ruTasks, ruLate, ruOps, ruDone)
    BY <1>2, <2>2, <2>3, RuReportingOk, Zenon
  <2> QED BY <1>4, <1>8, <2>4, Zenon
<1> QED BY <1>3, <1>5, <1>6, <1>7, <1>8, Zenon DEF RuResumeDecide

\* the repeated AwaitingRestart report answers with the deadline of the first
LEMMA RuResumePlanKeeps == ASSUME RuIInv, RuResumePlan PROVE RuIInv'
<1> USE RuParts
<1> DEFINE i == ruReceipt.task
           q == [worker |-> ruReceipt.worker, token |-> ruReceipt.token,
                 rep |-> RuReport("awaiting", ruReceipt.op, "none")]
           ok == /\ RuReportAccepted(ruTasks[i], q)
                 /\ ruTasks' = RuHandleReport(ruTasks, i, q)
                 /\ ruW' = [ruW EXCEPT !.pc = "reanswered", !.left = ruTasks[i].resume]
           sent == /\ ok \/ RuBackToLoop
                   /\ ruTasks' \in {ruTasks, RuHandleReport(ruTasks, i, q)}
                   /\ ruLate' \in {ruLate, ruLate \cup {[task |-> i, q |-> q]}}
                   /\ UNCHANGED <<ruQuar, ruReceipt>>
<1>1. /\ ruW.pc = "replanning" /\ UNCHANGED <<ruDone, ruOps>>
      /\ \/ RuBackToLoop /\ UNCHANGED <<ruTasks, ruQuar, ruReceipt, ruLate>>
         \/ RuQuarantine /\ UNCHANGED <<ruTasks, ruLate>>
         \/ sent
  BY Zenon DEF RuResumePlan, RuSend, RuAt, RuReportPg
<1>2. ruReceipt.op # 0 /\ i \in DOMAIN ruTasks
  BY <1>1, Zenon DEF RuWorkerOk, RuReceiptPcs, RuReceiptOk
<1>3. q \in RuProofs /\ q.rep.kind = "awaiting" /\ q.rep.op = ruReceipt.op
  BY RuWorkerFields, Zenon DEF RuProofs, RuReports, RuReport, RuKinds
<1>4. RuSoundReport(q.rep, ruTasks[i], ruOps, ruDone)
  BY <1>2, <1>3, Zenon DEF RuSoundReport, RuKinds, RuReceiptOk
<1> HIDE DEF q
<1>5. CASE RuBackToLoop /\ UNCHANGED <<ruTasks, ruQuar, ruReceipt, ruLate>>
  <2>1. RuWorkerOk(ruW', ruReceipt', ruTasks', ruLate', ruOps', ruDone')
    BY <1>5, RuAwayOk, Zenon DEF RuBackToLoop
  <2> QED BY <1>1, <1>5, <2>1, RuSameTables, RuWorkerKeeps, Zenon
<1>6. CASE RuQuarantine /\ UNCHANGED <<ruTasks, ruLate>>
  BY <1>1, <1>6, RuQuarantineKeeps, Zenon
<1>7. CASE sent
  <2>1. RuMoved(ruTasks, ruTasks', RuPlanOf(q.rep))
    BY <1>1, <1>2, <1>3, <1>4, <1>7, RuSendTables, Zenon
  <2>2. RuWorkerOk(ruW', ruReceipt', ruTasks', ruLate', ruOps', ruDone')
    <3>1. CASE ok
      <4>1. i \in DOMAIN ruTasks'
        BY <1>2, <2>1, Zenon DEF RuMoved
      <4>2. /\ RuLeased(ruTasks'[i]) /\ ruTasks'[i].stage = "awaiting_restart"
            /\ \/ ruTasks'[i] = ruTasks[i] /\ ruTasks[i].plan = q.rep.op
               \/ ruTasks'[i].left = RuResume /\ ruTasks[i].resume = 0
        BY <1>2, <1>3, <1>4, <3>1, RuHandleTables, Zenon
      <4>3. ruTasks[i].resume \in Nat /\ RuTaskOk(ruTasks[i], ruOps, ruDone)
        BY <1>2, Zenon DEF RuTaskOk, RuTaskSet
      <4>4. ruTasks[i].resume = 0 \/ ruTasks[i].resume <= ruTasks'[i].left
        BY <4>2, <4>3, Zenon DEF RuTaskOk
      <4>5. RuCovered(ruTasks'[i], ruTasks[i].resume)
        BY <4>2, <4>3, <4>4 DEF RuCovered, RuLeased, RuTerminal
      <4>6. "reanswered" \in RuPcs
        BY Zenon DEF RuPcs, RuReceiptPcs
      <4>7. ruW' \in RuWorkers /\ ruW'.pc = "reanswered" /\ ruW'.left = ruTasks[i].resume
        BY ONLY <3>1, <4>3, <4>6, ruW \in RuWorkers, Zenon DEF RuWorkers
      <4>8. UNCHANGED ruReceipt
        BY <1>7, Zenon
      <4> HIDE DEF ok, sent
      <4> QED BY <1>2, <4>1, <4>5, <4>7, <4>8, Zenon DEF RuWorkerOk, RuTaskPcs, RuReceiptPcs
    <3>2. CASE RuBackToLoop
      BY <3>2, RuAwayOk, Zenon DEF RuBackToLoop
    <3> QED BY <1>7, <3>1, <3>2, Zenon
  <2>3. /\ ruTasks' \in {ruTasks, RuHandleReport(ruTasks, i, q)}
        /\ ruLate' \in {ruLate, ruLate \cup {[task |-> i, q |-> q]}}
        /\ ruReceipt' \in {ruReceipt, RuNoReceipt} /\ ruQuar' \in BOOLEAN
    BY <1>7, Zenon
  <2>4. UNCHANGED <<ruOps, ruDone>>
    BY <1>1, Zenon
  <2> HIDE DEF sent, ok
  <2> QED BY <1>2, <1>3, <1>4, <2>2, <2>3, <2>4, RuSentKeeps, Zenon
<1> QED BY <1>1, <1>5, <1>6, <1>7, Zenon

\* the repeated answer and the second scheduling
LEMMA RuResumeAnsweredKeeps ==
    ASSUME RuIInv, RuResumeAnswered \/ RuResumeScheduled
    PROVE  RuIInv'
<1>1. /\ UNCHANGED <<ruTasks, ruDone, ruOps, ruLate>>
      /\ \/ RuQuarantine
         \/ /\ UNCHANGED <<ruQuar, ruReceipt>>
            /\ RuBackToLoop \/ ruW' = [RuIdleWorker(ruW.inst) EXCEPT !.pc = "down"]
         \/ /\ UNCHANGED <<ruQuar, ruReceipt>>
            /\ ruW.pc = "reanswered" /\ ruW' = [ruW EXCEPT !.pc = "rescheduling"]
  BY Zenon DEF RuResumeAnswered, RuResumeScheduled, RuSchedule, RuGoto, RuAt
<1>2. CASE RuQuarantine
  BY <1>1, <1>2, RuQuarantineKeeps, Zenon
<1>3. ASSUME UNCHANGED <<ruQuar, ruReceipt>>,
             RuBackToLoop \/ ruW' = [RuIdleWorker(ruW.inst) EXCEPT !.pc = "down"]
      PROVE  RuIInv'
  <2>1. RuWorkerOk(ruW', ruReceipt', ruTasks', ruLate', ruOps', ruDone')
    BY <1>3, RuAwayOk, Zenon DEF RuBackToLoop
  <2> QED BY <1>1, <1>3, <2>1, RuSameTables, RuWorkerKeeps, RuParts, Zenon
<1>4. ASSUME UNCHANGED <<ruQuar, ruReceipt>>, ruW.pc = "reanswered",
             ruW' = [ruW EXCEPT !.pc = "rescheduling"]
      PROVE  RuIInv'
  <2>1. ruReceipt.op # 0 /\ ruW \in RuWorkers
    BY <1>4, RuParts, Zenon DEF RuWorkerOk, RuReceiptPcs
  <2>2. "rescheduling" \in RuPcs
    BY Zenon DEF RuPcs, RuReceiptPcs
  <2>3. ruW' \in RuWorkers /\ ruW'.pc = "rescheduling"
    BY ONLY <1>4, <2>1, <2>2, Zenon DEF RuWorkers
  <2>4. RuWorkerOk(ruW', ruReceipt, ruTasks, ruLate, ruOps, ruDone)
    BY <2>1, <2>3, Zenon DEF RuWorkerOk, RuTaskPcs, RuReceiptPcs
  <2> QED BY <1>1, <1>4, <2>4, RuSameTables, RuWorkerKeeps, RuParts, Zenon
<1> QED BY <1>1, <1>2, <1>3, <1>4, Zenon

\* the report after the restart
LEMMA RuResumeReportKeeps == ASSUME RuIInv, RuResumeReport PROVE RuIInv'
<1> USE RuParts
<1> DEFINE i == ruReceipt.task
           q == [worker |-> ruReceipt.worker, token |-> ruReceipt.token, rep |-> ruW.rep]
           sent == /\ ruTasks' \in {ruTasks, RuHandleReport(ruTasks, i, q)}
                   /\ ruLate' \in {ruLate, ruLate \cup {[task |-> i, q |-> q]}}
<1>1. /\ ruW.pc = "reporting" /\ UNCHANGED <<ruDone, ruOps>>
      /\ \/ RuQuarantine /\ UNCHANGED <<ruTasks, ruLate>>
         \/ /\ RuBackToLoop /\ UNCHANGED ruQuar
            /\ ruReceipt' \in {ruReceipt, RuNoReceipt} /\ sent
  BY Zenon DEF RuResumeReport, RuSend, RuAt
<1>2. i \in DOMAIN ruTasks /\ RuSoundReport(ruW.rep, ruTasks[i], ruOps, ruDone)
  BY <1>1, Zenon DEF RuWorkerOk, RuReceiptPcs, RuReceiptOk
<1>3. q \in RuProofs /\ q.rep = ruW.rep
  BY RuWorkerFields, RuProofFields, Zenon
<1> HIDE DEF q
<1>4. CASE RuQuarantine /\ UNCHANGED <<ruTasks, ruLate>>
  BY <1>1, <1>4, RuQuarantineKeeps, Zenon
<1>5. ASSUME RuBackToLoop, UNCHANGED ruQuar, ruReceipt' \in {ruReceipt, RuNoReceipt}, sent
      PROVE  RuIInv'
  <2>1. RuWorkerOk(ruW', ruReceipt', ruTasks', ruLate', ruOps', ruDone')
    BY <1>5, RuAwayOk, Zenon DEF RuBackToLoop
  <2> QED BY <1>1, <1>2, <1>3, <1>5, <2>1, RuSentKeeps, Zenon
<1> QED BY <1>1, <1>4, <1>5, Zenon

\* the process ends or starts, and what happens beside it
LEMMA RuOtherSteps ==
    ASSUME RuIInv,
           \/ RuWorkerStart \/ RuCrash \/ RuHelper \/ RuClearQuarantine
           \/ RuLeaderLost \/ RuLeaderBack \/ UNCHANGED ruVars
    PROVE  RuIInv'
<1> USE RuParts
<1>1. CASE RuWorkerStart \/ RuCrash
  <2>1. /\ UNCHANGED <<ruTasks, ruReceipt, ruQuar, ruDone, ruOps, ruLate>>
        /\ ruW' \in {RuIdleWorker(ruW.inst + 1), [RuIdleWorker(ruW.inst) EXCEPT !.pc = "down"]}
    BY <1>1, Zenon DEF RuWorkerStart, RuCrash
  <2>2. RuWorkerOk(ruW', ruReceipt', ruTasks', ruLate', ruOps', ruDone')
    BY <2>1, RuAwayOk, Zenon
  <2> QED BY <2>1, <2>2, RuSameTables, RuWorkerKeeps, Zenon
<1>2. ASSUME UNCHANGED <<ruTasks, ruW, ruReceipt, ruOps, ruLate>>, ruQuar' \in BOOLEAN,
             ruDone \subseteq ruDone'
      PROVE  RuIInv'
  <2>1. RuTablesOk(ruTasks', ruLate, ruOps, ruDone) /\ RuMoved(ruTasks, ruTasks', 0)
    <3>1. RuMoved(ruTasks, ruTasks, 0)
      BY RuStays, Zenon DEF RuMoved
    <3> QED BY <1>2, <3>1, Zenon
  <2>2. ruLate' \subseteq ruLate
    BY <1>2, Zenon
  <2> QED BY <1>2, <2>1, <2>2, RuServerKeeps, RuNotBoundToNone, Zenon
<1>3. CASE RuHelper
  BY <1>2, <1>3, Zenon DEF RuHelper
<1>4. CASE RuClearQuarantine \/ RuLeaderLost \/ RuLeaderBack \/ UNCHANGED ruVars
  BY <1>2, <1>4, Zenon DEF RuClearQuarantine, RuLeaderLost, RuLeaderBack, ruVars
<1> QED BY <1>1, <1>3, <1>4, Zenon

\* Every step keeps the invariant.
LEMMA RuStepKeeps == ASSUME RuIInv, [RuNext]_ruVars PROVE RuIInv'
<1>1. CASE RuWorkerStep
  BY <1>1, RuClaimKeeps, RuReportStartedKeeps, RuCheckQuarantineKeeps,
     RuExecuteActionKeeps, RuReportOutcomeKeeps, RuPrepareRestartKeeps,
     RuReportAwaitingKeeps, RuRestartAnsweredKeeps, RuRestartScheduledKeeps,
     RuResumeReconcileKeeps,
     RuResumeDecideKeeps, RuResumePlanKeeps, RuResumeAnsweredKeeps,
     RuResumeReportKeeps, Zenon DEF RuWorkerStep, RuClaimPg
<1>2. CASE RuNext
  BY <1>1, <1>2, RuServerSteps, RuTickKeeps, RuRenewKeeps, RuOtherSteps, Zenon
     DEF RuNext, RuCreatePg, RuCancelPg, RuServerSweep, RuSweepPg, RuTime, RuWorker
<1>3. CASE UNCHANGED ruVars
  BY <1>3, RuOtherSteps, Zenon
<1> QED BY <1>2, <1>3, Zenon

\* the first state
LEMMA RuStart == RuInit => RuIInv
<1> SUFFICES ASSUME RuInit PROVE RuIInv
  OBVIOUS
<1>1. RuTablesOk(ruTasks, ruLate, ruOps, ruDone)
  BY DEF RuInit, RuTablesOk
<1>2. RuReceiptOk(ruReceipt, ruTasks, ruOps)
  BY RuNoneOk, Zenon DEF RuInit
<1>3. RuWorkerOk(ruW, ruReceipt, ruTasks, ruLate, ruOps, ruDone)
  BY RuIdleOk, Zenon DEF RuInit
<1> QED BY <1>1, <1>2, <1>3, Zenon DEF RuInit, RuIInv

\* A task that asks for an installation is reported as succeeded only for an
\* operation that the local updater completed (remote_update.rs).
THEOREM SucceededWasInstalled == RuSpec => []RuSucceededWasInstalled
<1>1. RuIInv => RuSucceededWasInstalled
  BY Zenon DEF RuIInv, RuTablesOk, RuTaskOk, RuSucceededWasInstalled
<1>2. RuIInv /\ [RuNext]_ruVars => RuIInv'
  BY RuStepKeeps, Zenon
<1> QED BY <1>1, <1>2, RuStart, PTL DEF RuSpec

\* the two places where the worker has decided to install
RuDecided == {"scheduling", "rescheduling"}

\* Only the two comparisons with the clock lead there.
LEMMA RuOnlyAnswersDecide ==
    ASSUME RuIInv, [RuNext]_ruVars, ruW.pc # ruW'.pc, ruW'.pc \in RuDecided
    PROVE  RuRestartAnswered \/ RuResumeAnswered
<1>0. ruW \in RuWorkers
  BY RuParts, Zenon
<1>1. \A pc : [ruW EXCEPT !.pc = pc].pc = pc
  BY <1>0, Zenon DEF RuWorkers
<1>2. \A n : RuIdleWorker(n).pc = "idle" /\ [RuIdleWorker(n) EXCEPT !.pc = "down"].pc = "down"
  BY Zenon DEF RuIdleWorker
<1>3. \A rep : [ruW EXCEPT !.pc = "finished", !.rep = rep].pc = "finished"
  BY <1>0, Zenon DEF RuWorkers
<1>4. ~RuBackToLoop /\ ~RuOperationFailed /\ ~RuQuarantine /\ ruW' # ruW
  BY <1>2, <1>3, Zenon DEF RuBackToLoop, RuOperationFailed, RuFinished, RuQuarantine,
     RuDecided
<1>5. \A n : ruW' # RuIdleWorker(n) /\ ruW' # [RuIdleWorker(n) EXCEPT !.pc = "down"]
  BY <1>2, Zenon DEF RuDecided
<1>6. /\ ~RuGoto("started") /\ ~RuGoto("replanning")
      /\ \A rep : ~RuFinished(rep)
  BY <1>1, <1>3, Zenon DEF RuGoto, RuFinished, RuDecided
<1>7. ~RuTick /\ ~RuClaim /\ ~RuCheckQuarantine
  <2>1. [ruW EXCEPT !.left = RuDec(@)].pc = ruW.pc
    BY <1>0, Zenon DEF RuWorkers
  <2>3. ~RuTick
    BY <2>1, Zenon DEF RuTick
  <2>4. ~RuClaim
    <3>1. ASSUME RuClaim
          PROVE  \/ ruW' = ruW
                 \/ \E i, q, n : ruW' = [ruW EXCEPT !.pc = "claimed", !.task = i,
                                                   !.seen = q, !.token = n]
      <4>1. PICK i : \/ ruW' = IF RuServerClaim(RuReconcileExpired(ruTasks), i)[i].st # "claimed"
                               THEN ruW
                               ELSE [ruW EXCEPT !.pc = "claimed", !.task = i, !.seen = ruQuar,
                                       !.token = RuServerClaim(RuReconcileExpired(ruTasks), i)[i].attempt]
                     \/ UNCHANGED ruW
        BY <3>1, Zenon DEF RuClaim
      <4> QED BY <4>1, Zenon
    <3>2. ASSUME NEW i, NEW q, NEW n,
                 ruW' = [ruW EXCEPT !.pc = "claimed", !.task = i, !.seen = q, !.token = n]
          PROVE  FALSE
      <4>1. ruW'.pc = "claimed"
        BY <1>0, <3>2, Zenon DEF RuWorkers
      <4> QED BY <4>1, Zenon DEF RuDecided
    <3> QED BY <1>4, <3>1, <3>2, Zenon
  <2>5. ~RuCheckQuarantine
    <3>1. ASSUME RuCheckQuarantine
          PROVE  \/ \E rep : ruW' = [ruW EXCEPT !.pc = "finished", !.rep = rep]
                 \/ \E pc \in {"preparing", "working"} : ruW' = [ruW EXCEPT !.pc = pc]
      BY <3>1, Zenon DEF RuCheckQuarantine
    <3> QED BY <1>1, <1>3, <3>1, Zenon DEF RuDecided
  <2> QED BY <2>3, <2>4, <2>5, Zenon
<1>8. ~RuPrepareRestart /\ ~RuReportAwaiting /\ ~RuResumePlan
  <2>1. \A n : /\ [ruW EXCEPT !.pc = "bound", !.op = n].pc = "bound"
              /\ [ruW EXCEPT !.pc = "answered", !.left = n].pc = "answered"
              /\ [ruW EXCEPT !.pc = "reanswered", !.left = n].pc = "reanswered"
    BY <1>0, Zenon DEF RuWorkers
  <2>2. ~RuPrepareRestart
    BY <1>4, <2>1, Zenon DEF RuPrepareRestart, RuDecided
  <2>3. ~RuReportAwaiting
    BY <1>4, <2>1, Zenon DEF RuReportAwaiting, RuSend, RuDecided
  <2>4. ~RuResumePlan
    BY <1>4, <2>1, Zenon DEF RuResumePlan, RuSend, RuDecided
  <2> QED BY <2>2, <2>3, <2>4, Zenon
<1>9. ~RuResumeReconcile /\ ~RuResumeDecide /\ ~RuRenew
  <2>2. \A rep : [ruW EXCEPT !.pc = "reporting", !.rep = rep].pc = "reporting"
    BY <1>0, Zenon DEF RuWorkers
  <2>3. ~RuResumeReconcile
    <3>1. ASSUME RuResumeReconcile
          PROVE  \/ RuQuarantine \/ RuBackToLoop \/ ruW' = ruW
                 \/ \E a, b, c : ruW' = [ruW EXCEPT !.pc = "reconciled", !.term = a,
                                                   !.left = b, !.resp = c]
      BY <3>1, Zenon DEF RuResumeReconcile
    <3>2. ASSUME NEW a, NEW b, NEW c,
                 ruW' = [ruW EXCEPT !.pc = "reconciled", !.term = a, !.left = b, !.resp = c]
          PROVE  FALSE
      <4>1. ruW'.pc = "reconciled"
        BY <1>0, <3>2, Zenon DEF RuWorkers
      <4> QED BY <4>1, Zenon DEF RuDecided
    <3> QED BY <1>4, <3>1, <3>2, Zenon
  <2>4. ~RuResumeDecide
    BY <1>4, <1>6, <2>2, Zenon DEF RuResumeDecide, RuDecided
  <2>5. ~RuRenew
    BY <1>3, <1>4, Zenon DEF RuRenew, RuDecided
  <2> QED BY <2>3, <2>4, <2>5, Zenon
<1>10. /\ ~RuReportStarted /\ ~RuExecuteAction /\ ~RuReportOutcome /\ ~RuResumeReport
       /\ ~RuRestartScheduled /\ ~RuResumeScheduled
  <2>1. ~RuReportStarted
    BY <1>4, <1>6, Zenon DEF RuReportStarted, RuSend
  <2>2. ~RuExecuteAction
    BY <1>4, <1>6, Zenon DEF RuExecuteAction
  <2>3. ~RuReportOutcome /\ ~RuResumeReport
    BY <1>4, Zenon DEF RuReportOutcome, RuResumeReport, RuSend
  <2>4. ~RuRestartScheduled /\ ~RuResumeScheduled
    BY <1>4, <1>5, Zenon DEF RuRestartScheduled, RuResumeScheduled, RuSchedule
  <2> QED BY <2>1, <2>2, <2>3, <2>4, Zenon
<1>11. ~RuWorkerStart /\ ~RuCrash
  BY <1>5, Zenon DEF RuWorkerStart, RuCrash
<1>12. CASE RuWorkerStep
  BY <1>7, <1>8, <1>9, <1>10, <1>12, Zenon DEF RuWorkerStep, RuClaimPg
<1>13. CASE RuNext
  <2>1. RuWorkerStep
    BY <1>4, <1>7, <1>9, <1>11, <1>13, Zenon
       DEF RuNext, RuCreatePg, RuCancelPg, RuServerSweep, RuSweepPg, RuTime, RuWorker,
           RuCreate, RuCancel, RuSweep, RuLeaderLost, RuLeaderBack, RuLateReport,
           RuHelper, RuClearQuarantine
  <2> QED BY <1>12, <2>1, Zenon
<1> QED BY <1>4, <1>13, Zenon DEF ruVars

\* When it decides, the server has not closed the task, or only on a report.
LEMMA RuDecides ==
    ASSUME RuIInv, [RuNext]_ruVars, ruW.pc # ruW'.pc, ruW'.pc \in RuDecided
    PROVE  LET t == ruTasks[ruReceipt.task] IN RuTerminal(t) => t.proof # RuNoProof
<1> DEFINE t == ruTasks[ruReceipt.task]
<1>1. ruW \in RuWorkers /\ ruW.left \in Nat
  BY RuParts, RuWorkerFields, Zenon
<1>2. RuCovered(t, ruW.left) /\ ruW.left > 0
  <2>1. CASE RuRestartAnswered
    <3>1. ruW.pc = "answered" /\ (ruW.left > 0 \/ RuOperationFailed)
      BY <2>1, Zenon DEF RuRestartAnswered, RuAt
    <3>2. ~RuOperationFailed
      BY <1>1, Zenon DEF RuOperationFailed, RuFinished, RuWorkers, RuDecided
    <3> QED BY <3>1, <3>2, RuParts, Zenon DEF RuWorkerOk
  <2>2. CASE RuResumeAnswered
    <3>1. ruW.pc = "reanswered" /\ (ruW.left > 0 \/ RuBackToLoop)
      BY <2>2, Zenon DEF RuResumeAnswered, RuAt
    <3>2. ~RuBackToLoop
      <4>1. RuIdleWorker(ruW.inst).pc = "idle"
        BY Zenon DEF RuIdleWorker
      <4> QED BY <4>1, Zenon DEF RuBackToLoop, RuDecided
    <3> QED BY <3>1, <3>2, RuParts, Zenon DEF RuWorkerOk
  <2> QED BY <2>1, <2>2, RuOnlyAnswersDecide, Zenon
<1> QED BY <1>2, Zenon DEF RuCovered

\* The client decides to install only while the server has not closed the
\* task on its own (update_tasks.rs and remote_update.rs, the two deadlines).
THEOREM DecidedWhileOpen == RuSpec => RuDecidedWhileOpen
<1>1. RuIInv /\ [RuNext]_ruVars => RuIInv'
  BY RuStepKeeps, Zenon
<1>2. RuIInv /\ [RuNext]_ruVars =>
        [ruW.pc # ruW'.pc /\ ruW'.pc \in {"scheduling", "rescheduling"}
           => LET t == ruTasks[ruReceipt.task] IN
              RuTerminal(t) => t.proof # RuNoProof]_ruVars
  BY RuDecides, Zenon DEF RuDecided
<1> QED BY <1>1, <1>2, RuStart, PTL DEF RuSpec, RuDecidedWhileOpen

=============================================================================
