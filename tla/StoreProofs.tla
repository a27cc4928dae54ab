---------------------------- MODULE StoreProofs -----------------------------
(***************************************************************************)
(* Proofs about stored state that several actors change: the challenges of *)
(* Certificates, the move to PostgreSQL of StorageMigration, the           *)
(* configuration file the server manages (ManagedConfig) and the staging   *)
(* of an update (UpdateStaging).                                           *)
(***************************************************************************)
EXTENDS Certificates, StorageMigration, ManagedConfig, UpdateStaging,
        FiniteSetTheorems, TLAPS

-----------------------------------------------------------------------------
(* ACME challenges *)

AcRow == [there : BOOLEAN, published : BOOLEAN, observed : BOOLEAN,
          rejected : BOOLEAN, requested : BOOLEAN]
AcPcs == {"new", "ordering", "ready", "posting", "propagating", "ended"}

AcTypeOK ==
    /\ acKind \in {"local", "shared", "dns"}
    /\ acLease \in Nat
    /\ acPc \in [AcIds -> AcPcs]
    /\ acIntent \in [AcIds -> AcRow]
    /\ acPost \in [AcIds -> {"none", "flying", "landed", "rejected", "lost"}]
    /\ acRecords \subseteq AcIds
    /\ acClean \in [AcIds -> {"idle", "authorized", "seen", "absent", "found", "deleted"}]

\* what the journal row of an attempt says of its creation request: there is
\* a row as long as the request may land and as long as the record exists,
\* and a row is resolved only when the request can no longer land
AcJournal(i) ==
    /\ acPc[i] \in {"new", "ordering"} => acIntent[i] = AcNoIntent /\ acPost[i] = "none"
    /\ acPost[i] = "flying" => acIntent[i].there
    /\ acIntent[i].observed \/ acIntent[i].rejected => acPost[i] \notin {"none", "flying"}
    /\ i \in acRecords => acPost[i] = "landed" /\ acIntent[i].there
    /\ acClean[i] # "idle" => acIntent[i].requested
    /\ acClean[i] \in {"seen", "found", "deleted"} => acPost[i] = "landed"
    /\ acClean[i] = "absent" /\ i \in acRecords
          => ~(acIntent[i].observed \/ acIntent[i].rejected)
    /\ acClean[i] = "deleted" => i \notin acRecords

\* a live job is past its acquisition, its cleanup has not been requested, and
\* its publication is where the ACME server looks for it
AcLive(i) ==
    /\ acLease = i => acPc[i] \notin {"new", "ended"} /\ ~acIntent[i].requested
    /\ acPc[i] \in {"posting", "propagating"} => acKind = "dns"
    /\ acPc[i] = "ready" /\ acKind = "local" => acLocal = i
    /\ acPc[i] = "ready" /\ acKind = "shared" /\ acLease = i => acShared = i
    /\ acPc[i] = "ready" /\ acKind = "dns" /\ acLease = i => i \in acRecords

\* in one process the attempts follow one another
AcInTurn ==
    acKind = "local" =>
       \A i, j \in AcIds : i < j /\ acPc[j] # "new" => acPc[i] = "ended"

\* The inductive invariant of the challenges.
AcIInv == AcTypeOK /\ (\A i \in AcIds : AcJournal(i) /\ AcLive(i)) /\ AcInTurn

\* What the updates of a journal row leave alone.
LEMMA AcRowUpdates ==
    ASSUME NEW r \in AcRow
    PROVE  /\ [r EXCEPT !.requested = TRUE] \in AcRow
           /\ [r EXCEPT !.requested = TRUE].requested
           /\ [r EXCEPT !.requested = TRUE].there = r.there
           /\ [r EXCEPT !.requested = TRUE].observed = r.observed
           /\ [r EXCEPT !.requested = TRUE].rejected = r.rejected
           /\ [r EXCEPT !.observed = TRUE] \in AcRow
           /\ [r EXCEPT !.observed = TRUE].there = r.there
           /\ [r EXCEPT !.observed = TRUE].requested = r.requested
           /\ [r EXCEPT !.published = TRUE, !.observed = TRUE] \in AcRow
           /\ [r EXCEPT !.published = TRUE, !.observed = TRUE].there = r.there
           /\ [r EXCEPT !.published = TRUE, !.observed = TRUE].requested = r.requested
           /\ [r EXCEPT !.rejected = TRUE, !.requested = TRUE] \in AcRow
           /\ [r EXCEPT !.rejected = TRUE, !.requested = TRUE].there = r.there
    BY Zenon DEF AcRow

\* fields of an empty and of a fresh journal row
LEMMA AcNoRow ==
    /\ AcNoIntent \in AcRow
    /\ ~AcNoIntent.there /\ ~AcNoIntent.observed /\ ~AcNoIntent.rejected
    /\ ~AcNoIntent.requested
    /\ [AcNoIntent EXCEPT !.there = TRUE] \in AcRow
    /\ [AcNoIntent EXCEPT !.there = TRUE].there
    /\ ~[AcNoIntent EXCEPT !.there = TRUE].observed
    /\ ~[AcNoIntent EXCEPT !.there = TRUE].rejected
    /\ ~[AcNoIntent EXCEPT !.there = TRUE].requested
    BY Zenon DEF AcRow, AcNoIntent

\* An attempt none of whose own state changes keeps what its journal says.
LEMMA AcJournalKept ==
    ASSUME NEW j \in AcIds, AcJournal(j),
           acPc'[j] = acPc[j], acIntent'[j] = acIntent[j], acPost'[j] = acPost[j],
           acClean'[j] = acClean[j], j \in acRecords' <=> j \in acRecords
    PROVE  AcJournal(j)'
    BY Zenon DEF AcJournal

\* Nor does it lose its publication, when no publication is taken from it and
\* the lease is not given to it.
LEMMA AcLiveKept ==
    ASSUME NEW j \in AcIds, AcLive(j), acKind' = acKind,
           acPc'[j] = acPc[j], acIntent'[j] = acIntent[j],
           j \in acRecords' <=> j \in acRecords,
           acLease' = j => acLease = j,
           acPc[j] = "ready" /\ acKind = "local" /\ acLocal = j => acLocal' = j,
           acPc[j] = "ready" /\ acLease = j /\ acShared = j => acShared' = j
    PROVE  AcLive(j)'
    BY Zenon DEF AcLive

\* the invariant speaks of nothing but the variables
LEMMA AcStuttering == AcIInv /\ UNCHANGED acVars => AcIInv'
<1> SUFFICES ASSUME AcIInv, UNCHANGED acVars PROVE AcIInv'
    OBVIOUS
<1>1. AcTypeOK' /\ AcInTurn'
    BY Zenon DEF AcIInv, acVars, AcTypeOK, AcInTurn
<1>2. ASSUME NEW j \in AcIds PROVE AcJournal(j)' /\ AcLive(j)'
    BY AcJournalKept, AcLiveKept, Zenon DEF AcIInv, acVars
<1> QED BY <1>1, <1>2, Zenon DEF AcIInv

\* The steps that change no journal row.
LEMMA AcPlainSteps ==
    ASSUME AcIInv, NEW i \in AcIds,
           \/ AcAcquire(i)
           \/ AcPublishLocal(i)
           \/ AcPublishShared(i)
           \/ AcFinishHttp(i)
           \/ AcPropagated(i)
           \/ AcAbort(i)
           \/ AcProvider(i)
           \/ AcLook(i)
           \/ AcDelete(i)
           \/ AcCleanStops(i)
    PROVE  AcIInv'
<1>0. /\ AcTypeOK /\ AcInTurn
      /\ \A j \in AcIds : AcJournal(j) /\ AcLive(j)
      /\ \A j \in AcIds : j \in Nat /\ j > 0
    BY AcAssumption DEF AcIInv, AcIds
<1>1. CASE AcAcquire(i)
  <2> USE <1>0, <1>1 DEF AcAcquire, AcGoto
  <2>1. AcTypeOK'
    BY Zenon DEF AcTypeOK, AcPcs
  <2>2. AcJournal(i)' /\ AcLive(i)'
    BY AcNoRow, Zenon DEF AcTypeOK, AcJournal, AcLive, AcInTurn
  <2>3. ASSUME NEW j \in AcIds \ {i} PROVE AcJournal(j)' /\ AcLive(j)'
    <3>1. /\ acPc'[j] = acPc[j] /\ acIntent'[j] = acIntent[j]
          /\ acPost'[j] = acPost[j] /\ acClean'[j] = acClean[j]
          /\ j \in acRecords' <=> j \in acRecords
      BY Zenon DEF AcTypeOK
    <3>2. /\ acKind' = acKind
          /\ acLease' = j => acLease = j
          /\ acPc[j] = "ready" /\ acKind = "local" /\ acLocal = j => acLocal' = j
          /\ acPc[j] = "ready" /\ acLease = j /\ acShared = j => acShared' = j
      BY Zenon DEF AcTypeOK, AcInTurn
    <3> HIDE <1>1 DEF AcAcquire, AcGoto
    <3> QED BY <3>1, <3>2, AcJournalKept, AcLiveKept, Zenon
  <2>4. AcInTurn'
    BY DEF AcTypeOK, AcInTurn
  <2> HIDE <1>1 DEF AcAcquire, AcGoto
  <2> QED BY <2>1, <2>2, <2>3, <2>4, Zenon DEF AcIInv
<1>2. CASE AcPublishLocal(i)
  <2> USE <1>0, <1>2 DEF AcPublishLocal, AcGoto
  <2>1. AcTypeOK'
    BY Zenon DEF AcTypeOK, AcPcs
  <2>2. AcJournal(i)' /\ AcLive(i)'
    BY Zenon DEF AcTypeOK, AcJournal, AcLive, AcInTurn
  <2>3. ASSUME NEW j \in AcIds \ {i} PROVE AcJournal(j)' /\ AcLive(j)'
    <3>1. /\ acPc'[j] = acPc[j] /\ acIntent'[j] = acIntent[j]
          /\ acPost'[j] = acPost[j] /\ acClean'[j] = acClean[j]
          /\ j \in acRecords' <=> j \in acRecords
      BY Zenon DEF AcTypeOK
    <3>2. /\ acKind' = acKind
          /\ acLease' = j => acLease = j
          /\ acPc[j] = "ready" /\ acKind = "local" /\ acLocal = j => acLocal' = j
          /\ acPc[j] = "ready" /\ acLease = j /\ acShared = j => acShared' = j
      BY DEF AcTypeOK, AcInTurn
    <3> HIDE <1>2 DEF AcPublishLocal, AcGoto
    <3> QED BY <3>1, <3>2, AcJournalKept, AcLiveKept, Zenon
  <2>4. AcInTurn'
    BY Zenon DEF AcTypeOK, AcInTurn
  <2> HIDE <1>2 DEF AcPublishLocal, AcGoto
  <2> QED BY <2>1, <2>2, <2>3, <2>4, Zenon DEF AcIInv
<1>3. CASE AcPublishShared(i)
  <2> USE <1>0, <1>3 DEF AcPublishShared, AcGoto, AcEnds, AcOwnerActive
  <2>1. AcTypeOK'
    BY Zenon DEF AcTypeOK, AcPcs
  <2>2. AcJournal(i)' /\ AcLive(i)'
    BY DEF AcTypeOK, AcJournal, AcLive, AcInTurn
  <2>3. ASSUME NEW j \in AcIds \ {i} PROVE AcJournal(j)' /\ AcLive(j)'
    <3>1. /\ acPc'[j] = acPc[j] /\ acIntent'[j] = acIntent[j]
          /\ acPost'[j] = acPost[j] /\ acClean'[j] = acClean[j]
          /\ j \in acRecords' <=> j \in acRecords
      BY Zenon DEF AcTypeOK
    <3>2. /\ acKind' = acKind
          /\ acLease' = j => acLease = j
          /\ acPc[j] = "ready" /\ acKind = "local" /\ acLocal = j => acLocal' = j
          /\ acPc[j] = "ready" /\ acLease = j /\ acShared = j => acShared' = j
      BY Zenon DEF AcTypeOK, AcInTurn
    <3> HIDE <1>3 DEF AcPublishShared, AcGoto, AcEnds, AcOwnerActive
    <3> QED BY <3>1, <3>2, AcJournalKept, AcLiveKept, Zenon
  <2>4. AcInTurn'
    BY Zenon DEF AcTypeOK, AcInTurn
  <2> HIDE <1>3 DEF AcPublishShared, AcGoto, AcEnds, AcOwnerActive
  <2> QED BY <2>1, <2>2, <2>3, <2>4, Zenon DEF AcIInv
<1>4. CASE AcFinishHttp(i)
  <2> USE <1>0, <1>4 DEF AcFinishHttp, AcGoto, AcEnds, AcRemoveLocal, AcCleanupShared
  <2>1. AcTypeOK'
    BY Zenon DEF AcTypeOK, AcPcs
  <2>2. AcJournal(i)' /\ AcLive(i)'
    BY DEF AcTypeOK, AcJournal, AcLive, AcInTurn
  <2>3. ASSUME NEW j \in AcIds \ {i} PROVE AcJournal(j)' /\ AcLive(j)'
    <3>1. /\ acPc'[j] = acPc[j] /\ acIntent'[j] = acIntent[j]
          /\ acPost'[j] = acPost[j] /\ acClean'[j] = acClean[j]
          /\ j \in acRecords' <=> j \in acRecords
      BY Zenon DEF AcTypeOK
    <3>2. /\ acKind' = acKind
          /\ acLease' = j => acLease = j
          /\ acPc[j] = "ready" /\ acKind = "local" /\ acLocal = j => acLocal' = j
          /\ acPc[j] = "ready" /\ acLease = j /\ acShared = j => acShared' = j
      BY DEF AcTypeOK, AcInTurn
    <3> HIDE <1>4 DEF AcFinishHttp, AcGoto, AcEnds, AcRemoveLocal, AcCleanupShared
    <3> QED BY <3>1, <3>2, AcJournalKept, AcLiveKept, Zenon
  <2>4. AcInTurn'
    BY Zenon DEF AcTypeOK, AcInTurn
  <2> HIDE <1>4 DEF AcFinishHttp, AcGoto, AcEnds, AcRemoveLocal, AcCleanupShared
  <2> QED BY <2>1, <2>2, <2>3, <2>4, Zenon DEF AcIInv
<1>5. CASE AcPropagated(i)
  <2> USE <1>0, <1>5 DEF AcPropagated, AcGoto
  <2>1. AcTypeOK'
    BY Zenon DEF AcTypeOK, AcPcs
  <2>2. AcJournal(i)' /\ AcLive(i)'
    BY Zenon DEF AcTypeOK, AcJournal, AcLive, AcInTurn
  <2>3. ASSUME NEW j \in AcIds \ {i} PROVE AcJournal(j)' /\ AcLive(j)'
    <3>1. /\ acPc'[j] = acPc[j] /\ acIntent'[j] = acIntent[j]
          /\ acPost'[j] = acPost[j] /\ acClean'[j] = acClean[j]
          /\ j \in acRecords' <=> j \in acRecords
      BY Zenon DEF AcTypeOK
    <3>2. /\ acKind' = acKind
          /\ acLease' = j => acLease = j
          /\ acPc[j] = "ready" /\ acKind = "local" /\ acLocal = j => acLocal' = j
          /\ acPc[j] = "ready" /\ acLease = j /\ acShared = j => acShared' = j
      BY Zenon DEF AcTypeOK, AcInTurn
    <3> HIDE <1>5 DEF AcPropagated, AcGoto
    <3> QED BY <3>1, <3>2, AcJournalKept, AcLiveKept, Zenon
  <2>4. AcInTurn'
    BY Zenon DEF AcTypeOK, AcInTurn
  <2> HIDE <1>5 DEF AcPropagated, AcGoto
  <2> QED BY <2>1, <2>2, <2>3, <2>4, Zenon DEF AcIInv
<1>6. CASE AcAbort(i)
  <2> USE <1>0, <1>6 DEF AcAbort, AcGoto, AcEnds, AcRemoveLocal
  <2>1. AcTypeOK'
    BY Zenon DEF AcTypeOK, AcPcs
  <2>2. AcJournal(i)' /\ AcLive(i)'
    BY DEF AcTypeOK, AcJournal, AcLive, AcInTurn
  <2>3. ASSUME NEW j \in AcIds \ {i} PROVE AcJournal(j)' /\ AcLive(j)'
    <3>1. /\ acPc'[j] = acPc[j] /\ acIntent'[j] = acIntent[j]
          /\ acPost'[j] = acPost[j] /\ acClean'[j] = acClean[j]
          /\ j \in acRecords' <=> j \in acRecords
      BY Zenon DEF AcTypeOK
    <3>2. /\ acKind' = acKind
          /\ acLease' = j => acLease = j
          /\ acPc[j] = "ready" /\ acKind = "local" /\ acLocal = j => acLocal' = j
          /\ acPc[j] = "ready" /\ acLease = j /\ acShared = j => acShared' = j
      BY DEF AcTypeOK, AcInTurn
    <3> HIDE <1>6 DEF AcAbort, AcGoto, AcEnds, AcRemoveLocal
    <3> QED BY <3>1, <3>2, AcJournalKept, AcLiveKept, Zenon
  <2>4. AcInTurn'
    BY Zenon DEF AcTypeOK, AcInTurn
  <2> HIDE <1>6 DEF AcAbort, AcGoto, AcEnds, AcRemoveLocal
  <2> QED BY <2>1, <2>2, <2>3, <2>4, Zenon DEF AcIInv
<1>7. CASE AcProvider(i)
  <2> USE <1>0, <1>7 DEF AcProvider
  <2>1. AcTypeOK'
    BY Zenon DEF AcTypeOK, AcPcs
  <2>2. AcJournal(i)' /\ AcLive(i)'
    BY Zenon DEF AcTypeOK, AcJournal, AcLive, AcInTurn
  <2>3. ASSUME NEW j \in AcIds \ {i} PROVE AcJournal(j)' /\ AcLive(j)'
    <3>1. /\ acPc'[j] = acPc[j] /\ acIntent'[j] = acIntent[j]
          /\ acPost'[j] = acPost[j] /\ acClean'[j] = acClean[j]
          /\ j \in acRecords' <=> j \in acRecords
      BY Zenon DEF AcTypeOK
    <3>2. /\ acKind' = acKind
          /\ acLease' = j => acLease = j
          /\ acPc[j] = "ready" /\ acKind = "local" /\ acLocal = j => acLocal' = j
          /\ acPc[j] = "ready" /\ acLease = j /\ acShared = j => acShared' = j
      BY Zenon DEF AcTypeOK, AcInTurn
    <3> HIDE <1>7 DEF AcProvider
    <3> QED BY <3>1, <3>2, AcJournalKept, AcLiveKept, Zenon
  <2>4. AcInTurn'
    BY Zenon DEF AcTypeOK, AcInTurn
  <2> HIDE <1>7 DEF AcProvider
  <2> QED BY <2>1, <2>2, <2>3, <2>4, Zenon DEF AcIInv
<1>8. CASE AcDelete(i)
  <2> USE <1>0, <1>8 DEF AcDelete, AcCleanGoto, AcMayClean, AcDue, AcOwnerActive
  <2>1. AcTypeOK'
    BY Zenon DEF AcTypeOK, AcPcs
  <2>2. AcJournal(i)' /\ AcLive(i)'
    BY Zenon DEF AcTypeOK, AcJournal, AcLive, AcInTurn
  <2>3. ASSUME NEW j \in AcIds \ {i} PROVE AcJournal(j)' /\ AcLive(j)'
    <3>1. /\ acPc'[j] = acPc[j] /\ acIntent'[j] = acIntent[j]
          /\ acPost'[j] = acPost[j] /\ acClean'[j] = acClean[j]
          /\ j \in acRecords' <=> j \in acRecords
      BY Zenon DEF AcTypeOK
    <3>2. /\ acKind' = acKind
          /\ acLease' = j => acLease = j
          /\ acPc[j] = "ready" /\ acKind = "local" /\ acLocal = j => acLocal' = j
          /\ acPc[j] = "ready" /\ acLease = j /\ acShared = j => acShared' = j
      BY Zenon DEF AcTypeOK, AcInTurn
    <3> HIDE <1>8 DEF AcDelete, AcCleanGoto, AcMayClean, AcDue, AcOwnerActive
    <3> QED BY <3>1, <3>2, AcJournalKept, AcLiveKept, Zenon
  <2>4. AcInTurn'
    BY Zenon DEF AcTypeOK, AcInTurn
  <2> HIDE <1>8 DEF AcDelete, AcCleanGoto, AcMayClean, AcDue, AcOwnerActive
  <2> QED BY <2>1, <2>2, <2>3, <2>4, Zenon DEF AcIInv
<1>9. CASE AcCleanStops(i)
  <2> USE <1>0, <1>9 DEF AcCleanStops, AcCleanGoto
  <2>1. AcTypeOK'
    BY Zenon DEF AcTypeOK, AcPcs
  <2>2. AcJournal(i)' /\ AcLive(i)'
    BY Zenon DEF AcTypeOK, AcJournal, AcLive, AcInTurn
  <2>3. ASSUME NEW j \in AcIds \ {i} PROVE AcJournal(j)' /\ AcLive(j)'
    <3>1. /\ acPc'[j] = acPc[j] /\ acIntent'[j] = acIntent[j]
          /\ acPost'[j] = acPost[j] /\ acClean'[j] = acClean[j]
          /\ j \in acRecords' <=> j \in acRecords
      BY Zenon DEF AcTypeOK
    <3>2. /\ acKind' = acKind
          /\ acLease' = j => acLease = j
          /\ acPc[j] = "ready" /\ acKind = "local" /\ acLocal = j => acLocal' = j
          /\ acPc[j] = "ready" /\ acLease = j /\ acShared = j => acShared' = j
      BY Zenon DEF AcTypeOK, AcInTurn
    <3> HIDE <1>9 DEF AcCleanStops, AcCleanGoto
    <3> QED BY <3>1, <3>2, AcJournalKept, AcLiveKept, Zenon
  <2>4. AcInTurn'
    BY Zenon DEF AcTypeOK, AcInTurn
  <2> HIDE <1>9 DEF AcCleanStops, AcCleanGoto
  <2> QED BY <2>1, <2>2, <2>3, <2>4, Zenon DEF AcIInv
<1>10. CASE AcLook(i)
  <2> USE <1>0, <1>10 DEF AcLook, AcCleanGoto
  <2>1. AcTypeOK'
    BY Zenon DEF AcTypeOK, AcPcs
  <2>2. AcJournal(i)' /\ AcLive(i)'
    BY Zenon DEF AcTypeOK, AcJournal, AcLive, AcInTurn
  <2>3. ASSUME NEW j \in AcIds \ {i} PROVE AcJournal(j)' /\ AcLive(j)'
    <3>1. /\ acPc'[j] = acPc[j] /\ acIntent'[j] = acIntent[j]
          /\ acPost'[j] = acPost[j] /\ acClean'[j] = acClean[j]
          /\ j \in acRecords' <=> j \in acRecords
      BY Zenon DEF AcTypeOK
    <3>2. /\ acKind' = acKind
          /\ acLease' = j => acLease = j
          /\ acPc[j] = "ready" /\ acKind = "local" /\ acLocal = j => acLocal' = j
          /\ acPc[j] = "ready" /\ acLease = j /\ acShared = j => acShared' = j
      BY Zenon DEF AcTypeOK, AcInTurn
    <3> HIDE <1>10 DEF AcLook, AcCleanGoto
    <3> QED BY <3>1, <3>2, AcJournalKept, AcLiveKept, Zenon
  <2>4. AcInTurn'
    BY Zenon DEF AcTypeOK, AcInTurn
  <2> HIDE <1>10 DEF AcLook, AcCleanGoto
  <2> QED BY <2>1, <2>2, <2>3, <2>4, Zenon DEF AcIInv
<1> QED BY <1>1, <1>2, <1>3, <1>4, <1>5, <1>6, <1>7, <1>8, <1>9, <1>10,
           Zenon

\* The steps that change the journal row of their attempt.
LEMMA AcJournalSteps ==
    ASSUME AcIInv, NEW i \in AcIds,
           \/ AcPublishDns(i)
           \/ AcPublished(i)
           \/ AcRejected(i)
           \/ AcFinishDns(i)
           \/ AcAuthorize(i)
           \/ AcObserve(i)
           \/ AcComplete(i)
    PROVE  AcIInv'
<1>0. /\ AcTypeOK /\ AcInTurn
      /\ \A j \in AcIds : AcJournal(j) /\ AcLive(j)
      /\ \A j \in AcIds : j \in Nat /\ j > 0
      /\ acIntent[i] \in AcRow
    BY AcAssumption DEF AcIInv, AcIds, AcTypeOK
<1>1. CASE AcPublishDns(i)
  <2> DEFINE row == [AcNoIntent EXCEPT !.there = TRUE]
  <2>0. /\ row \in AcRow
        /\ row.there
        /\ ~row.observed
        /\ ~row.rejected
        /\ ~row.requested
    BY <1>0, AcRowUpdates, AcNoRow, Zenon
  <2> HIDE DEF row
  <2>5. row = [AcNoIntent EXCEPT !.there = TRUE]
    BY Zenon DEF row
  <2>6. \/ /\ acIntent' = [acIntent EXCEPT ![i] = row]
           /\ acPost' = [acPost EXCEPT ![i] = "flying"]
           /\ acPc' = [acPc EXCEPT ![i] = "posting"] /\ acLease' = acLease
        \/ /\ acPc' = [acPc EXCEPT ![i] = "ended"]
           /\ acLease' = (IF acLease = i THEN 0 ELSE acLease)
           /\ acIntent' = acIntent /\ acPost' = acPost
    BY <1>1, <2>5, Zenon DEF AcPublishDns, AcGoto, AcEnds, AcSave, AcCanIssue, AcOwnerActive
  <2>7. /\ acKind = "dns" /\ acPc[i] = "ordering"
        /\ acKind' = acKind /\ acLocal' = acLocal /\ acShared' = acShared
        /\ acRecords' = acRecords /\ acClean' = acClean
    BY <1>1, Zenon DEF AcPublishDns, AcGoto, AcEnds, AcSave, AcCanIssue, AcOwnerActive
  <2>1. AcTypeOK'
    BY <1>0, <2>0, <2>6, <2>7 DEF AcTypeOK, AcPcs
  <2>2. AcJournal(i)' /\ AcLive(i)'
    BY <1>0, <2>0, <2>6, <2>7, AcNoRow DEF AcTypeOK, AcJournal, AcLive
  <2> USE <1>0, <1>1 DEF AcPublishDns, AcGoto, AcEnds, AcSave, AcCanIssue, AcOwnerActive
  <2>3. ASSUME NEW j \in AcIds \ {i} PROVE AcJournal(j)' /\ AcLive(j)'
    <3>1. /\ acPc'[j] = acPc[j] /\ acIntent'[j] = acIntent[j]
          /\ acPost'[j] = acPost[j] /\ acClean'[j] = acClean[j]
          /\ j \in acRecords' <=> j \in acRecords
      BY Zenon DEF AcTypeOK
    <3>2. /\ acKind' = acKind
          /\ acLease' = j => acLease = j
          /\ acPc[j] = "ready" /\ acKind = "local" /\ acLocal = j => acLocal' = j
          /\ acPc[j] = "ready" /\ acLease = j /\ acShared = j => acShared' = j
      BY DEF AcTypeOK, AcInTurn
    <3> HIDE <1>1 DEF AcPublishDns, AcGoto, AcEnds, AcSave, AcCanIssue, AcOwnerActive
    <3> QED BY <3>1, <3>2, AcJournalKept, AcLiveKept, Zenon
  <2>4. AcInTurn'
    BY Zenon DEF AcTypeOK, AcInTurn
  <2> HIDE <1>1 DEF AcPublishDns, AcGoto, AcEnds, AcSave, AcCanIssue, AcOwnerActive
  <2> QED BY <2>1, <2>2, <2>3, <2>4, Zenon DEF AcIInv
<1>2. CASE AcPublished(i)
  <2> DEFINE row == [acIntent[i] EXCEPT !.published = TRUE, !.observed = TRUE]
  <2>0. /\ row \in AcRow
        /\ (row.there <=> acIntent[i].there)
        /\ (row.requested <=> acIntent[i].requested)
    BY <1>0, AcRowUpdates, ZenonT(40)
  <2> HIDE DEF row
  <2>5. row = [acIntent[i] EXCEPT !.published = TRUE, !.observed = TRUE]
    BY DEF row
  <2>6. \/ /\ acIntent' = [acIntent EXCEPT ![i] = row] /\ ~acIntent[i].requested
           /\ acPc' = [acPc EXCEPT ![i] = "propagating"] /\ acLease' = acLease
        \/ /\ acPc' = [acPc EXCEPT ![i] = "ended"]
           /\ acLease' = (IF acLease = i THEN 0 ELSE acLease)
           /\ acIntent' = acIntent
    BY <1>2, <2>5, Zenon DEF AcPublished, AcGoto, AcEnds, AcSave, AcCanIssue, AcOwnerActive
  <2>7. /\ acPc[i] = "posting" /\ acPost[i] = "landed"
        /\ acKind' = acKind /\ acLocal' = acLocal /\ acShared' = acShared
        /\ acPost' = acPost /\ acRecords' = acRecords /\ acClean' = acClean
    BY <1>2, Zenon DEF AcPublished, AcGoto, AcEnds, AcSave, AcCanIssue, AcOwnerActive
  <2>1. AcTypeOK'
    BY <1>0, <2>0, <2>6, <2>7 DEF AcTypeOK, AcPcs
  <2>2. AcJournal(i)' /\ AcLive(i)'
    BY <1>0, <2>0, <2>6, <2>7, AcNoRow DEF AcTypeOK, AcJournal, AcLive
  <2> USE <1>0, <1>2 DEF AcPublished, AcGoto, AcEnds, AcSave, AcCanIssue, AcOwnerActive
  <2>3. ASSUME NEW j \in AcIds \ {i} PROVE AcJournal(j)' /\ AcLive(j)'
    <3>1. /\ acPc'[j] = acPc[j] /\ acIntent'[j] = acIntent[j]
          /\ acPost'[j] = acPost[j] /\ acClean'[j] = acClean[j]
          /\ j \in acRecords' <=> j \in acRecords
      BY Zenon DEF AcTypeOK
    <3>2. /\ acKind' = acKind
          /\ acLease' = j => acLease = j
          /\ acPc[j] = "ready" /\ acKind = "local" /\ acLocal = j => acLocal' = j
          /\ acPc[j] = "ready" /\ acLease = j /\ acShared = j => acShared' = j
      BY DEF AcTypeOK, AcInTurn
    <3> HIDE <1>2 DEF AcPublished, AcGoto, AcEnds, AcSave, AcCanIssue, AcOwnerActive
    <3> QED BY <3>1, <3>2, AcJournalKept, AcLiveKept, Zenon
  <2>4. AcInTurn'
    BY Zenon DEF AcTypeOK, AcInTurn
  <2> HIDE <1>2 DEF AcPublished, AcGoto, AcEnds, AcSave, AcCanIssue, AcOwnerActive
  <2> QED BY <2>1, <2>2, <2>3, <2>4, Zenon DEF AcIInv
<1>3. CASE AcRejected(i)
  <2> DEFINE row == [acIntent[i] EXCEPT !.rejected = TRUE, !.requested = TRUE]
  <2>0. /\ row \in AcRow
        /\ (row.there <=> acIntent[i].there)
    BY <1>0, AcRowUpdates, AcNoRow, Zenon
  <2> HIDE DEF row
  <2>5. row = [acIntent[i] EXCEPT !.rejected = TRUE, !.requested = TRUE]
    BY Zenon DEF row
  <2> USE <1>0, <1>3 DEF AcRejected, AcGoto, AcEnds, AcSave, AcCanIssue, AcOwnerActive
  <2>1. AcTypeOK'
    BY <2>0, <2>5, AcNoRow, Zenon DEF AcTypeOK, AcPcs
  <2>2. AcJournal(i)' /\ AcLive(i)'
    BY <2>0, <2>5, AcNoRow DEF AcTypeOK, AcJournal, AcLive
  <2>3. ASSUME NEW j \in AcIds \ {i} PROVE AcJournal(j)' /\ AcLive(j)'
    <3>1. /\ acPc'[j] = acPc[j] /\ acIntent'[j] = acIntent[j]
          /\ acPost'[j] = acPost[j] /\ acClean'[j] = acClean[j]
          /\ j \in acRecords' <=> j \in acRecords
      BY Zenon DEF AcTypeOK
    <3>2. /\ acKind' = acKind
          /\ acLease' = j => acLease = j
          /\ acPc[j] = "ready" /\ acKind = "local" /\ acLocal = j => acLocal' = j
          /\ acPc[j] = "ready" /\ acLease = j /\ acShared = j => acShared' = j
      BY DEF AcTypeOK, AcInTurn
    <3> HIDE <1>3 DEF AcRejected, AcGoto, AcEnds, AcSave, AcCanIssue, AcOwnerActive
    <3> QED BY <3>1, <3>2, AcJournalKept, AcLiveKept, Zenon
  <2>4. AcInTurn'
    BY Zenon DEF AcTypeOK, AcInTurn
  <2> HIDE <1>3 DEF AcRejected, AcGoto, AcEnds, AcSave, AcCanIssue, AcOwnerActive
  <2> QED BY <2>1, <2>2, <2>3, <2>4, Zenon DEF AcIInv
<1>4. CASE AcFinishDns(i)
  <2> DEFINE row == [acIntent[i] EXCEPT !.requested = TRUE]
  <2>0. /\ row \in AcRow /\ row.requested
        /\ (row.there <=> acIntent[i].there)
        /\ (row.observed <=> acIntent[i].observed)
        /\ (row.rejected <=> acIntent[i].rejected)
    BY <1>0, AcRowUpdates, ZenonT(40)
  <2> HIDE DEF row
  <2>5. row = [acIntent[i] EXCEPT !.requested = TRUE]
    BY Zenon DEF row
  <2>6. acIntent' = [acIntent EXCEPT ![i] = row] \/ acIntent' = acIntent
    BY <1>4, <2>5, Zenon DEF AcFinishDns, AcGoto, AcEnds, AcSave, AcCanIssue, AcOwnerActive
  <2>7. /\ acPc[i] \in {"ready", "propagating"}
        /\ acPc' = [acPc EXCEPT ![i] = "ended"]
        /\ acLease' = (IF acLease = i THEN 0 ELSE acLease)
        /\ acKind' = acKind /\ acLocal' = acLocal /\ acShared' = acShared
        /\ acPost' = acPost /\ acRecords' = acRecords /\ acClean' = acClean
    BY <1>4, Zenon DEF AcFinishDns, AcGoto, AcEnds, AcSave, AcCanIssue, AcOwnerActive
  <2>1. AcTypeOK'
    BY <1>0, <2>0, <2>6, <2>7, Zenon DEF AcTypeOK, AcPcs
  <2>2. AcJournal(i)' /\ AcLive(i)'
    BY <1>0, <2>0, <2>6, <2>7, AcNoRow DEF AcTypeOK, AcJournal, AcLive
  <2> USE <1>0, <1>4 DEF AcFinishDns, AcGoto, AcEnds, AcSave, AcCanIssue, AcOwnerActive
  <2>3. ASSUME NEW j \in AcIds \ {i} PROVE AcJournal(j)' /\ AcLive(j)'
    <3>1. /\ acPc'[j] = acPc[j] /\ acIntent'[j] = acIntent[j]
          /\ acPost'[j] = acPost[j] /\ acClean'[j] = acClean[j]
          /\ j \in acRecords' <=> j \in acRecords
      BY Zenon DEF AcTypeOK
    <3>2. /\ acKind' = acKind
          /\ acLease' = j => acLease = j
          /\ acPc[j] = "ready" /\ acKind = "local" /\ acLocal = j => acLocal' = j
          /\ acPc[j] = "ready" /\ acLease = j /\ acShared = j => acShared' = j
      BY DEF AcTypeOK, AcInTurn
    <3> HIDE <1>4 DEF AcFinishDns, AcGoto, AcEnds, AcSave, AcCanIssue, AcOwnerActive
    <3> QED BY <3>1, <3>2, AcJournalKept, AcLiveKept, Zenon
  <2>4. AcInTurn'
    BY Zenon DEF AcTypeOK, AcInTurn
  <2> HIDE <1>4 DEF AcFinishDns, AcGoto, AcEnds, AcSave, AcCanIssue, AcOwnerActive
  <2> QED BY <2>1, <2>2, <2>3, <2>4, Zenon DEF AcIInv
<1>5. CASE AcAuthorize(i)
  <2> DEFINE row == [acIntent[i] EXCEPT !.requested = TRUE]
  <2>0. /\ row \in AcRow /\ row.requested
        /\ (row.there <=> acIntent[i].there)
        /\ (row.observed <=> acIntent[i].observed)
        /\ (row.rejected <=> acIntent[i].rejected)
    BY <1>0, AcRowUpdates, ZenonT(40)
  <2> HIDE DEF row
  <2>5. row = [acIntent[i] EXCEPT !.requested = TRUE]
    BY Zenon DEF row
  <2> USE <1>0, <1>5 DEF AcAuthorize, AcSave, AcCleanGoto, AcMayClean, AcDue, AcOwnerActive
  <2>1. AcTypeOK'
    BY <2>0, <2>5, AcNoRow, Zenon DEF AcTypeOK, AcPcs
  <2>2. AcJournal(i)' /\ AcLive(i)'
    BY <2>0, <2>5, AcNoRow, Zenon DEF AcTypeOK, AcJournal, AcLive
  <2>3. ASSUME NEW j \in AcIds \ {i} PROVE AcJournal(j)' /\ AcLive(j)'
    <3>1. /\ acPc'[j] = acPc[j] /\ acIntent'[j] = acIntent[j]
          /\ acPost'[j] = acPost[j] /\ acClean'[j] = acClean[j]
          /\ j \in acRecords' <=> j \in acRecords
      BY Zenon DEF AcTypeOK
    <3>2. /\ acKind' = acKind
          /\ acLease' = j => acLease = j
          /\ acPc[j] = "ready" /\ acKind = "local" /\ acLocal = j => acLocal' = j
          /\ acPc[j] = "ready" /\ acLease = j /\ acShared = j => acShared' = j
      BY Zenon DEF AcTypeOK, AcInTurn
    <3> HIDE <1>5 DEF AcAuthorize, AcSave, AcCleanGoto, AcMayClean, AcDue, AcOwnerActive
    <3> QED BY <3>1, <3>2, AcJournalKept, AcLiveKept, Zenon
  <2>4. AcInTurn'
    BY Zenon DEF AcTypeOK, AcInTurn
  <2> HIDE <1>5 DEF AcAuthorize, AcSave, AcCleanGoto, AcMayClean, AcDue, AcOwnerActive
  <2> QED BY <2>1, <2>2, <2>3, <2>4, Zenon DEF AcIInv
<1>6. CASE AcObserve(i)
  <2> DEFINE row == [acIntent[i] EXCEPT !.observed = TRUE]
  <2>0. /\ row \in AcRow
        /\ (row.there <=> acIntent[i].there)
        /\ (row.requested <=> acIntent[i].requested)
    BY <1>0, AcRowUpdates, ZenonT(40)
  <2> HIDE DEF row
  <2>5. row = [acIntent[i] EXCEPT !.observed = TRUE]
    BY DEF row
  <2> USE <1>0, <1>6 DEF AcObserve, AcSave, AcCleanGoto, AcResolved
  <2>1. AcTypeOK'
    BY <2>0, <2>5, AcNoRow, ZenonT(40) DEF AcTypeOK, AcPcs
  <2>2. AcJournal(i)' /\ AcLive(i)'
    BY <2>0, <2>5, AcNoRow, ZenonT(40) DEF AcTypeOK, AcJournal, AcLive
  <2>3. ASSUME NEW j \in AcIds \ {i} PROVE AcJournal(j)' /\ AcLive(j)'
    <3>1. /\ acPc'[j] = acPc[j] /\ acIntent'[j] = acIntent[j]
          /\ acPost'[j] = acPost[j] /\ acClean'[j] = acClean[j]
          /\ j \in acRecords' <=> j \in acRecords
      BY DEF AcTypeOK
    <3>2. /\ acKind' = acKind
          /\ acLease' = j => acLease = j
          /\ acPc[j] = "ready" /\ acKind = "local" /\ acLocal = j => acLocal' = j
          /\ acPc[j] = "ready" /\ acLease = j /\ acShared = j => acShared' = j
      BY Zenon DEF AcTypeOK, AcInTurn
    <3> HIDE <1>6 DEF AcObserve, AcSave, AcCleanGoto, AcResolved
    <3> QED BY <3>1, <3>2, AcJournalKept, AcLiveKept, Zenon
  <2>4. AcInTurn'
    BY Zenon DEF AcTypeOK, AcInTurn
  <2> HIDE <1>6 DEF AcObserve, AcSave, AcCleanGoto, AcResolved
  <2> QED BY <2>1, <2>2, <2>3, <2>4, Zenon DEF AcIInv
<1>7. CASE AcComplete(i)
  <2> DEFINE row == AcNoIntent
  <2>0. /\ row \in AcRow
        /\ ~row.there
        /\ ~row.observed
        /\ ~row.rejected
        /\ ~row.requested
    BY <1>0, AcRowUpdates, AcNoRow, Zenon
  <2> HIDE DEF row
  <2>5. row = AcNoIntent
    BY Zenon DEF row
  <2> USE <1>0, <1>7 DEF AcComplete, AcSave, AcCleanGoto, AcResolved
  <2>1. AcTypeOK'
    BY <2>0, <2>5, AcNoRow, Zenon DEF AcTypeOK, AcPcs
  <2>2. AcJournal(i)' /\ AcLive(i)'
    BY <2>0, <2>5, AcNoRow, Zenon DEF AcTypeOK, AcJournal, AcLive
  <2>3. ASSUME NEW j \in AcIds \ {i} PROVE AcJournal(j)' /\ AcLive(j)'
    <3>1. /\ acPc'[j] = acPc[j] /\ acIntent'[j] = acIntent[j]
          /\ acPost'[j] = acPost[j] /\ acClean'[j] = acClean[j]
          /\ j \in acRecords' <=> j \in acRecords
      BY Zenon DEF AcTypeOK
    <3>2. /\ acKind' = acKind
          /\ acLease' = j => acLease = j
          /\ acPc[j] = "ready" /\ acKind = "local" /\ acLocal = j => acLocal' = j
          /\ acPc[j] = "ready" /\ acLease = j /\ acShared = j => acShared' = j
      BY Zenon DEF AcTypeOK, AcInTurn
    <3> HIDE <1>7 DEF AcComplete, AcSave, AcCleanGoto, AcResolved
    <3> QED BY <3>1, <3>2, AcJournalKept, AcLiveKept, Zenon
  <2>4. AcInTurn'
    BY Zenon DEF AcTypeOK, AcInTurn
  <2> HIDE <1>7 DEF AcComplete, AcSave, AcCleanGoto, AcResolved
  <2> QED BY <2>1, <2>2, <2>3, <2>4, Zenon DEF AcIInv
<1> QED BY <1>1, <1>2, <1>3, <1>4, <1>5, <1>6, <1>7, Zenon

\* the invariant holds before the first attempt
LEMMA AcStart == AcInit => AcIInv
<1> SUFFICES ASSUME AcInit PROVE AcIInv
    OBVIOUS
<1>1. AcTypeOK
    BY AcAssumption, AcNoRow, Zenon DEF AcInit, AcTypeOK, AcPcs
<1>2. ASSUME NEW i \in AcIds PROVE AcJournal(i) /\ AcLive(i)
    BY AcAssumption, AcNoRow DEF AcInit, AcJournal, AcLive, AcIds
<1>3. AcInTurn
    BY Zenon DEF AcInit, AcInTurn
<1> QED BY <1>1, <1>2, <1>3, Zenon DEF AcIInv

\* every step of an attempt, the journal and the provider keeps the invariant
LEMMA AcStep == AcIInv /\ [AcNext]_acVars => AcIInv'
<1> SUFFICES ASSUME AcIInv, [AcNext]_acVars PROVE AcIInv'
    OBVIOUS
<1>1. CASE AcLeaseLost
  <2>1. AcTypeOK' /\ AcInTurn'
    BY <1>1, Zenon DEF AcIInv, AcLeaseLost, AcTypeOK, AcInTurn
  <2>2. ASSUME NEW j \in AcIds PROVE AcJournal(j)' /\ AcLive(j)'
    <3>1. j # 0
      BY AcAssumption DEF AcIds
    <3> QED BY <1>1, <3>1, AcJournalKept, AcLiveKept, Zenon DEF AcIInv, AcLeaseLost
  <2> QED BY <2>1, <2>2, Zenon DEF AcIInv
<1> QED BY <1>1, AcStuttering, AcPlainSteps, AcJournalSteps, Zenon
        DEF AcNext, AcIssue, AcCleanup

\* Challenges are kept as long as they are needed and no record is forgotten,
\* for any number of attempts and every way of publishing: the proof of a
\* live attempt stays visible, and a TXT record at the provider always has the
\* journal row from which the monitor deletes it (dns01_store.rs).
THEOREM ChallengesTracked == AcSpec => []AcChallengesTracked
<1>1. AcIInv => AcChallengesTracked
  <2> SUFFICES ASSUME AcIInv PROVE AcChallengesTracked
    OBVIOUS
  <2>1. ASSUME NEW i \in AcIds, acPc[i] = "ready", acLease = i PROVE AcVisible(i)
    <3>1. AcTypeOK /\ AcLive(i) /\ i # 0
      BY AcAssumption DEF AcIInv, AcIds
    <3> QED BY <2>1, <3>1, Zenon DEF AcTypeOK, AcLive, AcVisible, AcLookupLocal, AcLookupShared,
                              AcOwnerActive
  <2>2. AcNoOrphan
    BY Zenon DEF AcIInv, AcTypeOK, AcJournal, AcNoOrphan
  <2> QED BY <2>1, <2>2, Zenon DEF AcChallengesTracked, AcChallengeStays
<1> QED BY <1>1, AcStart, AcStep, PTL DEF AcSpec

-----------------------------------------------------------------------------
(* The move to PostgreSQL and back *)

\* what the migration makes of a source
SmCarriedRows(rows) ==
    {r \in rows : r.table \in SmCarried \ (SmPolicies \cup SmCertificates)}
    \cup SmPolicyRows(rows) \cup SmMaterialRows(rows)
SmImage(src) ==
    [rows |-> SmCarriedRows(src[1]), pending |-> src[2] \ src[3], applied |-> src[3],
     usage |-> src[4], terms |-> 0]

\* a database has every row and event that was accepted, and no other event,
\* and counts every applied event once
SmHolds(rows, applied, pending, usage) ==
    /\ smAccepted.rows \subseteq rows
    /\ applied \cup pending = smAccepted.events
    /\ applied \cap pending = {}
    /\ IsFiniteSet(applied) /\ usage = Cardinality(applied)
SmSourceHolds == SmHolds(smSrc, smApplied, smSpool \ smApplied, smUsage)
SmTargetHolds == SmHolds(smTarget.rows, smTarget.applied, smTarget.pending, smTarget.usage)

SmShapes ==
    /\ smTarget = [rows |-> smTarget.rows, pending |-> smTarget.pending,
                   applied |-> smTarget.applied, usage |-> smTarget.usage,
                   terms |-> smTarget.terms]
    /\ smAccepted = [events |-> smAccepted.events, rows |-> smAccepted.rows]
    /\ \A r \in smAccepted.rows : r.table = "clients"
    /\ smServer \in {"off", "sqlite", "postgres"} /\ smHome \in {"sqlite", "postgres"}

\* a plan describes the source as it is, since no SQLite server runs beside
\* it; a receipt describes the target as the import left it
SmRecords ==
    /\ smPlan # SmNone => /\ smServer # "sqlite"
                          /\ smPlan.src = SmFingerprint
                          /\ smPlan.rows = SmPlanRows
                          /\ smPlan.traffic = SmTraffic
    /\ smReceipt # SmNone => smReceipt.manifest = SmImage(smReceipt.src)

\* the backend the deployment is configured for holds everything, and so does
\* the other one while a command's result allows the change
SmHomeHolds ==
    /\ smServer # "off" => smHome = smServer /\ smSaid \notin {"imported", "reversible"}
    /\ smHome = "sqlite" => SmSourceHolds
    /\ smHome = "postgres" => SmTargetHolds /\ smReceipt # SmNone
    /\ smHome = "sqlite" /\ smSaid = "imported" => SmTargetHolds /\ smReceipt # SmNone
    /\ smHome = "postgres" /\ smSaid = "reversible" => SmSourceHolds

\* The inductive invariant of the migration.
SmIInv == SmShapes /\ SmRecords /\ SmHomeHolds

\* The rows of clients are carried over as they are.
LEMMA SmClientsCarried ==
    ASSUME NEW rows, NEW r, r.table = "clients"
    PROVE  r \in SmCarriedRows(rows) <=> r \in rows
<1>1. r \notin SmPolicyRows(rows) /\ r \notin SmMaterialRows(rows)
    BY DEF SmPolicyRows, SmMaterialRows, SmPolicies, SmCertificates, SmRows
<1>2. r.table \in SmCarried \ (SmPolicies \cup SmCertificates)
    BY Zenon DEF SmCarried, SmIdentities, SmPolicies, SmCertificates
<1> QED BY <1>1, <1>2, Zenon DEF SmCarriedRows

\* Source and target hold the same when the target is the source's image.
LEMMA SmImageHolds ==
    ASSUME SmShapes, NEW t, t = SmImage(SmFingerprint)
    PROVE  SmSourceHolds <=> SmHolds(t.rows, t.applied, t.pending, t.usage)
<1>1. /\ t.rows = SmCarriedRows(smSrc) /\ t.pending = smSpool \ smApplied
      /\ t.applied = smApplied /\ t.usage = smUsage
    BY Zenon DEF SmImage, SmFingerprint
<1>2. smAccepted.rows \subseteq SmCarriedRows(smSrc) <=> smAccepted.rows \subseteq smSrc
    BY SmClientsCarried, Zenon DEF SmShapes
<1> QED BY <1>1, <1>2, Zenon DEF SmSourceHolds, SmHolds

\* A plan, its target and its receipt are the image of the source.
LEMMA SmPlanned ==
    ASSUME SmRecords, smPlan # SmNone
    PROVE  /\ [rows |-> smPlan.rows, pending |-> smPlan.traffic.pending,
               applied |-> smPlan.traffic.applied, usage |-> smPlan.traffic.usage,
               terms |-> 0] = SmImage(SmFingerprint)
           /\ SmReceiptState = "same" => smTarget = SmImage(SmFingerprint)
<1>1. /\ smPlan.traffic.pending = smSpool \ smApplied
      /\ smPlan.traffic.applied = smApplied /\ smPlan.traffic.usage = smUsage
      /\ smPlan.rows = SmCarriedRows(smSrc)
    BY DEF SmRecords, SmTraffic, SmPlanRows, SmCarriedRows
<1>2. SmImage(SmFingerprint) =
         [rows |-> SmCarriedRows(smSrc), pending |-> smSpool \ smApplied,
          applied |-> smApplied, usage |-> smUsage, terms |-> 0]
    BY Zenon DEF SmImage, SmFingerprint
<1>3. SmReceiptState = "same" => smTarget = SmImage(SmFingerprint)
    BY Zenon DEF SmRecords, SmReceiptState, SmManifest
<1> QED BY <1>1, <1>2, <1>3, Zenon

\* a receipt is told apart from none
LEMMA SmReceiptIsOne == \A a, b : [src |-> a, manifest |-> b] # SmNone
<1> SUFFICES ASSUME NEW a, NEW b, [src |-> a, manifest |-> b] = SmNone PROVE FALSE
    OBVIOUS
<1>1. DOMAIN [src |-> a, manifest |-> b] = {"src", "manifest"}
    OBVIOUS
<1>2. DOMAIN SmNone = {"none"}
    BY Zenon DEF SmNone
<1> QED BY <1>1, <1>2, Zenon

\* A step that leaves both databases, the receipt and the servers as they are
\* keeps what they hold, unless it allows a change of the backend.
LEMMA SmHoldsKept ==
    ASSUME SmIInv, UNCHANGED <<smSource, smTarget, smReceipt, smHome, smAccepted>>,
           smServer' \in {"off", smServer}, smSaid' \notin {"imported", "reversible"}
    PROVE  SmShapes' /\ SmHomeHolds'
    BY Zenon DEF SmIInv, SmShapes, SmHomeHolds, SmSourceHolds, SmTargetHolds, SmHolds, smSource

\* a plan describes the source as it is
LEMMA SmPrepareStep ==
    ASSUME SmIInv, NEW rollback \in BOOLEAN, SmPrepare(rollback)
    PROVE  SmIInv'
<1>1. smSaid' \notin {"imported", "reversible"}
  <2>1. SmRefused \in {"pending_external_operations", "invalid_source",
                       "unsupported_source_data", "none"}
    BY Zenon DEF SmRefused
  <2> QED BY <2>1, Zenon DEF SmPrepare
<1>2. SmShapes' /\ SmHomeHolds'
    BY <1>1, SmHoldsKept, Zenon DEF SmPrepare
<1>3. UNCHANGED <<smSource, smTarget, smReceipt, smServer>>
    BY Zenon DEF SmPrepare
<1>4. SmFingerprint' = SmFingerprint /\ SmPlanRows' = SmPlanRows /\ SmTraffic' = SmTraffic
    BY <1>3, Zenon DEF smSource, SmFingerprint, SmPlanRows, SmTraffic
<1>5. CASE smPlan' = smPlan
    BY <1>2, <1>3, <1>4, <1>5, Zenon DEF SmIInv, SmRecords
<1>6. CASE smPlan' = [rows |-> SmPlanRows, traffic |-> SmTraffic, src |-> SmFingerprint,
                      rollback |-> rollback]
  <2>1. /\ smPlan'.rows = SmPlanRows /\ smPlan'.traffic = SmTraffic
        /\ smPlan'.src = SmFingerprint
    BY <1>6, Zenon
  <2>2. smServer' # "sqlite"
    BY Zenon DEF SmPrepare
  <2> QED BY <1>2, <1>3, <1>4, <2>1, <2>2, Zenon DEF SmIInv, SmRecords
<1> QED BY <1>5, <1>6, Zenon DEF SmPrepare

\* A command ends without having changed anything, and allows no change.
LEMMA SmCommandEnds ==
    ASSUME SmIInv, smPlan' = SmNone, smSaid' \notin {"imported", "reversible"},
           UNCHANGED <<smSource, smTarget, smReceipt, smServer, smHome, smAccepted>>
    PROVE  SmIInv'
<1>1. SmShapes' /\ SmHomeHolds'
    BY SmHoldsKept, Zenon
<1> QED BY <1>1, Zenon DEF SmIInv, SmRecords

\* an import leaves the target as its receipt says
LEMMA SmImportStep == SmIInv /\ SmImport => SmIInv'
<1> SUFFICES ASSUME SmIInv, SmImport PROVE SmIInv'
    OBVIOUS
<1>1. /\ smPlan' = SmNone /\ smPlan # SmNone
      /\ UNCHANGED <<smSource, smServer, smHome, smAccepted>>
    BY Zenon DEF SmImport, SmDone
<1>2. CASE smSaid' # "imported"
    BY <1>1, <1>2, SmCommandEnds, Zenon DEF SmImport, SmDone
<1>3. CASE smSaid' = "imported"
  <2>1. smServer = "off"
    BY <1>3, Zenon DEF SmImport, SmDone, SmIInv, SmShapes, SmRecords
  <2>2. smTarget' = SmImage(SmFingerprint)
    BY <1>1, <1>3, SmPlanned DEF SmImport, SmDone, SmIInv
  <2>3. SmFingerprint' = SmFingerprint
    BY <1>1, Zenon DEF smSource, SmFingerprint
  <2>4. smReceipt' # SmNone
    BY <1>3, SmReceiptIsOne, Zenon DEF SmImport, SmDone, SmReceiptState
  <2>5. \/ smReceipt' = smReceipt /\ smTarget' = smTarget
        \/ /\ smReceipt' = [src |-> smPlan.src, manifest |-> smTarget']
           /\ smReceipt = SmNone
    BY <1>3, Zenon DEF SmImport, SmDone, SmManifest, SmReceiptState
  <2>6. smReceipt'.manifest = SmImage(smReceipt'.src)
    BY <1>1, <2>2, <2>4, <2>5 DEF SmIInv, SmRecords
  <2>7. SmShapes'
    BY <1>1, <2>2, Zenon DEF SmIInv, SmShapes, SmImage
  <2>8. SmSourceHolds' <=> SmSourceHolds
    BY <1>1, Zenon DEF smSource, SmSourceHolds, SmHolds
  <2>9. SmTargetHolds' <=> SmSourceHolds
    <3>1. SmSourceHolds <=> SmHolds(smTarget'.rows, smTarget'.applied, smTarget'.pending,
                                    smTarget'.usage)
      BY <2>2, SmImageHolds, Zenon DEF SmIInv
    <3> QED BY <1>1, <3>1, Zenon DEF SmTargetHolds, SmHolds
  <2>10. smHome = "postgres" => SmTargetHolds'
    <3>1. smHome = "postgres" => SmTargetHolds /\ smReceipt # SmNone
      BY Zenon DEF SmIInv, SmHomeHolds
    <3>2. CASE smReceipt # SmNone
      <4>1. smTarget' = smTarget
        BY <2>5, <3>2, Zenon
      <4> QED BY <1>1, <3>1, <4>1, Zenon DEF SmTargetHolds, SmHolds
    <3> QED BY <3>1, <3>2, Zenon
  <2>11. SmHomeHolds'
    BY <1>1, <1>3, <2>1, <2>4, <2>8, <2>9, <2>10, Zenon DEF SmIInv, SmHomeHolds
  <2> QED BY <1>1, <2>6, <2>7, <2>11, Zenon DEF SmIInv, SmRecords
<1> QED BY <1>2, <1>3, Zenon

\* a verified way back found everything in the old backend
LEMMA SmRollbackStep == SmIInv /\ SmVerifyRollback => SmIInv'
<1> SUFFICES ASSUME SmIInv, SmVerifyRollback PROVE SmIInv'
    OBVIOUS
<1>1. /\ smPlan' = SmNone /\ smPlan # SmNone
      /\ UNCHANGED <<smSource, smTarget, smReceipt, smServer, smHome, smAccepted>>
    BY Zenon DEF SmVerifyRollback, SmDone
<1>2. CASE smSaid' # "reversible"
    BY <1>1, <1>2, SmCommandEnds, Zenon DEF SmVerifyRollback, SmDone
<1>3. CASE smSaid' = "reversible"
  <2>1. smServer = "off"
    BY <1>3, Zenon DEF SmVerifyRollback, SmDone, SmIInv, SmShapes, SmRecords
  <2>2. smTarget = SmImage(SmFingerprint)
    BY <1>1, <1>3, SmPlanned, Zenon DEF SmVerifyRollback, SmDone, SmIInv
  <2>3. SmSourceHolds <=> SmTargetHolds
    BY <2>2, SmImageHolds, Zenon DEF SmIInv, SmTargetHolds
  <2>4. (SmSourceHolds' <=> SmSourceHolds) /\ (SmTargetHolds' <=> SmTargetHolds)
    BY <1>1, Zenon DEF smSource, SmSourceHolds, SmTargetHolds, SmHolds
  <2>5. SmHomeHolds'
    BY <1>1, <1>3, <2>1, <2>3, <2>4, Zenon DEF SmIInv, SmHomeHolds
  <2> QED BY <1>1, <2>5, Zenon DEF SmIInv, SmRecords, SmShapes
<1> QED BY <1>2, <1>3, Zenon

\* The steps of the deployment that change neither the source nor what the
\* target holds.
LEMMA SmDeployStep == SmIInv /\ (SmConfigure \/ SmStart \/ SmStopServer) => SmIInv'
<1> SUFFICES ASSUME SmIInv, SmConfigure \/ SmStart \/ SmStopServer PROVE SmIInv'
    OBVIOUS
<1>1. UNCHANGED <<smSource, smReceipt, smPlan, smAccepted>>
    BY Zenon DEF SmConfigure, SmStart, SmStopServer
<1>2. /\ smTarget'.rows = smTarget.rows /\ smTarget'.pending = smTarget.pending
      /\ smTarget'.applied = smTarget.applied /\ smTarget'.usage = smTarget.usage
    BY Zenon DEF SmConfigure, SmStart, SmStopServer, SmIInv, SmShapes
<1>3. (SmSourceHolds' <=> SmSourceHolds) /\ (SmTargetHolds' <=> SmTargetHolds)
    BY <1>1, <1>2, Zenon DEF smSource, SmSourceHolds, SmTargetHolds, SmHolds
<1>4. SmShapes'
    BY <1>1, <1>2, Zenon DEF SmConfigure, SmStart, SmStopServer, SmIInv, SmShapes
<1>5. SmRecords'
  <2>1. SmFingerprint' = SmFingerprint /\ SmPlanRows' = SmPlanRows /\ SmTraffic' = SmTraffic
    BY <1>1, Zenon DEF smSource, SmFingerprint, SmPlanRows, SmTraffic
  <2>2. smPlan # SmNone => smServer' # "sqlite"
    BY Zenon DEF SmConfigure, SmStart, SmStopServer, SmIInv, SmRecords
  <2> QED BY <1>1, <2>1, <2>2, Zenon DEF SmIInv, SmRecords
<1>6. SmHomeHolds'
    BY <1>1, <1>3, Zenon DEF SmConfigure, SmStart, SmStopServer, SmIInv, SmShapes, SmHomeHolds
<1> QED BY <1>4, <1>5, <1>6, Zenon DEF SmIInv

\* A running server changes the backend it runs on, which is the home.
LEMMA SmServerStep ==
    ASSUME SmIInv, SmShapes', smServer # "off",
           UNCHANGED <<smReceipt, smPlan, smServer, smHome, smSaid>>,
           smServer = "sqlite" => SmSourceHolds',
           smServer = "postgres" => SmTargetHolds' /\ UNCHANGED smSource
    PROVE  SmIInv'
<1>1. smPlan # SmNone => UNCHANGED smSource
    BY Zenon DEF SmIInv, SmShapes, SmRecords
<1>2. UNCHANGED smSource => /\ SmFingerprint' = SmFingerprint
                            /\ SmPlanRows' = SmPlanRows /\ SmTraffic' = SmTraffic
    BY Zenon DEF smSource, SmFingerprint, SmPlanRows, SmTraffic
<1>3. SmRecords'
    BY <1>1, <1>2, Zenon DEF SmIInv, SmRecords
<1>4. SmHomeHolds'
    BY Zenon DEF SmIInv, SmShapes, SmHomeHolds
<1> QED BY <1>3, <1>4, Zenon DEF SmIInv

\* an accepted row goes to the configured backend
LEMMA SmAcceptStep == SmIInv /\ SmAccept => SmIInv'
<1> SUFFICES ASSUME SmIInv, SmAccept PROVE SmIInv'
    OBVIOUS
<1>0. /\ smServer # "off" /\ smServer \in {"sqlite", "postgres"}
      /\ UNCHANGED <<smReceipt, smPlan, smServer, smHome, smSaid>>
      /\ smServer = "sqlite" => SmSourceHolds
      /\ smServer = "postgres" => SmTargetHolds
    BY Zenon DEF SmAccept, SmIInv, SmShapes, SmHomeHolds
<1>1. ASSUME NEW e, e \notin smAccepted.events,
             smAccepted' = [smAccepted EXCEPT !.events = @ \cup {e}],
             IF smServer = "sqlite"
             THEN /\ smSpool' = smSpool \cup {e}
                  /\ UNCHANGED <<smSrc, smApplied, smUsage, smTarget>>
             ELSE /\ smTarget' = [smTarget EXCEPT !.pending = @ \cup {e}]
                  /\ UNCHANGED smSource
      PROVE  SmIInv'
  <2>1. smAccepted'.events = smAccepted.events \cup {e} /\ smAccepted'.rows = smAccepted.rows
    BY <1>1, Zenon DEF SmIInv, SmShapes
  <2>2. SmShapes'
    BY <1>0, <1>1, <2>1, Zenon DEF SmIInv, SmShapes
  <2>3. smServer = "sqlite" => SmSourceHolds'
    <3> SUFFICES ASSUME smServer = "sqlite" PROVE SmSourceHolds'
      OBVIOUS
    <3> QED BY <1>0, <1>1, <2>1, Zenon DEF SmSourceHolds, SmHolds
  <2>4. smServer = "postgres" => SmTargetHolds' /\ UNCHANGED smSource
    <3> SUFFICES ASSUME smServer = "postgres" PROVE SmTargetHolds' /\ UNCHANGED smSource
      OBVIOUS
    <3>1. /\ smTarget'.rows = smTarget.rows /\ smTarget'.pending = smTarget.pending \cup {e}
          /\ smTarget'.applied = smTarget.applied /\ smTarget'.usage = smTarget.usage
      BY <1>1, Zenon DEF SmIInv, SmShapes
    <3> QED BY <1>0, <1>1, <2>1, <3>1, Zenon DEF SmTargetHolds, SmHolds
  <2> QED BY <1>0, <2>2, <2>3, <2>4, SmServerStep, Zenon
<1>2. ASSUME NEW row, row.table = "clients",
             smAccepted' = [smAccepted EXCEPT !.rows = @ \cup {row}],
             IF smServer = "sqlite"
             THEN /\ smSrc' = smSrc \cup {row}
                  /\ UNCHANGED <<smSpool, smApplied, smUsage, smTarget>>
             ELSE /\ smTarget' = [smTarget EXCEPT !.rows = @ \cup {row}]
                  /\ UNCHANGED smSource
      PROVE  SmIInv'
  <2>1. smAccepted'.rows = smAccepted.rows \cup {row} /\ smAccepted'.events = smAccepted.events
    BY <1>2, Zenon DEF SmIInv, SmShapes
  <2>2. SmShapes'
    BY <1>0, <1>2, <2>1, Zenon DEF SmIInv, SmShapes
  <2>3. smServer = "sqlite" => SmSourceHolds'
    BY <1>0, <1>2, <2>1, Zenon DEF SmSourceHolds, SmHolds
  <2>4. smServer = "postgres" => SmTargetHolds' /\ UNCHANGED smSource
    <3> SUFFICES ASSUME smServer = "postgres" PROVE SmTargetHolds' /\ UNCHANGED smSource
      OBVIOUS
    <3>1. /\ smTarget'.rows = smTarget.rows \cup {row} /\ smTarget'.pending = smTarget.pending
          /\ smTarget'.applied = smTarget.applied /\ smTarget'.usage = smTarget.usage
      BY <1>2, Zenon DEF SmIInv, SmShapes
    <3> QED BY <1>0, <1>2, <2>1, <3>1, Zenon DEF SmTargetHolds, SmHolds
  <2> QED BY <1>0, <2>2, <2>3, <2>4, SmServerStep, Zenon
<1>3. CASE \E e \in SmEvents \ smAccepted.events :
             /\ smAccepted' = [smAccepted EXCEPT !.events = @ \cup {e}]
             /\ IF smServer = "sqlite"
                THEN /\ smSpool' = smSpool \cup {e}
                     /\ UNCHANGED <<smSrc, smApplied, smUsage, smTarget>>
                ELSE /\ smTarget' = [smTarget EXCEPT !.pending = @ \cup {e}]
                     /\ UNCHANGED smSource
    BY <1>1, <1>3, Zenon
<1>4. ASSUME NEW c \in SmClients, NEW row, row = [table |-> "clients", id |-> c, ref |-> ""],
             smAccepted' = [smAccepted EXCEPT !.rows = @ \cup {row}],
             IF smServer = "sqlite"
             THEN /\ smSrc' = smSrc \cup {row}
                  /\ UNCHANGED <<smSpool, smApplied, smUsage, smTarget>>
             ELSE /\ smTarget' = [smTarget EXCEPT !.rows = @ \cup {row}]
                  /\ UNCHANGED smSource
      PROVE  SmIInv'
  <2>1. row.table = "clients"
    BY <1>4, Zenon
  <2> QED BY <1>2, <1>4, <2>1, Zenon
<1> QED BY <1>3, <1>4, Zenon DEF SmAccept

\* an event is counted once, in the configured backend
LEMMA SmApplyStep == ASSUME SmIInv, NEW e, SmApplyEvent(e) PROVE SmIInv'
<1>0. /\ smServer # "off"
      /\ UNCHANGED <<smSrc, smReceipt, smPlan, smServer, smHome, smSaid, smAccepted>>
      /\ smServer = "sqlite" => SmSourceHolds
      /\ smServer = "postgres" => SmTargetHolds
    BY Zenon DEF SmApplyEvent, SmIInv, SmShapes, SmHomeHolds
<1>1. SmShapes'
    BY <1>0, Zenon DEF SmApplyEvent, SmIInv, SmShapes
<1>2. smServer = "sqlite" => SmSourceHolds'
  <2> SUFFICES ASSUME smServer = "sqlite" PROVE SmSourceHolds'
    OBVIOUS
  <2>1. CASE /\ e \in smSpool \ smApplied /\ smApplied' = smApplied \cup {e}
             /\ smUsage' = smUsage + 1 /\ smSpool' = smSpool
    <3>1. IsFiniteSet(smApplied') /\ Cardinality(smApplied') = Cardinality(smApplied) + 1
      BY <1>0, <2>1, FS_AddElement, Zenon DEF SmSourceHolds, SmHolds
    <3> QED BY <1>0, <2>1, <3>1, Zenon DEF SmSourceHolds, SmHolds
  <2>2. CASE /\ e \in smSpool \cap smApplied /\ smSpool' = smSpool \ {e}
             /\ smApplied' = smApplied /\ smUsage' = smUsage
    BY <1>0, <2>2, Zenon DEF SmSourceHolds, SmHolds
  <2> QED BY <2>1, <2>2, Zenon DEF SmApplyEvent
<1>3. smServer = "postgres" => SmTargetHolds' /\ UNCHANGED smSource
  <2> SUFFICES ASSUME smServer = "postgres" PROVE SmTargetHolds' /\ UNCHANGED smSource
    OBVIOUS
  <2>1. /\ e \in smTarget.pending /\ smTarget'.rows = smTarget.rows
        /\ smTarget'.pending = smTarget.pending \ {e}
        /\ smTarget'.applied = smTarget.applied \cup {e}
        /\ smTarget'.usage = smTarget.usage + 1 /\ UNCHANGED smSource
    BY Zenon DEF SmApplyEvent, SmIInv, SmShapes, smSource
  <2>2. e \notin smTarget.applied
    BY <1>0, <2>1, Zenon DEF SmTargetHolds, SmHolds
  <2>3. /\ IsFiniteSet(smTarget'.applied)
        /\ Cardinality(smTarget'.applied) = Cardinality(smTarget.applied) + 1
    BY <1>0, <2>1, <2>2, FS_AddElement DEF SmTargetHolds, SmHolds
  <2> QED BY <1>0, <2>1, <2>3, Zenon DEF SmTargetHolds, SmHolds
<1> QED BY <1>0, <1>1, <1>2, <1>3, SmServerStep, Zenon

\* Whichever backend runs, it has everything any server accepted and counts
\* every event once, for every source database, number of writes and kills:
\* the move, its repetition after a kill and the way back lose nothing
\* (storage_migration.rs).
THEOREM NothingLost == SmSpec => []SmNothingLost
<1>1. SmInit => SmIInv
  <2> SUFFICES ASSUME SmInit PROVE SmIInv
    OBVIOUS
  <2>1. SmShapes
    BY Zenon DEF SmInit, SmShapes, SmEmpty
  <2>2. SmRecords
    BY Zenon DEF SmInit, SmRecords
  <2>3. SmSourceHolds
    BY FS_EmptySet, Zenon DEF SmInit, SmSourceHolds, SmHolds
  <2>4. SmHomeHolds
    BY <2>3, Zenon DEF SmInit, SmHomeHolds
  <2> QED BY <2>1, <2>2, <2>4, Zenon DEF SmIInv
<1>2. SmIInv /\ [SmNext]_smVars => SmIInv'
  <2> SUFFICES ASSUME SmIInv, [SmNext]_smVars PROVE SmIInv'
    OBVIOUS
  <2>1. CASE SmKillCommand
    BY <2>1, SmCommandEnds, Zenon DEF SmKillCommand, SmDone
  <2>2. CASE UNCHANGED smVars
    BY <2>2, Zenon DEF smVars, SmIInv, SmShapes, SmRecords, SmHomeHolds, SmFingerprint, SmPlanRows,
                SmTraffic, SmSourceHolds, SmTargetHolds, SmHolds
  <2> QED BY <2>1, <2>2, SmPrepareStep, SmImportStep, SmRollbackStep, SmDeployStep,
             SmAcceptStep, SmApplyStep, Zenon DEF SmNext
<1>3. SmIInv => SmNothingLost
    BY Zenon DEF SmIInv, SmShapes, SmHomeHolds, SmSourceHolds, SmTargetHolds, SmHolds, SmNothingLost
<1> QED BY <1>1, <1>2, <1>3, PTL DEF SmSpec

-----------------------------------------------------------------------------
(* ManagedConfig *)

\* What the steps of a persist rely on: the answer of a request changes the
\* configuration only while the supervisor waits, what is being persisted is
\* valid, and where the valid copy is between two file operations.
McIInv ==
    /\ mcWait # 0 => mcPc = "waiting"
    /\ mcPc \in {"write", "retire", "keep", "install"} => McValid(mcWant)
    /\ mcPc \in {"keep", "copy"} => McValid(mcFile)
    /\ mcPc = "install" /\ mcSafe => McValid(mcBackup)
    /\ McValidCopyRemains

\* neither a missing nor a damaged file is a valid configuration
LEMMA McInvalid == ~McValid(McNone) /\ ~McValid(McBad)
BY Zenon DEF McValid

\* steps outside a persist keep the invariant
LEMMA McFilesKept ==
    ASSUME McIInv, UNCHANGED <<mcFile, mcBackup, mcSafe, mcPc, mcWait, mcWant>>
    PROVE  McIInv'
BY Zenon DEF McIInv, McValidCopyRemains, McValid

\* every step of a configuration call leaves a valid copy
LEMMA McServeKeeps ==
    ASSUME McIInv, NEW c \in McCalls, McServe(c)
    PROVE  McIInv'
<1>1. CASE McAuthenticate(c) \/ McReadTunnels(c) \/ McReadProxies(c) \/ McRecord(c)
  <2>1. UNCHANGED <<mcFile, mcBackup, mcSafe, mcPc, mcWait, mcWant>>
    BY <1>1, Zenon DEF McAuthenticate, McReadTunnels, McReadProxies, McRecord, mcFiles, mcClient
  <2> QED BY <2>1, McFilesKept, Zenon
<1>2. CASE McAnswer(c)
  <2>1. UNCHANGED <<mcFile, mcBackup, mcSafe>>
    BY <1>2, Zenon DEF McAnswer, mcFiles
  <2>2. CASE mcWait = c
    <3>1. mcWait' = 0 /\ mcPc' \in {"received", "idle"}
      BY <1>2, <2>2, Zenon DEF McAnswer
    <3> QED BY <2>1, <3>1, Zenon DEF McIInv, McValidCopyRemains
  <2>3. CASE mcWait # c
    BY <1>2, <2>1, <2>3, McFilesKept, Zenon DEF McAnswer
  <2> QED BY <2>2, <2>3, Zenon
<1> QED BY <1>1, <1>2, Zenon DEF McServe

\* so does every step of the supervisor
LEMMA McSuperviseKeeps ==
    ASSUME McIInv, McSupervise
    PROVE  McIInv'
<1>1. CASE McPoll
  <2>1. mcPc' = "waiting" /\ UNCHANGED <<mcFile, mcBackup, mcSafe>>
    BY <1>1, Zenon DEF McPoll, mcFiles
  <2> QED BY <2>1, Zenon DEF McIInv, McValidCopyRemains
<1>2. CASE McDecide
  <2>1. mcPc = "received" /\ UNCHANGED <<mcFile, mcBackup, mcSafe, mcWait>>
    BY <1>2, Zenon DEF McDecide, McAt, mcFiles
  <2>2. mcPc' = "idle" \/ (mcPc' = "write" /\ McValid(mcWant) /\ UNCHANGED mcWant)
    BY <1>2, Zenon DEF McDecide, McDecideManaged, McDecideLocal, McTickEnds, McFails
  <2> QED BY <2>1, <2>2, Zenon DEF McIInv, McValidCopyRemains, McValid
<1>3. CASE McWrite
  <2>1. mcPc = "write" /\ UNCHANGED <<mcFile, mcBackup, mcSafe, mcWait>>
    BY <1>3, Zenon DEF McWrite, McPersist, McAt
  <2>2. mcPc' = "idle" \/ (mcPc' = "retire" /\ UNCHANGED mcWant)
    BY <1>3, Zenon DEF McWrite, McPersist, McFails, McTickEnds
  <2> QED BY <2>1, <2>2, Zenon DEF McIInv, McValidCopyRemains, McValid
<1>4. CASE McRetire
  <2>1. mcPc = "retire" /\ UNCHANGED <<mcSafe, mcWait>>
    BY <1>4, Zenon DEF McRetire, McPersist, McAt
  <2>2. CASE McValid(mcFile) /\ mcPc' = "keep" /\ UNCHANGED <<mcFile, mcWant>>
    BY <2>1, <2>2, Zenon DEF McIInv, McValidCopyRemains, McValid
  <2>3. CASE ~McValid(mcFile) /\ mcPc' = "install" /\ UNCHANGED <<mcBackup, mcWant>>
    BY <2>1, <2>3, Zenon DEF McIInv, McValidCopyRemains, McValid
  <2>4. CASE mcPc' = "idle" /\ UNCHANGED <<mcFile, mcBackup>>
    BY <2>1, <2>4, Zenon DEF McIInv, McValidCopyRemains, McValid
  <2> QED BY <1>4, <2>2, <2>3, <2>4, Zenon DEF McRetire, McPersist, McFails, McTickEnds
<1>5. CASE McKeep
  <2>1. mcPc = "keep" /\ UNCHANGED <<mcSafe, mcWait>>
    BY <1>5, Zenon DEF McKeep, McPersist, McAt
  <2>2. CASE mcBackup' = mcFile /\ mcPc' = "install" /\ UNCHANGED mcWant
    BY <2>1, <2>2, Zenon DEF McIInv, McValidCopyRemains, McValid
  <2>3. CASE mcPc' = "idle" /\ UNCHANGED <<mcFile, mcBackup>>
    BY <2>1, <2>3, Zenon DEF McIInv, McValidCopyRemains, McValid
  <2> QED BY <1>5, <2>2, <2>3, Zenon DEF McKeep, McPersist, McFails, McTickEnds
<1>6. CASE McInstall
  <2>1. mcPc = "install" /\ UNCHANGED <<mcSafe, mcWait>>
    BY <1>6, Zenon DEF McInstall, McPersist, McAt
  <2>2. CASE mcFile' = mcWant /\ mcPc' = "copy" /\ UNCHANGED mcBackup
    BY <2>1, <2>2, Zenon DEF McIInv, McValidCopyRemains, McValid
  <2>3. CASE mcPc' = "idle" /\ IF mcBackup = McNone THEN UNCHANGED <<mcFile, mcBackup>>
                               ELSE mcFile' = mcBackup /\ mcBackup' = McNone
    <3>1. mcSafe => McValid(mcBackup) /\ mcFile' = mcBackup
      BY <2>1, <2>3, McInvalid, Zenon DEF McIInv
    <3>2. mcSafe' => McValid(mcFile')
      BY <2>1, <3>1, Zenon
    <3>3. McValidCopyRemains'
      BY <3>2, Zenon DEF McValidCopyRemains, McValid
    <3> QED BY <2>1, <2>3, <3>3, Zenon DEF McIInv
  <2> QED BY <1>6, <2>2, <2>3, Zenon DEF McInstall, McPersist, McFails, McTickEnds
<1>7. CASE McCopyBackup
  <2>1. mcPc = "copy" /\ UNCHANGED <<mcFile, mcWait>> /\ mcPc' \in {"reconcile", "idle"}
    BY <1>7, Zenon DEF McCopyBackup, McAt, McFails, McTickEnds
  <2> QED BY <2>1, Zenon DEF McIInv, McValidCopyRemains, McValid
<1>8. CASE McApply
  <2>1. mcPc = "reconcile" /\ mcPc' = "idle" /\ UNCHANGED <<mcFile, mcBackup, mcSafe, mcWait>>
    BY <1>8, Zenon DEF McApply, McPersist, McAt, McTickEnds
  <2> QED BY <2>1, Zenon DEF McIInv, McValidCopyRemains, McValid
<1> QED BY <1>1, <1>2, <1>3, <1>4, <1>5, <1>6, <1>7, <1>8, Zenon DEF McSupervise

\* A valid configuration stays on disk, in the managed file or in its backup,
\* through every persist, failing step, kill between two renames and damage.
THEOREM ValidCopyRemains == McSpec => []McValidCopyRemains
<1>1. McInit => McIInv
  BY Zenon DEF McInit, McIInv, McValidCopyRemains
<1>2. McIInv /\ [McNext]_mcVars => McIInv'
  <2> SUFFICES ASSUME McIInv, [McNext]_mcVars PROVE McIInv'
    OBVIOUS
  <2>1. ASSUME NEW p \in McSpecs, McEdit(p) PROVE McIInv'
    BY <2>1, McFilesKept, Zenon DEF McEdit, mcFiles, mcClient
  <2>2. ASSUME NEW c \in McCalls, McServe(c) PROVE McIInv'
    BY <2>2, McServeKeeps, Zenon
  <2>3. CASE McStart
    BY <2>3, McFilesKept, Zenon DEF McStart, mcFiles
  <2>4. CASE McSupervise
    BY <2>4, McSuperviseKeeps, Zenon
  <2>5. CASE McTimeout
    <3>1. mcPc' = "idle" /\ mcWait' = 0 /\ UNCHANGED <<mcFile, mcBackup, mcSafe>>
      BY <2>5, Zenon DEF McTimeout, mcFiles
    <3> QED BY <3>1, Zenon DEF McIInv, McValidCopyRemains, McValid
  <2>6. CASE McStop
    <3>1. mcPc' = "idle" /\ mcWait' = 0 /\ UNCHANGED <<mcFile, mcBackup, mcSafe>>
      BY <2>6, Zenon DEF McStop, McDown
    <3> QED BY <3>1, Zenon DEF McIInv, McValidCopyRemains, McValid
  <2>7. CASE McKill
    <3>1. /\ mcPc' = "idle" /\ mcWait' = 0 /\ UNCHANGED <<mcFile, mcSafe>>
          /\ mcPc = "copy" \/ UNCHANGED mcBackup
      BY <2>7, Zenon DEF McKill, McDown
    <3> QED BY <3>1, Zenon DEF McIInv, McValidCopyRemains, McValid
  <2>8. CASE McDamage
    <3>1. /\ UNCHANGED <<mcBackup, mcPc, mcWait, mcWant>> /\ mcPc \in {"idle", "waiting"}
          /\ mcSafe' = (mcSafe /\ McValid(mcBackup))
      BY <2>8, Zenon DEF McDamage, mcClient
    <3>2. mcSafe' => McValid(mcBackup')
      BY <3>1, Zenon
    <3>3. McValidCopyRemains'
      BY <3>2, Zenon DEF McValidCopyRemains, McValid
    <3> QED BY <3>1, <3>3, Zenon DEF McIInv
  <2>9. CASE UNCHANGED mcVars
    BY <2>9, McFilesKept, Zenon DEF mcVars
  <2> QED BY <2>1, <2>2, <2>3, <2>4, <2>5, <2>6, <2>7, <2>8, <2>9, Zenon DEF McNext
<1>3. McIInv => McValidCopyRemains
  BY Zenon DEF McIInv
<1> QED BY <1>1, <1>2, <1>3, PTL DEF McSpec

-----------------------------------------------------------------------------
(* UpdateStaging *)

\* A release whose manifest and asset were verified, an executable that may be
\* installed, and what a command has verified by the time it reaches a step.
UsTrusted(r) == r \in UsReleases /\ UsVerifyManifest(r)
UsVouched(ver, bin) == UsSigned(ver, bin) \/ (ver = UsFirst /\ bin = 0)
UsHasChecked(p) ==
    /\ p.pc \in {"selected", "trusted", "downloaded", "extracted", "cleared", "staged"} =>
          p.r \in UsReleases
    /\ p.pc \in {"trusted", "downloaded", "extracted", "cleared", "staged"} => UsTrusted(p.r)
    /\ p.pc \in {"downloaded", "extracted", "cleared", "staged"} => p.got = p.r.signed
    /\ p.pc = "prepared" => UsVouched(p.r.ver, p.got)
UsCommand(p) == p = [pc |-> p.pc, r |-> p.r, cur |-> p.cur, got |-> p.got]
\* A command between the selection and the rename holds the lock beside no plan.
UsHeld == {"selected", "trusted", "downloaded", "extracted", "cleared"}
UsExclusive(a, pc, lock, to) == pc \in UsHeld => lock = a /\ to = 0
UsIInv ==
    /\ usFeed \in UsFeeds
    /\ usP = [a \in UsActors |-> usP[a]]
    /\ \A a \in UsActors : UsCommand(usP[a]) /\ UsHasChecked(usP[a])
    /\ \A a \in UsActors : UsExclusive(a, usP[a].pc, usLock, usActive.to)
    /\ \A b \in usBackups : UsVouched(b.ver, b.bin)
    /\ UsPlanIsSigned

\* the newest compatible release of a feed is one of its releases
LEMMA UsNewestIsOffered ==
    ASSUME NEW feed \in UsFeeds, NEW chan, NEW cur, UsCompatible(feed, chan, cur) # {}
    PROVE  UsNewest(UsCompatible(feed, chan, cur)) \in UsReleases
<1> DEFINE rs == UsCompatible(feed, chan, cur)
<1>1. rs \in SUBSET feed /\ rs # {}
  BY Zenon DEF UsCompatible
<1> HIDE DEF rs
<1>2. \E r \in rs : \A q \in rs : q.ver <= r.ver
  BY <1>1, UsAssumption, Zenon
<1>3. UsNewest(rs) \in rs
  BY <1>2, Zenon DEF UsNewest
<1> QED BY <1>1, <1>3, Zenon DEF UsReleases, rs

\* One command moves on, and the plan stays or becomes a good one.
LEMMA UsMoves ==
    ASSUME UsIInv, NEW a \in UsActors, NEW p, UsCommand(p), UsHasChecked(p),
           usP' = [usP EXCEPT ![a] = p], UNCHANGED <<usFeed, usBackups>>, UsPlanIsSigned',
           UsExclusive(a, p.pc, usLock', usActive'.to),
           \A b \in UsActors : b # a => UsExclusive(b, usP[b].pc, usLock', usActive'.to)
    PROVE  UsIInv'
<1>1. usP' = [b \in UsActors |-> IF b = a THEN p ELSE usP[b]]
  BY Zenon DEF UsIInv
<1>2. \A b \in UsActors : UsCommand(usP'[b]) /\ UsHasChecked(usP'[b])
  BY <1>1, Zenon DEF UsIInv
<1>3. \A b \in UsActors : (UsCommand(usP[b]) /\ UsHasChecked(usP[b]))'
  BY <1>2, Zenon DEF UsCommand, UsHasChecked, UsTrusted, UsVerifyManifest, UsVouched, UsSigned
<1>4. \A b \in UsActors : UsExclusive(b, usP'[b].pc, usLock', usActive'.to)
  BY <1>1, Zenon
<1>5. \A b \in UsActors : UsExclusive(b, usP[b].pc, usLock, usActive.to)'
  BY <1>4, Zenon DEF UsExclusive, UsHeld
<1>6. (\A b \in usBackups : UsVouched(b.ver, b.bin))'
  BY Zenon DEF UsIInv, UsVouched, UsSigned
<1> QED BY <1>1, <1>3, <1>5, <1>6, Zenon DEF UsIInv

\* a command at rest has verified nothing and claims nothing
LEMMA UsResting ==
    /\ UsCommand(UsRest) /\ UsHasChecked(UsRest)
    /\ UsRest.pc = "idle" /\ "idle" \notin UsHeld
BY Zenon DEF UsCommand, UsHasChecked, UsRest, UsHeld

\* While a command holds the lock, or nobody does, no other command is between
\* the selection and the rename.
LEMMA UsAlone ==
    ASSUME UsIInv, NEW a \in UsActors, usLock = a \/ usLock = "none",
           NEW lock, NEW to
    PROVE  \A b \in UsActors : b # a => UsExclusive(b, usP[b].pc, lock, to)
BY UsAssumption, Zenon DEF UsIInv, UsExclusive

\* What a plan and the installation must be, from their parts.
LEMMA UsPlanKept ==
    ASSUME UsPlanIsSigned,
           \/ UNCHANGED <<usActive, usDir, usInstalled, usBin>>
           \/ usActive'.to = 0 /\ UNCHANGED <<usInstalled, usBin>>
    PROVE  UsPlanIsSigned'
BY Zenon DEF UsPlanIsSigned, UsSigned

\* every step of an update command keeps the invariant
LEMMA UsActorKeeps ==
    ASSUME UsIInv, NEW a \in UsActors,
           \/ \E cur \in {usInstalled, 0} :
                 \/ \E chan \in {"auto", "stable", "prerelease"}, down \in BOOLEAN :
                       UsSelect(a, chan, down, cur)
                 \/ UsPrepareRollback(a, cur) \/ UsSchedule(a, cur)
           \/ UsManifest(a) \/ UsDownload(a) \/ UsExtract(a) \/ UsRemoveStaged(a)
           \/ UsRenameStaged(a) \/ UsDies(a)
    PROVE  UsIInv'
<1> DEFINE p == usP[a]
<1>0. UsCommand(p) /\ UsHasChecked(p) /\ usFeed \in UsFeeds /\ UsPlanIsSigned
      /\ usP = [b \in UsActors |-> usP[b]] /\ UsExclusive(a, p.pc, usLock, usActive.to)
      /\ \A b \in UsActors : UsExclusive(b, usP[b].pc, usLock, usActive.to)
  BY Zenon DEF UsIInv
\* a command that gives up or dies forgets what it had
<1>2. ASSUME UsGiveUp(a), UNCHANGED <<usFeed, usActive, usBackups, usDir, usInstalled, usBin>>
      PROVE  UsIInv'
  <2>1. \A b \in UsActors : b # a => UsExclusive(b, usP[b].pc, usLock', usActive'.to)
    BY <1>0, <1>2, Zenon DEF UsGiveUp, UsExclusive
  <2>2. UsExclusive(a, UsRest.pc, usLock', usActive'.to)
    BY UsResting, Zenon DEF UsExclusive
  <2>3. UsPlanIsSigned'
    BY <1>0, <1>2, UsPlanKept, Zenon
  <2> QED BY <1>2, <2>1, <2>2, <2>3, UsResting, UsMoves, Zenon DEF UsGiveUp
\* a command under the lock whose next step needs no more than it has verified
<1>3. ASSUME NEW pc, NEW got, usP' = [usP EXCEPT ![a] = [pc |-> pc, r |-> p.r, cur |-> p.cur,
                                                        got |-> got]],
             p.pc \in UsHeld, UNCHANGED <<usFeed, usActive, usBackups, usInstalled, usBin>>,
             pc # "prepared", pc \in UsHeld => UNCHANGED usLock, UsTrusted(p.r),
             pc \in {"downloaded", "extracted", "cleared", "staged"} => got = p.r.signed
      PROVE  UsIInv'
  <2> DEFINE q == [pc |-> pc, r |-> p.r, cur |-> p.cur, got |-> got]
  <2>1. q.pc = pc /\ q.r = p.r /\ q.got = got /\ UsCommand(q)
    BY Zenon DEF UsCommand
  <2> HIDE DEF q
  <2>2. UsHasChecked(q)
    BY <1>3, <2>1, Zenon DEF UsHasChecked, UsTrusted
  <2>3. usLock = a /\ usActive.to = 0
    BY <1>0, <1>3, Zenon DEF UsExclusive
  <2>4. UsExclusive(a, q.pc, usLock', usActive'.to)
    BY <1>3, <2>1, <2>3, Zenon DEF UsExclusive
  <2>5. \A b \in UsActors : b # a => UsExclusive(b, usP[b].pc, usLock', usActive'.to)
    BY <2>3, UsAlone, Zenon
  <2>6. UsPlanIsSigned'
    BY <1>0, <1>3, <2>3, UsPlanKept, Zenon
  <2> QED BY <1>3, <2>1, <2>2, <2>4, <2>5, <2>6, UsMoves, Zenon DEF q
<1>4. ASSUME NEW pc, UsStep(a, pc)
      PROVE  usP' = [usP EXCEPT ![a] = [pc |-> pc, r |-> p.r, cur |-> p.cur, got |-> p.got]]
  <2>1. [p EXCEPT !.pc = pc] = [pc |-> pc, r |-> p.r, cur |-> p.cur, got |-> p.got]
    BY <1>0 DEF UsCommand
  <2>2. usP' = [usP EXCEPT ![a] = [p EXCEPT !.pc = pc]]
    BY <1>4, Zenon DEF UsStep
  <2> QED BY <2>1, <2>2, Zenon
<1>5. ASSUME NEW chan, NEW down, NEW cur, UsSelect(a, chan, down, cur) PROVE UsIInv'
  <2> DEFINE now == IF cur = 0 THEN UsUpdater ELSE cur
             r == UsNewest(UsCompatible(usFeed, chan, now))
             q == [pc |-> "selected", r |-> r, cur |-> cur, got |-> 0]
  <2>1. /\ UsCompatible(usFeed, chan, now) # {} /\ usP' = [usP EXCEPT ![a] = q]
        /\ usLock = "none" /\ usLock' = a /\ usActive.to = 0
        /\ UNCHANGED <<usFeed, usActive, usBackups, usDir, usInstalled, usBin>>
    BY <1>5, Zenon DEF UsSelect
  <2> HIDE DEF now
  <2>2. r \in UsReleases
    BY <1>0, <2>1, UsNewestIsOffered, Zenon
  <2> HIDE DEF r
  <2>3. UsCommand(q) /\ q.pc = "selected" /\ q.r = r
    BY Zenon DEF UsCommand
  <2> HIDE DEF q
  <2>4. UsHasChecked(q)
    BY <2>2, <2>3, Zenon DEF UsHasChecked
  <2>5. UsExclusive(a, q.pc, usLock', usActive'.to)
    BY <2>1, Zenon DEF UsExclusive
  <2>6. \A b \in UsActors : b # a => UsExclusive(b, usP[b].pc, usLock', usActive'.to)
    BY <2>1, UsAlone, Zenon
  <2>7. UsPlanIsSigned'
    BY <1>0, <2>1, UsPlanKept, Zenon
  <2> QED BY <2>1, <2>3, <2>4, <2>5, <2>6, <2>7, UsMoves, Zenon
<1>6. CASE UsManifest(a)
  <2>1. p.pc = "selected" /\ UNCHANGED <<usFeed, usActive, usBackups, usDir, usInstalled, usBin>>
    BY <1>6, Zenon DEF UsManifest
  <2>2. CASE UsVerifyManifest(p.r) /\ UsStep(a, "trusted") /\ UNCHANGED usLock
    <3>1. UsTrusted(p.r)
      BY <1>0, <2>1, <2>2, Zenon DEF UsHasChecked, UsTrusted
    <3>2. usP' = [usP EXCEPT ![a] = [pc |-> "trusted", r |-> p.r, cur |-> p.cur, got |-> p.got]]
      BY <1>4, <2>2, Zenon
    <3>3. p.pc \in UsHeld /\ "trusted" \notin {"downloaded", "extracted", "cleared", "staged"}
      BY <2>1, Zenon DEF UsHeld
    <3> QED BY <1>3, <2>1, <2>2, <3>1, <3>2, <3>3, Zenon
  <2>3. CASE UsGiveUp(a)
    BY <1>2, <2>1, <2>3, Zenon
  <2> QED BY <1>6, <2>2, <2>3, Zenon DEF UsManifest
<1>7. CASE UsDownload(a)
  <2>1. p.pc = "trusted" /\ UNCHANGED <<usFeed, usActive, usBackups, usDir, usInstalled, usBin>>
    BY <1>7, Zenon DEF UsDownload
  <2>2. CASE UsGiveUp(a)
    BY <1>2, <2>1, <2>2, Zenon
  <2>3. CASE /\ UsVerifyPackage(p.r, p.r.served) /\ UNCHANGED usLock
             /\ usP' = [usP EXCEPT ![a].pc = "downloaded", ![a].got = p.r.served]
    <3>1. UsTrusted(p.r) /\ p.r.served = p.r.signed
      BY <1>0, <2>1, <2>3, Zenon DEF UsHasChecked, UsVerifyPackage
    <3>2. [[p EXCEPT !.pc = "downloaded"] EXCEPT !.got = p.r.served]
            = [pc |-> "downloaded", r |-> p.r, cur |-> p.cur, got |-> p.r.served]
      <4> DEFINE d == [pc |-> "downloaded", r |-> p.r, cur |-> p.cur, got |-> p.got]
      <4>1. [p EXCEPT !.pc = "downloaded"] = d
        BY <1>0 DEF UsCommand
      <4>2. [d EXCEPT !.got = p.r.served]
              = [pc |-> "downloaded", r |-> p.r, cur |-> p.cur, got |-> p.r.served]
        OBVIOUS
      <4> HIDE DEF d
      <4> QED BY <4>1, <4>2, Zenon
    <3>3. usP' = [usP EXCEPT ![a] = [[p EXCEPT !.pc = "downloaded"] EXCEPT !.got = p.r.served]]
      <4> DEFINE d == [usP EXCEPT ![a] = [p EXCEPT !.pc = "downloaded"]]
      <4>1. usP' = [d EXCEPT ![a] = [d[a] EXCEPT !.got = p.r.served]]
        BY <2>3, Zenon
      <4>2. d = [b \in UsActors |-> IF b = a THEN [p EXCEPT !.pc = "downloaded"] ELSE usP[b]]
        BY <1>0, Zenon
      <4> HIDE DEF d
      <4>3. d[a] = [p EXCEPT !.pc = "downloaded"]
        BY <4>2, Zenon
      <4>4. usP' = [b \in UsActors |-> IF b = a THEN [d[a] EXCEPT !.got = p.r.served] ELSE usP[b]]
        BY <4>1, <4>2, Zenon
      <4> QED BY <1>0, <4>3, <4>4, Zenon
    <3>4. usP' = [usP EXCEPT ![a] = [pc |-> "downloaded", r |-> p.r, cur |-> p.cur,
                                     got |-> p.r.served]]
      BY <3>2, <3>3, Zenon
    <3>5. p.pc \in UsHeld
      BY <2>1, Zenon DEF UsHeld
    <3> QED BY <1>3, <2>1, <2>3, <3>1, <3>4, <3>5, Zenon
  <2> QED BY <1>7, <2>2, <2>3, Zenon DEF UsDownload
\* the archive, the staging directory and the rename
<1>8. CASE UsExtract(a)
  <2>1. p.pc = "downloaded" /\ UNCHANGED <<usFeed, usActive, usBackups, usDir, usInstalled, usBin>>
    BY <1>8, Zenon DEF UsExtract
  <2>2. CASE UsStep(a, "extracted") /\ UNCHANGED usLock
    <3>1. usP' = [usP EXCEPT ![a] = [pc |-> "extracted", r |-> p.r, cur |-> p.cur, got |-> p.got]]
      BY <1>4, <2>2, Zenon
    <3>2. p.pc \in UsHeld /\ UsTrusted(p.r) /\ p.got = p.r.signed
      BY <1>0, <2>1, Zenon DEF UsHasChecked, UsHeld
    <3> QED BY <1>3, <2>1, <2>2, <3>1, <3>2, Zenon
  <2>3. CASE UsGiveUp(a)
    BY <1>2, <2>1, <2>3, Zenon
  <2> QED BY <1>8, <2>2, <2>3, Zenon DEF UsExtract
<1>9. CASE UsRemoveStaged(a)
  <2>1. /\ p.pc = "extracted" /\ UNCHANGED <<usFeed, usActive, usBackups, usInstalled, usBin>>
        /\ UsStep(a, "cleared") /\ UNCHANGED usLock
    BY <1>9, Zenon DEF UsRemoveStaged
  <2>2. usP' = [usP EXCEPT ![a] = [pc |-> "cleared", r |-> p.r, cur |-> p.cur, got |-> p.got]]
    BY <1>4, <2>1, Zenon
  <2>3. p.pc \in UsHeld /\ UsTrusted(p.r) /\ p.got = p.r.signed
    BY <1>0, <2>1, Zenon DEF UsHasChecked, UsHeld
  <2> QED BY <1>3, <2>1, <2>2, <2>3, Zenon
<1>10. CASE UsRenameStaged(a)
  <2>1. /\ p.pc = "cleared" /\ UNCHANGED <<usFeed, usActive, usBackups, usInstalled, usBin>>
        /\ UsStep(a, "staged")
    BY <1>10, Zenon DEF UsRenameStaged
  <2>2. usP' = [usP EXCEPT ![a] = [pc |-> "staged", r |-> p.r, cur |-> p.cur, got |-> p.got]]
    BY <1>4, <2>1, Zenon
  <2>3. p.pc \in UsHeld /\ UsTrusted(p.r) /\ p.got = p.r.signed /\ "staged" \notin UsHeld
    BY <1>0, <2>1, Zenon DEF UsHasChecked, UsHeld
  <2> QED BY <1>3, <2>1, <2>2, <2>3, Zenon
\* every backup was installed once, so a rollback prepares a vouched one
<1>11. ASSUME NEW cur, UsPrepareRollback(a, cur) PROVE UsIInv'
  <2>1. PICK b \in usBackups :
           /\ usP' = [usP EXCEPT ![a] = [pc |-> "prepared", r |-> [ver |-> b.ver], cur |-> cur,
                                         got |-> b.bin]]
           /\ UNCHANGED <<usFeed, usLock, usActive, usBackups, usDir, usInstalled, usBin>>
    BY <1>11, Zenon DEF UsPrepareRollback
  <2> DEFINE q == [pc |-> "prepared", r |-> [ver |-> b.ver], cur |-> cur, got |-> b.bin]
  <2>2. UsCommand(q) /\ q.pc = "prepared" /\ q.r.ver = b.ver /\ q.got = b.bin
    BY Zenon DEF UsCommand
  <2>3. usP' = [usP EXCEPT ![a] = q]
    BY <2>1, Zenon
  <2> HIDE DEF q
  <2>4. UsHasChecked(q)
    BY <2>2, Zenon DEF UsHasChecked, UsIInv
  <2>5. UsExclusive(a, q.pc, usLock', usActive'.to)
    BY <2>2, Zenon DEF UsExclusive, UsHeld
  <2>6. \A c \in UsActors : c # a => UsExclusive(c, usP[c].pc, usLock', usActive'.to)
    BY <1>0, <2>1, Zenon
  <2>7. UsPlanIsSigned'
    BY <1>0, <2>1, UsPlanKept, Zenon
  <2> QED BY <2>1, <2>2, <2>3, <2>4, <2>5, <2>6, <2>7, UsMoves, Zenon
\* what is in the directory is what this command verified
<1>12. ASSUME NEW cur, UsSchedule(a, cur) PROVE UsIInv'
  <2>1. /\ p.pc \in {"staged", "prepared"} /\ usLock = "none"
        /\ usP' = [usP EXCEPT ![a] = UsRest]
        /\ UNCHANGED <<usFeed, usLock, usBackups, usDir, usInstalled, usBin>>
    BY <1>12, Zenon DEF UsSchedule
  <2>2. UsExclusive(a, UsRest.pc, usLock', usActive'.to)
    BY UsResting, Zenon DEF UsExclusive
  <2>3. \A b \in UsActors : b # a => UsExclusive(b, usP[b].pc, usLock', usActive'.to)
    BY <2>1, UsAlone, Zenon
  <2>4. CASE UNCHANGED usActive
    <3>1. UsPlanIsSigned'
      BY <1>0, <2>1, <2>4, UsPlanKept, Zenon
    <3> QED BY <2>1, <2>2, <2>3, <3>1, UsResting, UsMoves, Zenon
  <2>5. CASE /\ UsSameDigest(a)
             /\ usActive' = [to |-> p.r.ver, sha |-> p.got, local |-> p.pc = "prepared"]
    <3>1. usActive'.to = p.r.ver /\ usActive'.sha = p.got /\ usActive'.local = (p.pc = "prepared")
      BY <2>5, Zenon
    <3>2. UsSigned(usInstalled, usBin)' \/ (usInstalled = UsFirst /\ usBin = 0)'
      BY <1>0, <2>1, Zenon DEF UsPlanIsSigned, UsSigned
    <3>3. CASE p.pc = "prepared"
      <4>1. UsVouched(p.r.ver, p.got)
        BY <1>0, <3>3, Zenon DEF UsHasChecked
      <4>2. usActive'.local
        BY <3>1, <3>3, Zenon
      <4>3. UsPlanIsSigned'
        BY <3>1, <3>2, <4>1, <4>2, Zenon DEF UsPlanIsSigned, UsVouched, UsSigned
      <4> QED BY <2>1, <2>2, <2>3, <4>3, UsResting, UsMoves, Zenon
    <3>4. CASE p.pc = "staged"
      <4>1. UsTrusted(p.r) /\ p.got = p.r.signed
        BY <1>0, <3>4, Zenon DEF UsHasChecked
      <4>2. UsSigned(p.r.ver, p.got)
        BY <4>1, UsAssumption, Zenon DEF UsTrusted, UsVerifyManifest, UsSigned
      <4>3. ~usActive'.local
        BY <3>1, <3>4, Zenon
      <4>4. usDir'[p.r.ver] = p.got
        BY <2>1, <2>5, <3>4, Zenon DEF UsSameDigest
      <4>5. UsPlanIsSigned'
        BY <3>1, <3>2, <4>2, <4>3, <4>4, Zenon DEF UsPlanIsSigned, UsSigned
      <4> QED BY <2>1, <2>2, <2>3, <4>5, UsResting, UsMoves, Zenon
    <3> QED BY <2>1, <3>3, <3>4, Zenon
  <2> QED BY <1>12, <2>4, <2>5, Zenon DEF UsSchedule
<1>13. CASE UsDies(a)
  BY <1>2, <1>13, Zenon DEF UsDies
<1> QED BY <1>5, <1>6, <1>7, <1>8, <1>9, <1>10, <1>11, <1>12, <1>13, Zenon

\* Whatever two commands do between the verification and the scheduling, a plan
\* of a release installs the executable its own command verified and a trusted key
\* signed; with rollbacks, everything installed was signed or was there first.
THEOREM PlanIsSigned == UsSpec => []UsPlanIsSigned
<1>1. UsInit => UsIInv
  <2> SUFFICES ASSUME UsInit PROVE UsIInv
    OBVIOUS
  <2>1. /\ usFeed \in UsFeeds /\ usP = [a \in UsActors |-> UsRest] /\ usBackups = {}
        /\ usActive.to = 0 /\ usInstalled = UsFirst /\ usBin = 0
    BY Zenon DEF UsInit, UsNoPlan
  <2>2. UsPlanIsSigned
    BY <2>1, Zenon DEF UsPlanIsSigned
  <2>3. \A a \in UsActors : UsExclusive(a, usP[a].pc, usLock, usActive.to)
    BY <2>1, UsResting, Zenon DEF UsExclusive
  <2> QED BY <2>1, <2>2, <2>3, UsResting, Zenon DEF UsIInv
<1>2. UsIInv /\ [UsNext]_usVars => UsIInv'
  <2> SUFFICES ASSUME UsIInv, [UsNext]_usVars PROVE UsIInv'
    OBVIOUS
  <2>1. ASSUME UNCHANGED <<usP, usLock>>, usFeed' \in UsFeeds, UsPlanIsSigned',
               UNCHANGED usActive \/ usActive'.to = 0,
               \A b \in usBackups' : UsVouched(b.ver, b.bin)
        PROVE  UsIInv'
    <3>1. \A a \in UsActors : (UsCommand(usP[a]) /\ UsHasChecked(usP[a]))'
      BY <2>1, Zenon DEF UsIInv, UsCommand, UsHasChecked, UsTrusted, UsVerifyManifest,
                         UsVouched, UsSigned
    <3>2. \A a \in UsActors : UsExclusive(a, usP[a].pc, usLock, usActive.to)'
      BY <2>1, Zenon DEF UsIInv, UsExclusive, UsHeld
    <3>3. (\A b \in usBackups : UsVouched(b.ver, b.bin))'
      BY <2>1, Zenon DEF UsVouched, UsSigned
    <3> QED BY <2>1, <3>1, <3>2, <3>3, Zenon DEF UsIInv
  <2>2. CASE UsInstall
    <3> DEFINE old == [ver |-> usInstalled, bin |-> usBin, at |-> usOps]
    <3>1. /\ usActive'.to = 0 /\ UNCHANGED <<usP, usFeed, usLock>> /\ usActive.to # 0
          /\ usInstalled' = usActive.to /\ usBin' = usActive.sha
          /\ usBackups' = usBackups \cup {old}
      BY <2>2, Zenon DEF UsInstall, UsNoPlan
    <3>2. UsVouched(usActive.to, usActive.sha) /\ UsVouched(usInstalled, usBin)
      BY <3>1, Zenon DEF UsIInv, UsPlanIsSigned, UsVouched
    <3>3. UsPlanIsSigned'
      BY <3>1, <3>2, Zenon DEF UsPlanIsSigned, UsVouched, UsSigned
    <3>4. old.ver = usInstalled /\ old.bin = usBin
      OBVIOUS
    <3> HIDE DEF old
    <3>5. \A b \in usBackups' : UsVouched(b.ver, b.bin)
      BY <3>1, <3>2, <3>4, Zenon DEF UsIInv
    <3> QED BY <2>1, <3>1, <3>3, <3>5, Zenon DEF UsIInv
  <2>3. CASE UsPublish \/ UNCHANGED usVars
    <3>1. /\ usFeed' \in UsFeeds
          /\ UNCHANGED <<usP, usLock, usActive, usDir, usInstalled, usBin, usBackups>>
      BY <2>3, Zenon DEF UsPublish, usVars, UsIInv
    <3>2. UsPlanIsSigned' /\ \A b \in usBackups' : UsVouched(b.ver, b.bin)
      BY <3>1, UsPlanKept, Zenon DEF UsIInv
    <3> QED BY <2>1, <3>1, <3>2, Zenon
  <2> QED BY <2>2, <2>3, UsActorKeeps, Zenon DEF UsNext
<1>3. UsIInv => UsPlanIsSigned
  BY Zenon DEF UsIInv
<1> QED BY <1>1, <1>2, <1>3, PTL DEF UsSpec

=============================================================================
