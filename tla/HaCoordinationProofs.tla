------------------------ MODULE HaCoordinationProofs ------------------------
(***************************************************************************)
(* Proofs about HaCoordination, for any set of processes and instances,    *)
(* any lease lengths, either backend and any bound on the clock.           *)
(***************************************************************************)
EXTENDS HaCoordination, TLAPS

\* t is no term, or a term granted to p.
OwnTerm(p, t) == t # 0 => t <= Len(terms) /\ terms[t] = p

\* t is no term, or the last term granted to p.
LatestTerm(p, t) == OwnTerm(p, t) /\ (t # 0 => \A u \in t + 1 .. Len(terms) : terms[u] # p)

\* The leader row always shows the newest grant; it is never deleted.
LeaderRowIsNewestTerm ==
  /\ nextToken = Len(terms) + 1
  /\ leader.fencing_token = Len(terms)
  /\ IF terms = <<>> THEN leader.incarnation = NoProcess
                     ELSE leader.incarnation = terms[Len(terms)]

\* What a process knows was granted to it; a pending answer exists only between
\* the database call and its publication.
KnownTerms ==
  \A p \in Process :
    /\ LatestTerm(p, view[p])
    /\ LatestTerm(p, reply[p])
    /\ reply[p] # 0 => phase[p] = "replied"
    /\ OwnTerm(p, held[p])

\* An open fenced transaction pins the leader row and its member row.
OpenTransactions ==
  \A p \in Process : tx[p] =>
    /\ held[p] # 0
    /\ leader.incarnation = p
    /\ leader.fencing_token = held[p]
    /\ members[InstanceOf[p]].incarnation = p

IInv ==
  /\ TypeOK
  /\ LeaderRowIsNewestTerm
  /\ KnownTerms
  /\ OpenTransactions
  /\ lastWrite <= Len(terms)

-----------------------------------------------------------------------------
\* The clock of the rows is within half a second of the true one.
LEMMA NowBounds ==
  ASSUME TypeOK
  PROVE  Now \in Nat /\ 2 * Now <= clock + 1 /\ clock <= 2 * Now + 1
BY DEF TypeOK, Now

\* Rows as the operations write them.
LEMMA RowTypes ==
  /\ Absent \in Member /\ NoLeader \in Leader
  /\ \A p \in Process, u \in Nat : [incarnation |-> p, lease_until |-> u] \in Member
  /\ \A p \in Process, t \in Nat, u \in Nat :
       [incarnation |-> p, fencing_token |-> t, lease_until |-> u] \in Leader
  /\ \A m \in Member, u \in Nat : [m EXCEPT !.lease_until = u] \in Member
  /\ \A l \in Leader, u \in Nat :
       [l EXCEPT !.lease_until = u] \in Leader /\ l.fencing_token \in Nat
BY DEF Absent, NoLeader, Member, Leader

\* Every operation keeps every variable in its type.
LEMMA TypeStep ==
  ASSUME TypeOK, [Next]_vars
  PROVE  TypeOK'
<1> USE DEF Phase
<1>0. Now + MemberLease \in Nat /\ Now + LeaderLease \in Nat
  BY NowBounds, ConstantsAssumption
<1>a. members \in [Instance -> Member] /\ leader \in Leader
  BY DEF TypeOK
<1>b. reply \in [Process -> Nat] /\ view \in [Process -> Nat]
  BY DEF TypeOK
<1>1. ASSUME NEW p \in Process, Start(p) PROVE TypeOK'
  <2>1. [i \in Instance |-> [members[i] EXCEPT !.lease_until = 0]] \in [Instance -> Member]
    BY <1>a, RowTypes
  <2>2. [leader EXCEPT !.lease_until = 0] \in Leader
    BY <1>a, RowTypes
  <2>3. members' \in [Instance -> Member] /\ leader' \in Leader
    BY <1>a, <1>1, <2>1, <2>2 DEF Start, RecoverStaleLeases
  <2> QED
    BY <1>1, <2>3 DEF Start, workVars, TypeOK
<1>2. ASSUME NEW p \in Process, Crash(p) PROVE TypeOK'
  BY <1>2 DEF Crash, dbVars, TypeOK
<1>3. ASSUME NEW p \in Process, Shutdown(p) PROVE TypeOK'
  BY <1>3 DEF Shutdown, dbVars, workVars, TypeOK
<1>4. ASSUME NEW p \in Process, BeginHeartbeat(p) PROVE TypeOK'
  BY <1>4 DEF BeginHeartbeat, dbVars, workVars, TypeOK
<1>5. ASSUME NEW p \in Process, Register(p) PROVE TypeOK'
  <2>1. members' \in [Instance -> Member]
    BY <1>0, <1>a, <1>5, RowTypes DEF Register
  <2> QED
    BY <1>5, <2>1 DEF Register, workVars, TypeOK
<1>6. ASSUME NEW p \in Process, RenewLeadership(p) PROVE TypeOK'
  <2>1. [leader EXCEPT !.lease_until = Now + LeaderLease] \in Leader
    BY <1>0, <1>a, RowTypes
  <2>2. leader' \in Leader
    BY <1>a, <1>6, <2>1 DEF RenewLeadership
  <2>3. reply' \in [Process -> Nat]
    BY <1>b, <1>6 DEF RenewLeadership
  <2> QED
    BY <1>6, <2>2, <2>3 DEF RenewLeadership, workVars, TypeOK
<1>7. ASSUME NEW p \in Process, TryAcquireLeadership(p) PROVE TypeOK'
  <2> DEFINE Typed == /\ leader' \in Leader /\ reply' \in [Process -> Nat]
                      /\ nextToken' \in Nat \ {0} /\ terms' \in Seq(Process)
  <2>0. nextToken \in Nat \ {0} /\ terms \in Seq(Process)
    BY DEF TypeOK
  <2>1. RegainLeadership(p) => Typed
    BY <1>0, <1>a, <1>b, <2>0, RowTypes DEF RegainLeadership
  <2>2. RemainFollower(p) => Typed
    BY <1>a, <1>b, <2>0 DEF RemainFollower
  <2>3. AcquireLeadership(p) => Typed
    BY <1>0, <1>b, <2>0, RowTypes DEF AcquireLeadership
  <2>4. Typed
    BY <1>7, <2>1, <2>2, <2>3 DEF TryAcquireLeadership
  <2> QED
    BY <1>7, <2>4 DEF TryAcquireLeadership, workVars, TypeOK
<1>8. ASSUME NEW p \in Process, PublishLeadership(p) PROVE TypeOK'
  BY <1>8 DEF PublishLeadership, dbVars, workVars, TypeOK
<1>9. ASSUME NEW p \in Process, HeartbeatFails(p) PROVE TypeOK'
  BY <1>9 DEF HeartbeatFails, dbVars, workVars, TypeOK
<1>10. ASSUME NEW p \in Process, BeginMaintenance(p) PROVE TypeOK'
  BY <1>10 DEF BeginMaintenance, dbVars, beatVars, TypeOK
<1>11. ASSUME NEW p \in Process, PruneExpiredMembers(p) PROVE TypeOK'
  BY <1>a, <1>11, RowTypes DEF PruneExpiredMembers, beatVars, TypeOK
<1>12. ASSUME NEW p \in Process, ReadFencingToken(p) PROVE TypeOK'
  BY <1>12 DEF ReadFencingToken, dbVars, beatVars, TypeOK
<1>13. ASSUME NEW p \in Process, AssertFence(p) PROVE TypeOK'
  BY <1>13 DEF AssertFence, dbVars, beatVars, TypeOK
<1>14. ASSUME NEW p \in Process, FenceRefused(p) PROVE TypeOK'
  BY <1>14 DEF FenceRefused, dbVars, beatVars, TypeOK
<1>15. ASSUME NEW p \in Process, CommitFencedWrite(p) PROVE TypeOK'
  BY <1>15 DEF CommitFencedWrite, dbVars, beatVars, TypeOK
<1>16. ASSUME NEW p \in Process, RollbackFencedWrite(p) PROVE TypeOK'
  BY <1>16 DEF RollbackFencedWrite, dbVars, beatVars, TypeOK
<1>17. CASE Tick
  BY <1>17 DEF Tick, dbVars, beatVars, workVars, TypeOK
<1>18. CASE UNCHANGED vars
  BY <1>18 DEF vars, dbVars, beatVars, workVars, TypeOK
<1> QED
  BY <1>1, <1>2, <1>3, <1>4, <1>5, <1>6, <1>7, <1>8, <1>9, <1>10, <1>11, <1>12,
     <1>13, <1>14, <1>15, <1>16, <1>17, <1>18 DEF Next, Heartbeat, Work

\* The variables of a running system keep their types (ha_coordination.rs,
\* ha_runtime.rs).
THEOREM TypeCorrect == Spec => []TypeOK
<1>1. Init => TypeOK
  BY RowTypes DEF Init, TypeOK, Phase
<1>2. TypeOK /\ [Next]_vars => TypeOK'
  BY TypeStep
<1> QED
  BY <1>1, <1>2, PTL DEF Spec
-----------------------------------------------------------------------------
\* Only a new grant changes the terms, the sequence or the owner of the leader row.
LEMMA TermFrame ==
  ASSUME TypeOK, [Next]_vars
  PROVE  \/ /\ terms' = terms /\ nextToken' = nextToken
            /\ leader'.incarnation = leader.incarnation
            /\ leader'.fencing_token = leader.fencing_token
         \/ \E p \in Process : TryAcquireLeadership(p) /\ AcquireLeadership(p)
<1> DEFINE Kept == /\ terms' = terms /\ nextToken' = nextToken
                   /\ leader'.incarnation = leader.incarnation
                   /\ leader'.fencing_token = leader.fencing_token
<1>0. leader \in [incarnation : Process \cup {NoProcess}, fencing_token : Nat, lease_until : Nat]
  BY DEF TypeOK, Leader
<1>1. ASSUME NEW p \in Process, Start(p) PROVE Kept
  BY <1>0, <1>1 DEF Start, RecoverStaleLeases
<1>2. ASSUME NEW p \in Process, RenewLeadership(p) PROVE Kept
  BY <1>0, <1>2 DEF RenewLeadership
<1>3. ASSUME NEW p \in Process, TryAcquireLeadership(p), ~AcquireLeadership(p) PROVE Kept
  BY <1>0, <1>3 DEF TryAcquireLeadership, RegainLeadership, RemainFollower
<1>4. ASSUME NEW p \in Process, PruneExpiredMembers(p) \/ Register(p) PROVE Kept
  BY <1>4 DEF PruneExpiredMembers, Register
<1>5. ASSUME NEW p \in Process,
             \/ Crash(p) \/ Shutdown(p) \/ BeginHeartbeat(p) \/ PublishLeadership(p)
             \/ HeartbeatFails(p) \/ BeginMaintenance(p) \/ ReadFencingToken(p)
             \/ AssertFence(p) \/ FenceRefused(p) \/ CommitFencedWrite(p)
             \/ RollbackFencedWrite(p)
      PROVE  Kept
  <2>1. UNCHANGED dbVars
    BY <1>5 DEF Crash, Shutdown, BeginHeartbeat, PublishLeadership, HeartbeatFails,
                BeginMaintenance, ReadFencingToken, AssertFence, FenceRefused,
                CommitFencedWrite, RollbackFencedWrite
  <2> QED
    BY <2>1 DEF dbVars
<1>6. Tick \/ UNCHANGED vars => Kept
  BY DEF Tick, vars, dbVars
<1> QED
  BY <1>1, <1>2, <1>3, <1>4, <1>5, <1>6 DEF Next, Heartbeat, Work

\* try_acquire_leadership is the only writer of the newest term.
LEMMA LeaderRowStep ==
  ASSUME TypeOK, LeaderRowIsNewestTerm, [Next]_vars
  PROVE  LeaderRowIsNewestTerm'
<1>0. terms \in Seq(Process) /\ nextToken \in Nat
  BY DEF TypeOK
<1>1. CASE terms' = terms /\ nextToken' = nextToken
           /\ leader'.incarnation = leader.incarnation
           /\ leader'.fencing_token = leader.fencing_token
  BY <1>1 DEF LeaderRowIsNewestTerm
<1>2. ASSUME NEW p \in Process, AcquireLeadership(p)
      PROVE  LeaderRowIsNewestTerm'
  BY <1>0, <1>2 DEF AcquireLeadership, LeaderRowIsNewestTerm
<1> QED
  BY <1>1, <1>2, TermFrame

\* "No term" is acceptable knowledge; the owner of the leader row may know it.
LEMMA TermFacts ==
  ASSUME TypeOK, LeaderRowIsNewestTerm, NEW p \in Process
  PROVE  /\ OwnTerm(p, 0) /\ LatestTerm(p, 0)
         /\ \A t \in Nat : LatestTerm(p, t) => OwnTerm(p, t)
         /\ leader.incarnation = p => LatestTerm(p, leader.fencing_token)
<1>1. terms \in Seq(Process) /\ NoProcess \notin Process
  BY ConstantsAssumption DEF TypeOK
<1> QED
  BY <1>1 DEF OwnTerm, LatestTerm, LeaderRowIsNewestTerm

\* A grant to p invalidates no knowledge: p itself believed in no term.
LEMMA KnowledgeAfterGrant ==
  ASSUME TypeOK, LeaderRowIsNewestTerm, KnownTerms,
         NEW p \in Process, TryAcquireLeadership(p), AcquireLeadership(p)
  PROVE  KnownTerms'
<1>0. /\ terms \in Seq(Process)
      /\ view \in [Process -> Nat] /\ reply \in [Process -> Nat] /\ held \in [Process -> Nat]
      /\ phase \in [Process -> Phase]
  BY DEF TypeOK
<1>1. /\ terms' = Append(terms, p) /\ Len(terms') = Len(terms) + 1
      /\ \A u \in 1 .. Len(terms) : terms'[u] = terms[u]
      /\ terms'[Len(terms) + 1] = p
  BY <1>0 DEF AcquireLeadership
<1>2. /\ view' = view /\ held' = held /\ view[p] = 0
      /\ reply' = [reply EXCEPT ![p] = Len(terms) + 1]
      /\ phase' = [phase EXCEPT ![p] = "replied"]
  BY DEF TryAcquireLeadership, AcquireLeadership, workVars, LeaderRowIsNewestTerm
<1>b. Len(terms) \in Nat /\ Len(terms') = Len(terms) + 1
  BY <1>0, <1>1
<1>a. ASSUME NEW q \in Process \ {p}, NEW t \in Nat, t # 0, LatestTerm(q, t)
      PROVE  /\ t <= Len(terms') /\ terms'[t] = q
             /\ \A u \in t + 1 .. Len(terms') : terms'[u] # q
  <2>1. t <= Len(terms) /\ terms[t] = q /\ \A u \in t + 1 .. Len(terms) : terms[u] # q
    BY <1>a DEF LatestTerm, OwnTerm
  <2>2. ASSUME NEW u \in t + 1 .. Len(terms') PROVE terms'[u] # q
    <3>1. CASE u = Len(terms) + 1
      BY <1>1, <3>1
    <3>2. CASE u # Len(terms) + 1
      <4>1. u \in t + 1 .. Len(terms) /\ u \in 1 .. Len(terms)
        BY <1>b, <3>2
      <4> QED
        BY <1>1, <2>1, <4>1
    <3> QED
      BY <3>1, <3>2
  <2>3. t \in 1 .. Len(terms)
    BY <1>a, <1>b, <2>1
  <2> QED
    BY <1>1, <1>b, <2>1, <2>2, <2>3
<1>3. ASSUME NEW q \in Process PROVE OwnTerm(q, held[q])'
  <2>1. held[q] \in Nat /\ OwnTerm(q, held[q])
    BY <1>0 DEF KnownTerms
  <2> QED
    BY <1>0, <1>1, <1>2, <2>1 DEF OwnTerm
<1>4. ASSUME NEW q \in Process PROVE LatestTerm(q, view[q])'
  <2>1. view[q] \in Nat /\ LatestTerm(q, view[q])
    BY <1>0 DEF KnownTerms
  <2>2. CASE q = p
    BY <1>2, <2>2 DEF OwnTerm, LatestTerm
  <2>3. CASE q # p
    <3>1. view[q] # 0 => /\ view[q] <= Len(terms') /\ terms'[view[q]] = q
                         /\ \A u \in view[q] + 1 .. Len(terms') : terms'[u] # q
      BY <1>a, <2>1, <2>3
    <3> QED
      BY <1>2, <3>1 DEF OwnTerm, LatestTerm
  <2> QED
    BY <2>2, <2>3
<1>5. ASSUME NEW q \in Process PROVE LatestTerm(q, reply[q])'
  <2>1. reply[q] \in Nat /\ LatestTerm(q, reply[q])
    BY <1>0 DEF KnownTerms
  <2>2. CASE q = p
    BY <1>0, <1>1, <1>2, <2>2 DEF OwnTerm, LatestTerm
  <2>3. CASE q # p
    <3>1. reply'[q] = reply[q]
      BY <1>0, <1>2, <2>3
    <3>2. reply[q] # 0 => /\ reply[q] <= Len(terms') /\ terms'[reply[q]] = q
                          /\ \A u \in reply[q] + 1 .. Len(terms') : terms'[u] # q
      BY <1>a, <2>1, <2>3
    <3> QED
      BY <3>1, <3>2 DEF OwnTerm, LatestTerm
  <2> QED
    BY <2>2, <2>3
<1>6. ASSUME NEW q \in Process PROVE (reply[q] # 0 => phase[q] = "replied")'
  BY <1>0, <1>2 DEF KnownTerms
<1> QED
  BY <1>3, <1>4, <1>5, <1>6 DEF KnownTerms

\* refresh, publish_leadership, clear_leadership and the business operations
\* only hand on what the process or the leader row knows already.
LEMMA KnowledgeFrame ==
  ASSUME TypeOK, [Next]_vars, NEW q \in Process,
         ~ \E p \in Process : TryAcquireLeadership(p) /\ AcquireLeadership(p),
         reply[q] # 0 => phase[q] = "replied"
  PROVE  /\ view'[q] \in {0, view[q], reply[q]}
         /\ held'[q] \in {0, held[q], view[q]}
         /\ \/ reply'[q] \in {0, reply[q], view[q]}
            \/ leader.incarnation = q /\ reply'[q] = leader.fencing_token
         /\ reply'[q] # 0 => phase'[q] = "replied"
<1> DEFINE Goal == /\ view'[q] \in {0, view[q], reply[q]}
                   /\ held'[q] \in {0, held[q], view[q]}
                   /\ \/ reply'[q] \in {0, reply[q], view[q]}
                      \/ leader.incarnation = q /\ reply'[q] = leader.fencing_token
                   /\ reply'[q] # 0 => phase'[q] = "replied"
<1>0. /\ view \in [Process -> Nat] /\ reply \in [Process -> Nat] /\ held \in [Process -> Nat]
      /\ phase \in [Process -> Phase]
  BY DEF TypeOK
<1>1. ASSUME NEW p \in Process, Start(p) \/ BeginHeartbeat(p) \/ Register(p) PROVE Goal
  BY <1>0, <1>1 DEF Start, BeginHeartbeat, Register, workVars
<1>2. ASSUME NEW p \in Process, Crash(p) \/ Shutdown(p) \/ HeartbeatFails(p) PROVE Goal
  BY <1>0, <1>2 DEF Crash, Shutdown, HeartbeatFails, workVars
<1>3. ASSUME NEW p \in Process, RenewLeadership(p) PROVE Goal
  BY <1>0, <1>3 DEF RenewLeadership, workVars
<1>4. ASSUME NEW p \in Process, TryAcquireLeadership(p) PROVE Goal
  BY <1>0, <1>4 DEF TryAcquireLeadership, RegainLeadership, RemainFollower, workVars
<1>5. ASSUME NEW p \in Process, PublishLeadership(p) PROVE Goal
  BY <1>0, <1>5 DEF PublishLeadership, workVars
<1>6. ASSUME NEW p \in Process, Work(p) PROVE Goal
  BY <1>0, <1>6 DEF Work, BeginMaintenance, PruneExpiredMembers, ReadFencingToken,
                    AssertFence, FenceRefused, CommitFencedWrite, RollbackFencedWrite, beatVars
<1>7. Tick \/ UNCHANGED vars => Goal
  BY DEF Tick, vars, beatVars, workVars
<1> QED
  BY <1>1, <1>2, <1>3, <1>4, <1>5, <1>6, <1>7 DEF Next, Heartbeat

\* No process ever knows a term that was not granted to it.
LEMMA KnownTermsStep ==
  ASSUME TypeOK, LeaderRowIsNewestTerm, KnownTerms, [Next]_vars
  PROVE  KnownTerms'
<1>1. CASE \E p \in Process : TryAcquireLeadership(p) /\ AcquireLeadership(p)
  BY <1>1, KnowledgeAfterGrant
<1>2. CASE ~ \E p \in Process : TryAcquireLeadership(p) /\ AcquireLeadership(p)
  <2>0. terms' = terms
    BY <1>2, TermFrame
  <2> SUFFICES ASSUME NEW q \in Process
               PROVE  /\ LatestTerm(q, view[q])' /\ LatestTerm(q, reply[q])'
                      /\ (reply[q] # 0 => phase[q] = "replied")'
                      /\ OwnTerm(q, held[q])'
    BY DEF KnownTerms
  <2>1. /\ LatestTerm(q, view[q]) /\ LatestTerm(q, reply[q]) /\ OwnTerm(q, held[q])
        /\ reply[q] # 0 => phase[q] = "replied"
    BY DEF KnownTerms
  <2>2. /\ OwnTerm(q, 0) /\ LatestTerm(q, 0) /\ OwnTerm(q, view[q])
        /\ leader.incarnation = q => LatestTerm(q, leader.fencing_token)
    BY <2>1, TermFacts DEF LatestTerm
  <2>3. /\ view'[q] \in {0, view[q], reply[q]}
        /\ held'[q] \in {0, held[q], view[q]}
        /\ \/ reply'[q] \in {0, reply[q], view[q]}
           \/ leader.incarnation = q /\ reply'[q] = leader.fencing_token
        /\ reply'[q] # 0 => phase'[q] = "replied"
    BY <1>2, <2>1, KnowledgeFrame
  <2>4. LatestTerm(q, view'[q]) /\ LatestTerm(q, reply'[q]) /\ OwnTerm(q, held'[q])
    BY <2>1, <2>2, <2>3
  <2> QED
    BY <2>0, <2>3, <2>4 DEF LatestTerm, OwnTerm
<1> QED
  BY <1>1, <1>2

\* While a fenced transaction is open, its row locks keep both rows in place.
LEMMA OpenTransactionsStep ==
  ASSUME TypeOK, OpenTransactions, [Next]_vars
  PROVE  OpenTransactions'
<1>0. /\ tx \in [Process -> BOOLEAN] /\ held \in [Process -> Nat]
      /\ members \in [Instance -> [incarnation : Process \cup {NoProcess}, lease_until : Nat]]
      /\ InstanceOf \in [Process -> Instance]
  BY ConstantsAssumption DEF TypeOK, Member
<1>1. ASSUME NEW q \in Process, tx[q], tx'[q]
      PROVE  /\ leader'.incarnation = leader.incarnation
             /\ leader'.fencing_token = leader.fencing_token
  BY <1>1, TermFrame DEF TryAcquireLeadership, LeaderRowLocked
<1>2. ASSUME NEW q \in Process, tx[q], tx'[q]
      PROVE  members'[InstanceOf[q]].incarnation = members[InstanceOf[q]].incarnation
  <2> DEFINE i == InstanceOf[q]
  <2>1. i \in Instance /\ MemberRowLocked(i)
    BY <1>0, <1>2 DEF MemberRowLocked
  <2>2. ASSUME NEW p \in Process, Start(p) PROVE members'[i].incarnation = members[i].incarnation
    BY <1>0, <2>1, <2>2 DEF Start, RecoverStaleLeases
  <2>3. ASSUME NEW p \in Process, Register(p) PROVE members'[i] = members[i]
    BY <1>0, <2>1, <2>3 DEF Register
  <2>4. ASSUME NEW p \in Process, PruneExpiredMembers(p) PROVE members'[i] = members[i]
    BY <1>0, <2>1, <2>4 DEF PruneExpiredMembers
  <2>5. ASSUME NEW p \in Process,
               \/ Crash(p) \/ Shutdown(p) \/ BeginHeartbeat(p) \/ RenewLeadership(p)
               \/ TryAcquireLeadership(p) \/ PublishLeadership(p) \/ HeartbeatFails(p)
               \/ BeginMaintenance(p) \/ ReadFencingToken(p) \/ AssertFence(p)
               \/ FenceRefused(p) \/ CommitFencedWrite(p) \/ RollbackFencedWrite(p)
        PROVE  members' = members
    BY <2>5 DEF Crash, Shutdown, BeginHeartbeat, RenewLeadership, TryAcquireLeadership,
                PublishLeadership, HeartbeatFails, BeginMaintenance, ReadFencingToken,
                AssertFence, FenceRefused, CommitFencedWrite, RollbackFencedWrite, dbVars
  <2>6. Tick \/ UNCHANGED vars => members' = members
    BY DEF Tick, vars, dbVars
  <2> QED
    BY <2>2, <2>3, <2>4, <2>5, <2>6 DEF Next, Heartbeat, Work
<1>3. ASSUME NEW q \in Process, tx'[q]
      PROVE  \/ tx[q] /\ held'[q] = held[q]
             \/ AssertFence(q)
  <2>1. ASSUME NEW p \in Process,
               Start(p) \/ Shutdown(p) \/ Heartbeat(p) \/ HeartbeatFails(p)
        PROVE  UNCHANGED workVars
    BY <2>1 DEF Start, Shutdown, Heartbeat, BeginHeartbeat, Register, RenewLeadership,
                TryAcquireLeadership, PublishLeadership, HeartbeatFails
  <2>2. ASSUME NEW p \in Process, Crash(p) PROVE tx[q] /\ held'[q] = held[q]
    BY <1>0, <1>3, <2>2 DEF Crash
  <2>3. ASSUME NEW p \in Process, BeginMaintenance(p) \/ PruneExpiredMembers(p)
        PROVE  tx[q] /\ held'[q] = held[q]
    BY <1>3, <2>3 DEF BeginMaintenance, PruneExpiredMembers
  <2>4. ASSUME NEW p \in Process, ReadFencingToken(p)
        PROVE  tx[q] /\ held'[q] = held[q]
    BY <1>0, <1>3, <2>4 DEF ReadFencingToken, OpenTransactions
  <2>5. ASSUME NEW p \in Process, AssertFence(p)
        PROVE  AssertFence(q) \/ (tx[q] /\ held'[q] = held[q])
    BY <1>0, <1>3, <2>5 DEF AssertFence
  <2>6. ASSUME NEW p \in Process, FenceRefused(p)
        PROVE  tx[q] /\ held'[q] = held[q]
    BY <1>0, <1>3, <2>6 DEF FenceRefused
  <2>7. ASSUME NEW p \in Process, CommitFencedWrite(p) \/ RollbackFencedWrite(p)
        PROVE  tx[q] /\ held'[q] = held[q]
    BY <1>0, <1>3, <2>7 DEF CommitFencedWrite, RollbackFencedWrite
  <2>8. Tick \/ UNCHANGED vars => UNCHANGED workVars
    BY DEF Tick, vars
  <2>9. UNCHANGED workVars => tx[q] /\ held'[q] = held[q]
    BY <1>3 DEF workVars
  <2> QED
    BY <2>1, <2>2, <2>3, <2>4, <2>5, <2>6, <2>7, <2>8, <2>9 DEF Next, Work
<1>4. ASSUME NEW q \in Process, AssertFence(q)
      PROVE  /\ held'[q] # 0 /\ leader'.incarnation = q
             /\ leader'.fencing_token = held'[q]
             /\ members'[InstanceOf[q]].incarnation = q
  BY <1>4 DEF AssertFence, FencePasses, MemberActive, dbVars
<1>5. ASSUME NEW q \in Process, tx'[q]
      PROVE  /\ held'[q] # 0 /\ leader'.incarnation = q
             /\ leader'.fencing_token = held'[q]
             /\ members'[InstanceOf[q]].incarnation = q
  <2>1. CASE tx[q] /\ held'[q] = held[q]
    BY <1>1, <1>2, <1>5, <2>1 DEF OpenTransactions
  <2> QED
    BY <1>3, <1>4, <1>5, <2>1
<1> QED
  BY <1>5 DEF OpenTransactions

\* The last committed write, and the order of writes.
LEMMA LastWriteStep ==
  ASSUME IInv, [Next]_vars
  PROVE  lastWrite' >= lastWrite /\ lastWrite' <= Len(terms')
<1>0. /\ lastWrite \in Nat /\ lastWrite <= Len(terms) /\ terms \in Seq(Process)
      /\ leader.fencing_token = Len(terms)
  BY DEF IInv, TypeOK, LeaderRowIsNewestTerm
<1>1. Len(terms') >= Len(terms)
  <2>1. ASSUME NEW p \in Process, AcquireLeadership(p) PROVE Len(terms') >= Len(terms)
    BY <1>0, <2>1 DEF AcquireLeadership
  <2> QED
    BY <1>0, <2>1, TermFrame DEF IInv
<1>2. ASSUME NEW p \in Process, CommitFencedWrite(p)
      PROVE  lastWrite' = Len(terms) /\ terms' = terms
  BY <1>0, <1>2 DEF CommitFencedWrite, IInv, OpenTransactions, dbVars
<1>3. ASSUME NEW p \in Process,
             Start(p) \/ Crash(p) \/ Shutdown(p) \/ Heartbeat(p) \/ HeartbeatFails(p)
      PROVE  lastWrite' = lastWrite
  BY <1>3 DEF Start, Crash, Shutdown, Heartbeat, BeginHeartbeat, Register, RenewLeadership,
              TryAcquireLeadership, PublishLeadership, HeartbeatFails, workVars
<1>4. ASSUME NEW p \in Process,
             \/ BeginMaintenance(p) \/ PruneExpiredMembers(p) \/ ReadFencingToken(p)
             \/ AssertFence(p) \/ FenceRefused(p) \/ RollbackFencedWrite(p)
      PROVE  lastWrite' = lastWrite
  BY <1>4 DEF BeginMaintenance, PruneExpiredMembers, ReadFencingToken, AssertFence,
              FenceRefused, RollbackFencedWrite
<1>5. Tick \/ UNCHANGED vars => lastWrite' = lastWrite
  BY DEF Tick, vars, workVars
<1>6. lastWrite' = lastWrite \/ (lastWrite' = Len(terms) /\ terms' = terms)
  BY <1>2, <1>3, <1>4, <1>5 DEF Next, Work
<1>7. Len(terms) \in Nat /\ Len(terms') \in Nat
  BY <1>0, TypeStep DEF IInv, TypeOK
<1> QED
  BY <1>0, <1>1, <1>6, <1>7

-----------------------------------------------------------------------------
\* The strengthened invariant holds initially and is kept by every step.
THEOREM Inductive == Spec => []IInv
<1>1. Init => IInv
  <2> SUFFICES ASSUME Init PROVE IInv
    OBVIOUS
  <2>1. TypeOK
    BY RowTypes DEF Init, TypeOK, Phase
  <2>2. LeaderRowIsNewestTerm
    BY DEF Init, LeaderRowIsNewestTerm, NoLeader
  <2>3. KnownTerms
    BY DEF Init, KnownTerms, LatestTerm, OwnTerm
  <2>4. OpenTransactions
    BY DEF Init, OpenTransactions
  <2> QED
    BY <2>1, <2>2, <2>3, <2>4 DEF IInv, Init
<1>2. IInv /\ [Next]_vars => IInv'
  BY TypeStep, LeaderRowStep, KnownTermsStep, OpenTransactionsStep, LastWriteStep DEF IInv
<1> QED
  BY <1>1, <1>2, PTL DEF Spec

\* A transaction that passed its fence stays in the newest term until it ends.
THEOREM FencedTransactions == Spec => []FencedTxIsNewestTerm
<1>1. IInv => FencedTxIsNewestTerm
  <2> SUFFICES ASSUME IInv, NEW p \in Process, tx[p]
               PROVE  held[p] = nextToken - 1 /\ terms[held[p]] = p
    BY DEF FencedTxIsNewestTerm
  <2>1. /\ held[p] # 0 /\ leader.incarnation = p /\ leader.fencing_token = held[p]
        /\ nextToken = Len(terms) + 1 /\ leader.fencing_token = Len(terms)
        /\ terms \in Seq(Process)
    BY DEF IInv, OpenTransactions, LeaderRowIsNewestTerm, TypeOK
  <2>2. leader.incarnation = terms[Len(terms)]
    BY <2>1 DEF IInv, LeaderRowIsNewestTerm
  <2> QED
    BY <2>1, <2>2
<1> QED
  BY <1>1, Inductive, PTL

\* A transaction that passed its fence keeps its incarnation registered.
THEOREM FencedMembership == Spec => []FencedTxKeepsMembership
<1>1. IInv => FencedTxKeepsMembership
  BY DEF IInv, OpenTransactions, FencedTxKeepsMembership
<1> QED
  BY <1>1, Inductive, PTL

\* A process believes only in the latest of the terms granted to it.
THEOREM OwnLatestTerm == Spec => []BelievesOwnLatestTerm
<1>1. IInv => BelievesOwnLatestTerm
  <2> SUFFICES ASSUME IInv, NEW p \in Process, view[p] # 0
               PROVE  /\ view[p] < nextToken
                      /\ terms[view[p]] = p
                      /\ \A t \in view[p] + 1 .. nextToken - 1 : terms[t] # p
    BY DEF BelievesOwnLatestTerm
  <2>1. LatestTerm(p, view[p]) /\ nextToken = Len(terms) + 1
    BY DEF IInv, KnownTerms, LeaderRowIsNewestTerm
  <2>2. Len(terms) \in Nat /\ view[p] \in Nat /\ nextToken - 1 = Len(terms)
    BY <2>1 DEF IInv, TypeOK
  <2> QED
    BY <2>1, <2>2 DEF LatestTerm, OwnTerm
<1> QED
  BY <1>1, Inductive, PTL

\* Committed fenced writes never go back to an older term.
THEOREM WriteOrder == Spec => WritesInTermOrder
<1>1. IInv /\ [Next]_vars => [lastWrite' >= lastWrite]_vars
  BY LastWriteStep
<1> QED
  BY <1>1, Inductive, PTL DEF Spec, WritesInTermOrder

\* Leadership changes hands only when a lease of the old leader is over.
THEOREM TakeoverAfterExpiry == Spec => NoEarlyTakeover
<1>1. ASSUME TypeOK, [Next]_vars,
             leader'.incarnation # leader.incarnation, leader.incarnation # NoProcess
      PROVE  2 * leader.lease_until <= clock + 1 \/ ~MemberActive(leader.incarnation)
  <2>1. PICK p \in Process : AcquireLeadership(p)
    BY <1>1, TermFrame
  <2>2. leader.lease_until <= Now \/ ~MemberActive(leader.incarnation)
    <3>1. leader.lease_until \in Nat /\ Now \in Nat
      BY <1>1, NowBounds DEF TypeOK, Leader
    <3> QED
      BY <1>1, <2>1, <3>1 DEF AcquireLeadership, LeaderHolds
  <2>3. leader.lease_until \in Nat /\ clock \in Nat /\ Now \in Nat /\ 2 * Now <= clock + 1
    BY <1>1, NowBounds DEF TypeOK, Leader
  <2> QED
    BY <2>2, <2>3
<1>2. TypeOK /\ [Next]_vars =>
        [leader'.incarnation # leader.incarnation /\ leader.incarnation # NoProcess
           => \/ 2 * leader.lease_until <= clock + 1
              \/ ~MemberActive(leader.incarnation)]_vars
  BY <1>1
<1> QED
  BY <1>2, TypeCorrect, PTL DEF Spec, NoEarlyTakeover

\* An incarnation is replaced or pruned only when its member lease is over.
THEOREM ReplacementAfterExpiry == Spec => NoEarlyReplacement
<1>1. ASSUME TypeOK, [Next]_vars, NEW i \in Instance,
             members'[i].incarnation # members[i].incarnation,
             members[i].incarnation # NoProcess
      PROVE  2 * members[i].lease_until <= clock + 1
  <2>0. /\ members \in [Instance -> [incarnation : Process \cup {NoProcess}, lease_until : Nat]]
        /\ InstanceOf \in [Process -> Instance]
        /\ clock \in Nat /\ Now \in Nat /\ 2 * Now <= clock + 1
    BY <1>1, NowBounds, ConstantsAssumption DEF TypeOK, Member
  <2>1. ASSUME NEW p \in Process, Start(p) PROVE FALSE
    BY <1>1, <2>0, <2>1 DEF Start, RecoverStaleLeases
  <2>2. ASSUME NEW p \in Process, Register(p) PROVE members[i].lease_until <= Now
    BY <1>1, <2>0, <2>2 DEF Register
  <2>3. ASSUME NEW p \in Process, PruneExpiredMembers(p)
        PROVE  2 * members[i].lease_until <= clock
    BY <1>1, <2>0, <2>3 DEF PruneExpiredMembers, Live
  <2>4. ASSUME NEW p \in Process,
               \/ Crash(p) \/ Shutdown(p) \/ BeginHeartbeat(p) \/ RenewLeadership(p)
               \/ TryAcquireLeadership(p) \/ PublishLeadership(p) \/ HeartbeatFails(p)
               \/ BeginMaintenance(p) \/ ReadFencingToken(p) \/ AssertFence(p)
               \/ FenceRefused(p) \/ CommitFencedWrite(p) \/ RollbackFencedWrite(p)
        PROVE  members' = members
    BY <2>4 DEF Crash, Shutdown, BeginHeartbeat, RenewLeadership, TryAcquireLeadership,
                PublishLeadership, HeartbeatFails, BeginMaintenance, ReadFencingToken,
                AssertFence, FenceRefused, CommitFencedWrite, RollbackFencedWrite, dbVars
  <2>5. Tick \/ UNCHANGED vars => members' = members
    BY DEF Tick, vars, dbVars
  <2>6. members[i].lease_until <= Now \/ 2 * members[i].lease_until <= clock
    BY <1>1, <2>1, <2>2, <2>3, <2>4, <2>5 DEF Next, Heartbeat, Work
  <2> QED
    BY <2>0, <2>6
<1>2. TypeOK /\ [Next]_vars =>
        [\A i \in Instance :
           members'[i].incarnation # members[i].incarnation /\ members[i].incarnation # NoProcess
             => 2 * members[i].lease_until <= clock + 1]_vars
  BY <1>1
<1> QED
  BY <1>2, TypeCorrect, PTL DEF Spec, NoEarlyReplacement

-----------------------------------------------------------------------------
\* The leases, clocks and row locks implement the promise of FencedLeadership.
THEOREM Refinement == Spec => ImplementsFencing
<1> USE DEF Promise!vars
<1>1. Init => Promise!Init
  BY DEF Init, NoLeader, FenceOpen, Promise!Init
<1>2. ASSUME IInv, [Next]_vars
      PROVE  [Promise!Next]_(Promise!vars)
  <2>0. /\ view \in [Process -> Nat] /\ terms \in Seq(Process) /\ lastWrite \in Nat
    BY <1>2 DEF IInv, TypeOK
  \* Steps that only move rows or the clock: the fence may open or close.
  <2>1. ASSUME terms' = terms, view' = view, lastWrite' = lastWrite
        PROVE  [Promise!Next]_(Promise!vars)
    <3>1. CASE terms # <<>>
      <4>1. FenceOpen' \in BOOLEAN
        BY DEF FenceOpen
      <4> QED
        BY <2>1, <3>1, <4>1 DEF Promise!Next, Promise!Reopen
    <3>2. CASE terms = <<>>
      <4>1. leader.incarnation = NoProcess /\ leader'.incarnation = NoProcess
        BY <1>2, <2>1, <3>2, LeaderRowStep DEF IInv, LeaderRowIsNewestTerm
      <4> QED
        BY <2>1, <4>1 DEF FenceOpen
    <3> QED
      BY <3>1, <3>2
  \* Steps that only change what one process believes.
  <2>2. ASSUME NEW p \in Process, UNCHANGED <<clock, members, leader, terms, lastWrite>>,
               NEW t \in Nat, LatestTerm(p, t), view' = [view EXCEPT ![p] = t]
        PROVE  Promise!Next
    <3>1. FenceOpen' = FenceOpen
      BY <2>2 DEF FenceOpen, FencePasses, MemberActive, Live
    <3>2. t \in 0 .. Len(terms) /\ Promise!LastTermOrNone(p, t)
      BY <2>0, <2>2 DEF LatestTerm, OwnTerm, Promise!LastTermOrNone
    <3>3. Promise!Believe(p)
      BY <2>2, <3>1, <3>2 DEF Promise!Believe
    <3> QED
      BY <3>3 DEF Promise!Next
  <2>3. ASSUME NEW p \in Process, Start(p) \/ BeginHeartbeat(p) \/ Register(p)
                                 \/ RenewLeadership(p) \/ BeginMaintenance(p)
                                 \/ PruneExpiredMembers(p) \/ ReadFencingToken(p)
                                 \/ AssertFence(p) \/ FenceRefused(p) \/ RollbackFencedWrite(p)
        PROVE  terms' = terms /\ view' = view /\ lastWrite' = lastWrite
    BY <2>3 DEF Start, BeginHeartbeat, Register, RenewLeadership, BeginMaintenance,
                PruneExpiredMembers, ReadFencingToken, AssertFence, FenceRefused,
                RollbackFencedWrite, dbVars, beatVars, workVars
  <2>4. ASSUME NEW p \in Process, Crash(p) \/ Shutdown(p) \/ HeartbeatFails(p)
        PROVE  Promise!Next
    <3>1. /\ UNCHANGED <<clock, members, leader, terms, lastWrite>>
          /\ view' = [view EXCEPT ![p] = 0]
      BY <2>4 DEF Crash, Shutdown, HeartbeatFails, dbVars, workVars
    <3>2. LatestTerm(p, 0)
      BY DEF LatestTerm, OwnTerm
    <3> QED
      BY <2>2, <3>1, <3>2
  <2>5. ASSUME NEW p \in Process, PublishLeadership(p)
        PROVE  Promise!Next
    <3>1. /\ UNCHANGED <<clock, members, leader, terms, lastWrite>>
          /\ view' = [view EXCEPT ![p] = reply[p]]
      BY <2>5 DEF PublishLeadership, dbVars, workVars
    <3>2. LatestTerm(p, reply[p]) /\ reply[p] \in Nat
      BY <1>2 DEF IInv, KnownTerms, TypeOK
    <3> QED
      BY <2>2, <3>1, <3>2
  <2>6. ASSUME NEW p \in Process, TryAcquireLeadership(p), ~AcquireLeadership(p)
        PROVE  terms' = terms /\ view' = view /\ lastWrite' = lastWrite
    BY <2>6 DEF TryAcquireLeadership, RegainLeadership, RemainFollower, workVars
  <2>7. ASSUME NEW p \in Process, TryAcquireLeadership(p), AcquireLeadership(p)
        PROVE  Promise!Next
    <3>1. terms' = Append(terms, p) /\ view' = view /\ lastWrite' = lastWrite
      BY <2>7 DEF TryAcquireLeadership, AcquireLeadership, workVars
    <3>2. /\ leader' = [incarnation |-> p, fencing_token |-> nextToken,
                        lease_until |-> Now + LeaderLease]
          /\ members' = members /\ clock' = clock /\ MemberActive(p)
      BY <2>7 DEF TryAcquireLeadership, AcquireLeadership
    <3>3. Live(Now + LeaderLease)
      <4>1. TypeOK /\ clock \in Nat /\ LeaderLease \in Nat /\ 1 <= LeaderLease
        BY <1>2, ConstantsAssumption DEF IInv, TypeOK
      <4>2. Now \in Nat /\ clock <= 2 * Now + 1
        BY <4>1, NowBounds
      <4> QED
        BY <4>1, <4>2 DEF Live
    <3>4. FenceOpen' = TRUE
      <4>1. leader'.incarnation = p /\ leader'.incarnation # NoProcess
        BY <3>2, ConstantsAssumption
      <4>2. Live(leader.lease_until)'
        BY <3>2, <3>3 DEF Live
      <4>3. MemberActive(p)'
        BY <3>2 DEF MemberActive, Live
      <4> QED
        BY <4>1, <4>2, <4>3 DEF FenceOpen, FencePasses, MemberActive
    <3>5. Promise!Grant(p)
      BY <2>7, <3>1, <3>4 DEF Promise!Grant, TryAcquireLeadership
    <3> QED
      BY <3>5 DEF Promise!Next
  <2>8. ASSUME NEW p \in Process, CommitFencedWrite(p)
        PROVE  Promise!Next
    <3>1. UNCHANGED <<clock, members, leader, terms, view>>
      BY <2>8 DEF CommitFencedWrite, dbVars, beatVars
    <3>2. lastWrite' = Len(terms) /\ terms # <<>>
      BY <1>2, <2>8, ConstantsAssumption
         DEF CommitFencedWrite, IInv, OpenTransactions, LeaderRowIsNewestTerm
    <3>3. FenceOpen' = FenceOpen
      BY <3>1 DEF FenceOpen, FencePasses, MemberActive, Live
    <3> QED
      BY <3>1, <3>2, <3>3 DEF Promise!Next, Promise!Write
  <2>9. Tick \/ UNCHANGED vars => terms' = terms /\ view' = view /\ lastWrite' = lastWrite
    BY DEF Tick, vars, dbVars, beatVars, workVars
  <2> QED
    BY <1>2, <2>1, <2>3, <2>4, <2>5, <2>6, <2>7, <2>8, <2>9 DEF Next, Heartbeat, Work
<1> QED
  BY <1>1, <1>2, Inductive, PTL DEF Spec, ImplementsFencing, Promise!Spec
=============================================================================
