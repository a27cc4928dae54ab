------------------------ MODULE PublicPortLeaseProofs ------------------------
(***************************************************************************)
(* Proofs about PublicPortLease, for any processes, any registrations and  *)
(* any number of terms, and about TunnelRegistry, for any policies, keys   *)
(* and sessions of any kind of tunnel.                                     *)
(***************************************************************************)
EXTENDS PublicPortLease, TunnelRegistry, TLAPS

\* A process that believes in a term believes in the last one it was granted
\* (a term is granted only to a process without a belief).
BeliefIsLastTerm ==
  \A p \in Process :
    /\ view[p] \in 0 .. Len(terms)
    /\ view[p] # 0 => terms[view[p]] = p
    /\ view[p] # 0 => \A u \in 1 .. Len(terms) : terms[u] = p => u <= view[p]

\* The two tokens of a registration are terms of its process, read in this order.
IsTermOf(p, t) == t \in 1 .. Len(terms) /\ terms[t] = p
TokensOf(r) ==
  /\ handler[r] \notin {"new", "ended"} => IsTermOf(ProcessOf[r], regToken[r])
  /\ handler[r] \notin {"new", "registering", "ended"} =>
       IsTermOf(ProcessOf[r], token[r]) /\ regToken[r] <= token[r]
  /\ listener[r] => IsTermOf(ProcessOf[r], token[r])
  /\ handler[r] \in {"checked", "serving"} => regToken[r] = token[r]
TokensAreTerms == \A r \in Registration : TokensOf(r)

\* A registration listens from bind on, one per process at a time.
ListenersAreSingle ==
  /\ \A r \in Registration :
       /\ handler[r] \in {"bound", "checked"} => listener[r]
       /\ handler[r] \in {"new", "registering", "acquiring", "leased"} => ~listener[r]
  /\ \A q, r \in Registration :
       listener[q] /\ listener[r] /\ ProcessOf[q] = ProcessOf[r] => q = r

\* An entry of the registry is a registration that serves, in its process.
EntryIsServing ==
  \A p \in Process :
    tunnels[p] # None => ProcessOf[tunnels[p]] = p /\ handler[tunnels[p]] = "serving"

IInv ==
  /\ TypeOK
  /\ BeliefIsLastTerm
  /\ TokensAreTerms
  /\ ListenersAreSingle
  /\ EntryIsServing
  /\ ListenerIsReachable

-----------------------------------------------------------------------------
\* what PortAssumption says of the constants
LEMMA PortConstants ==
  /\ ProcessOf \in [Registration -> Process]
  /\ None \notin Registration
  /\ LeaseTicks \in Nat \ {0}
BY PortAssumption, Zenon

\* TypeOK in three parts.
LeadershipType ==
  /\ terms \in Seq(Process) /\ open \in BOOLEAN
  /\ view \in [Process -> Nat] /\ lastWrite \in Nat
RowType ==
  row \in [holder : Registration \cup {None}, fencing_token : Nat, left : 0 .. LeaseTicks]
TunnelType ==
  /\ handler \in [Registration -> Handler]
  /\ regToken \in [Registration -> Nat]
  /\ token \in [Registration -> Nat]
  /\ listener \in [Registration -> BOOLEAN]
  /\ stop \in [Registration -> BOOLEAN]
  /\ guard \in [Registration -> Guard]
  /\ tunnels \in [Process -> Registration \cup {None}]
  /\ dead \subseteq Process

\* the type invariant in three parts
LEMMA TypeParts == /\ TypeOK <=> LeadershipType /\ RowType /\ TunnelType
                   /\ TypeOK' <=> LeadershipType' /\ RowType' /\ TunnelType'
BY Zenon DEF TypeOK, LeadershipType, RowType, TunnelType

\* the invariant holds before the first registration
LEMMA InitIInv == Init => IInv
<1> SUFFICES ASSUME Init PROVE IInv
  OBVIOUS
<1> USE PortConstants
<1>1. terms \in Seq(Process) /\ Len(terms) = 0
  <2>1. <<>> \in Seq(Process) /\ Len(<<>>) = 0
    OBVIOUS
  <2> QED BY <2>1, Zenon DEF Init, Leadership!Init
<1>2. open = FALSE /\ lastWrite = 0 /\ view = [p \in Process |-> 0]
  BY Zenon DEF Init, Leadership!Init
<1>3. LeadershipType
  BY <1>1, <1>2, Zenon DEF LeadershipType
<1>4. RowType
  <2>1. row = NoRow
    BY Zenon DEF Init
  <2> QED BY <2>1 DEF RowType, NoRow
<1>5. TunnelType
  BY Zenon DEF TunnelType, Handler, Guard, Init
<1>6. BeliefIsLastTerm
  <2>1. \A p \in Process : view[p] = 0
    BY <1>2, Zenon
  <2>2. 0 \in 0 .. Len(terms)
    BY <1>1
  <2> QED BY <2>1, <2>2, Zenon DEF BeliefIsLastTerm
<1>7. TokensAreTerms /\ ListenersAreSingle /\ EntryIsServing /\ ListenerIsReachable
  BY Zenon DEF TokensAreTerms, ListenersAreSingle, EntryIsServing, ListenerIsReachable, Init,
     TokensOf
<1> QED
  BY <1>3, <1>4, <1>5, <1>6, <1>7, TypeParts, Zenon DEF IInv

\* every step keeps the types
LEMMA TypeStep == TypeOK /\ [Next]_vars => TypeOK'
<1> SUFFICES ASSUME LeadershipType, RowType, TunnelType, [Next]_vars
             PROVE  LeadershipType' /\ RowType' /\ TunnelType'
  BY TypeParts, Zenon
<1> USE PortConstants DEF Set, Belief, leadershipVars, tunnelVars
<1>1. ASSUME NEW r \in Registration,
             \/ BeginRegistration(r) \/ ReadToken(r) \/ RejectRegistration(r)
             \/ Bind(r) \/ Revalidate(r) \/ RejectLeased(r) \/ DropListener(r) \/ Install(r)
             \/ CloseListener(r) \/ EndControl(r)
      PROVE  LeadershipType' /\ RowType' /\ TunnelType'
  <2>1. /\ UNCHANGED leadershipVars
        /\ UNCHANGED row
    BY <1>1, Zenon DEF BeginRegistration, ReadToken, RejectRegistration, Bind, Revalidate,
       RejectLeased, DropListener, Install, CloseListener, EndControl
  <2>2. TunnelType'
    <3> USE DEF TunnelType, Handler
    <3>1. CASE BeginRegistration(r)
      BY <3>1, Zenon DEF BeginRegistration, LeadershipType
    <3>2. CASE ReadToken(r)
      BY <3>2, Zenon DEF ReadToken, LeadershipType
    <3>3. CASE RejectRegistration(r) \/ Bind(r) \/ Revalidate(r) \/ CloseListener(r)
      BY <3>3, Zenon DEF RejectRegistration, Bind, Revalidate, CloseListener
    <3>4. CASE RejectLeased(r) \/ DropListener(r)
      BY <3>4, Zenon DEF RejectLeased, DropListener, Guard
    <3>6. CASE Install(r)
      BY <3>6, Zenon DEF Install, Guard
    <3>5. CASE EndControl(r)
      BY <3>5, Zenon DEF EndControl, RemoveTunnel
    <3> QED BY <1>1, <3>1, <3>2, <3>3, <3>4, <3>5, <3>6, Zenon
  <2> QED BY <2>1, <2>2, Zenon DEF LeadershipType, RowType
<1>2. ASSUME NEW r \in Registration,
             \/ AcquirePort(r) \/ RenewPort(r) \/ ReleasePort(r)
      PROVE  LeadershipType' /\ RowType' /\ TunnelType'
  <2>1. UNCHANGED leadershipVars
    BY <1>2, Zenon DEF AcquirePort, RenewPort, ReleasePort
  <2>2. RowType'
    BY <1>2 DEF AcquirePort, RenewPort, ReleasePort, RowType, NoRow, TunnelType
  <2>3. TunnelType'
    BY <1>2, Zenon DEF AcquirePort, RenewPort, ReleasePort, TunnelType, Handler, Guard
  <2> QED BY <2>1, <2>2, <2>3, Zenon DEF LeadershipType
<1>3. ASSUME NEW r \in Registration,
             \/ StartSupervisor(r) \/ LeadershipChanged(r) \/ RenewalLost(r)
             \/ Stopped(r) \/ ReleaseFails(r)
      PROVE  LeadershipType' /\ RowType' /\ TunnelType'
  BY <1>3, Zenon DEF StartSupervisor, LeadershipChanged, RenewalLost, Stopped, ReleaseFails,
     TunnelType, Guard, LeadershipType, RowType
<1>4. ASSUME NEW p \in Process, StopPublicPort(p)
      PROVE  LeadershipType' /\ RowType' /\ TunnelType'
  BY <1>4, Zenon DEF StopPublicPort, TunnelType, LeadershipType, RowType
<1>5. ASSUME NEW p \in Process, Crash(p)
      PROVE  LeadershipType' /\ RowType' /\ TunnelType'
  <2>1. LeadershipType' /\ RowType'
    BY <1>5, Zenon DEF Crash, LeadershipType, RowType
  <2>2. TunnelType'
    BY <1>5, Zenon DEF Crash, TunnelType, Local, Handler, Guard
  <2> QED BY <2>1, <2>2, Zenon
<1>6. ASSUME PruneExpired \/ Tick
      PROVE  LeadershipType' /\ RowType' /\ TunnelType'
  <2>1. RowType'
    BY <1>6 DEF PruneExpired, Tick, NoRow, RowType
  <2> QED BY <1>6, <2>1, Zenon DEF PruneExpired, Tick, LeadershipType, TunnelType
<1>7. ASSUME Environment
      PROVE  LeadershipType' /\ RowType' /\ TunnelType'
  <2>1. UNCHANGED <<row, tunnelVars>>
    BY <1>7, Zenon DEF Environment
  <2>2. LeadershipType'
    <3>1. ASSUME NEW p \in Process, Leadership!Grant(p) PROVE LeadershipType'
      BY <3>1 DEF Leadership!Grant, LeadershipType
    <3>2. ASSUME NEW p \in Process, Leadership!Believe(p) PROVE LeadershipType'
      BY <3>2 DEF Leadership!Believe, LeadershipType
    <3>3. ASSUME Leadership!Reopen PROVE LeadershipType'
      BY <3>3, Zenon DEF Leadership!Reopen, LeadershipType
    <3> QED BY <1>7, <3>1, <3>2, <3>3, Zenon DEF Environment
  <2> QED BY <2>1, <2>2, Zenon DEF RowType, TunnelType
<1>8. CASE UNCHANGED vars
  BY <1>8, Zenon DEF vars, LeadershipType, RowType, TunnelType
<1> QED
  BY <1>1, <1>2, <1>3, <1>4, <1>5, <1>6, <1>7, <1>8, Zenon DEF Next

-----------------------------------------------------------------------------
\* What the steps do to leadership: terms are appended, and a step that changes
\* a belief drops it or adopts the last term of the process.
LEMMA LeadershipStep ==
  ASSUME TypeOK, BeliefIsLastTerm, [Next]_vars
  PROVE  /\ Len(terms') \in Nat /\ Len(terms') >= Len(terms)
         /\ \A u \in 1 .. Len(terms) : terms'[u] = terms[u]
         /\ BeliefIsLastTerm'
<1>1. /\ terms \in Seq(Process) /\ Len(terms) \in Nat
      /\ view \in [Process -> Nat]
  BY DEF TypeOK
<1>2. CASE UNCHANGED <<terms, view>>
  BY <1>1, <1>2 DEF BeliefIsLastTerm
<1>3. ASSUME NEW p \in Process, Leadership!Grant(p)
      PROVE  /\ Len(terms') \in Nat /\ Len(terms') >= Len(terms)
             /\ \A u \in 1 .. Len(terms) : terms'[u] = terms[u]
             /\ BeliefIsLastTerm'
  <2>1. terms' = Append(terms, p) /\ view' = view /\ view[p] = 0
    BY <1>3, Zenon DEF Leadership!Grant
  <2>2. /\ Len(terms') = Len(terms) + 1 /\ terms'[Len(terms) + 1] = p
        /\ \A u \in 1 .. Len(terms) : terms'[u] = terms[u]
    BY <1>1, <2>1
  <2> QED BY <1>1, <2>1, <2>2 DEF BeliefIsLastTerm
<1>4. ASSUME NEW p \in Process, Leadership!Believe(p)
      PROVE  terms' = terms /\ BeliefIsLastTerm'
  <2>1. PICK t \in 0 .. Len(terms) : Leadership!LastTermOrNone(p, t) /\ view' = [view EXCEPT ![p] = t]
    BY <1>4, Zenon DEF Leadership!Believe
  <2>2. terms' = terms
    BY <1>4, Zenon DEF Leadership!Believe
  <2> QED BY <1>1, <2>1, <2>2 DEF BeliefIsLastTerm, Leadership!LastTermOrNone
<1>5. ASSUME NEW p \in Process, Crash(p)
      PROVE  terms' = terms /\ BeliefIsLastTerm'
  BY <1>1, <1>5 DEF Crash, Set, BeliefIsLastTerm
<1>6. ASSUME Leadership!Reopen PROVE UNCHANGED <<terms, view>>
  BY <1>6, Zenon DEF Leadership!Reopen
<1>7. ASSUME NEW r \in Registration,
             \/ BeginRegistration(r) \/ ReadToken(r) \/ AcquirePort(r) \/ RejectRegistration(r)
             \/ Bind(r) \/ Revalidate(r) \/ RejectLeased(r) \/ DropListener(r) \/ Install(r)
             \/ CloseListener(r) \/ EndControl(r)
             \/ StartSupervisor(r) \/ RenewPort(r) \/ LeadershipChanged(r) \/ RenewalLost(r)
             \/ Stopped(r) \/ ReleasePort(r) \/ ReleaseFails(r)
      PROVE  UNCHANGED <<terms, view>>
  BY <1>7, Zenon DEF BeginRegistration, ReadToken, AcquirePort, RejectRegistration, Bind, Revalidate,
     RejectLeased, DropListener, Install, CloseListener, EndControl, StartSupervisor, RenewPort,
     LeadershipChanged, RenewalLost, Stopped, ReleasePort, ReleaseFails, leadershipVars
<1>8. ASSUME \/ \E p \in Process : StopPublicPort(p)
             \/ PruneExpired \/ Tick \/ UNCHANGED vars
      PROVE  UNCHANGED <<terms, view>>
  BY <1>8, Zenon DEF StopPublicPort, PruneExpired, Tick, vars, leadershipVars
<1> QED
  BY <1>1, <1>2, <1>3, <1>4, <1>5, <1>6, <1>7, <1>8 DEF Next, Environment

-----------------------------------------------------------------------------
\* A registration whose token was read when the process believed in its last
\* term still finds it there if it finds any token of an earlier read there.
LEMMA TokensStep ==
  ASSUME TypeOK, BeliefIsLastTerm, TokensAreTerms, ListenersAreSingle, [Next]_vars
  PROVE  TokensAreTerms'
<1>1. \A p \in Process, t \in Nat : IsTermOf(p, t) => IsTermOf(p, t)'
  <2>1. /\ Len(terms') \in Nat /\ Len(terms') >= Len(terms)
        /\ \A u \in 1 .. Len(terms) : terms'[u] = terms[u]
    BY LeadershipStep, Zenon
  <2>2. Len(terms) \in Nat
    BY DEF TypeOK
  <2> QED BY <2>1, <2>2 DEF IsTermOf
<1>2. /\ handler \in [Registration -> Handler] /\ listener \in [Registration -> BOOLEAN]
      /\ regToken \in [Registration -> Nat] /\ token \in [Registration -> Nat]
      /\ \A r \in Registration : ProcessOf[r] \in Process /\ Belief(r) \in Nat
  BY PortConstants, Zenon DEF TypeOK, Belief
<1>3. ASSUME NEW r \in Registration, Belief(r) # 0
      PROVE  /\ IsTermOf(ProcessOf[r], Belief(r))
             /\ \A t \in Nat : IsTermOf(ProcessOf[r], t) => t <= Belief(r)
  BY <1>2, <1>3 DEF BeliefIsLastTerm, Belief, IsTermOf
<1>4. ASSUME NEW s \in Registration,
             \/ handler'[s] \in {handler[s], "ended"}
             \/ handler'[s] = "rejected" /\ handler[s] \in {"leased", "bound"},
             regToken'[s] = regToken[s], token'[s] = token[s], listener'[s] => listener[s]
      PROVE  TokensOf(s)'
  <2>1. /\ TokensOf(s) /\ ProcessOf[s] \in Process
        /\ regToken[s] \in Nat /\ token[s] \in Nat
    BY <1>2, Zenon DEF TokensAreTerms
  <2>2. /\ IsTermOf(ProcessOf[s], regToken[s]) => IsTermOf(ProcessOf[s], regToken[s])'
        /\ IsTermOf(ProcessOf[s], token[s]) => IsTermOf(ProcessOf[s], token[s])'
    BY <1>1, <1>4, <2>1, Zenon DEF IsTermOf
  <2> QED BY <1>4, <2>1, <2>2, Zenon DEF TokensOf
<1>5. ASSUME NEW r \in Registration,
             BeginRegistration(r) \/ ReadToken(r) \/ AcquirePort(r) \/ Bind(r) \/ Revalidate(r)
             \/ Install(r)
      PROVE  TokensAreTerms'
  <2>1. ASSUME NEW s \in Registration, s # r PROVE TokensOf(s)'
    <3>1. /\ handler'[s] = handler[s] /\ regToken'[s] = regToken[s] /\ token'[s] = token[s]
          /\ listener'[s] = listener[s]
      BY <1>2, <1>5, <2>1, Zenon DEF BeginRegistration, ReadToken, AcquirePort, Bind, Revalidate,
         Install, Set
    <3> QED BY <1>4, <3>1, Zenon
  <2>2. TokensOf(r)'
    <3> USE <1>1, <1>2, <1>3 DEF Set, TokensOf
    <3>1. CASE BeginRegistration(r)
      BY <3>1, Zenon DEF BeginRegistration, ListenersAreSingle
    <3>2. CASE ReadToken(r)
      BY <3>2, Zenon DEF ReadToken, TokensAreTerms, ListenersAreSingle
    <3>3. CASE AcquirePort(r) \/ Bind(r)
      BY <3>3, Zenon DEF AcquirePort, Bind, TokensAreTerms
    <3>4. CASE Revalidate(r)
      <4>1. /\ handler[r] = "bound" /\ Belief(r) = regToken[r]
            /\ IsTermOf(ProcessOf[r], regToken[r]) /\ IsTermOf(ProcessOf[r], token[r])
            /\ regToken[r] <= token[r]
        BY <3>4, Zenon DEF Revalidate, TokensAreTerms
      <4>2. Belief(r) # 0
        BY <4>1 DEF IsTermOf
      <4>3. token[r] <= regToken[r]
        BY <4>1, <4>2, Zenon
      <4>4. regToken[r] = token[r]
        BY <4>1, <4>3
      <4> QED BY <3>4, <4>4, Zenon DEF Revalidate, TokensAreTerms
    <3>5. CASE Install(r)
      BY <3>5, Zenon DEF Install, TokensAreTerms
    <3> QED BY <1>5, <3>1, <3>2, <3>3, <3>4, <3>5, Zenon
  <2> QED BY <2>1, <2>2, Zenon DEF TokensAreTerms
<1>6. ASSUME \A s \in Registration :
               /\ \/ handler'[s] \in {handler[s], "ended"}
                  \/ handler'[s] = "rejected" /\ handler[s] \in {"leased", "bound"}
               /\ regToken'[s] = regToken[s] /\ token'[s] = token[s]
               /\ listener'[s] => listener[s]
      PROVE  TokensAreTerms'
  BY <1>4, <1>6, Zenon DEF TokensAreTerms
<1>7. ASSUME NEW r \in Registration,
             \/ RejectRegistration(r) \/ RejectLeased(r) \/ DropListener(r)
             \/ EndControl(r)
      PROVE  TokensAreTerms'
  BY <1>2, <1>6, <1>7, Zenon DEF RejectRegistration, RejectLeased, DropListener, EndControl, Set
<1>8. ASSUME NEW p \in Process, Crash(p) PROVE TokensAreTerms'
  BY <1>2, <1>6, <1>8, Zenon DEF Crash
<1>9. CASE UNCHANGED <<handler, regToken, token>> /\ \A s \in Registration : listener'[s] => listener[s]
  BY <1>6, <1>9, Zenon
<1>10. ASSUME NEW r \in Registration,
              \/ CloseListener(r) \/ StartSupervisor(r) \/ RenewPort(r) \/ LeadershipChanged(r)
              \/ RenewalLost(r) \/ Stopped(r) \/ ReleasePort(r) \/ ReleaseFails(r)
       PROVE  UNCHANGED <<handler, regToken, token>> /\ \A s \in Registration : listener'[s] => listener[s]
  BY <1>2, <1>10, Zenon DEF CloseListener, StartSupervisor, RenewPort, LeadershipChanged, RenewalLost,
     Stopped, ReleasePort, ReleaseFails, tunnelVars, Set
<1>11. ASSUME \/ \E p \in Process : StopPublicPort(p)
              \/ PruneExpired \/ Tick \/ Environment \/ UNCHANGED vars
       PROVE  UNCHANGED <<handler, regToken, token, listener>>
  BY <1>11, Zenon DEF StopPublicPort, PruneExpired, Tick, Environment, vars, tunnelVars
<1> QED
  BY <1>5, <1>7, <1>8, <1>9, <1>10, <1>11, Zenon DEF Next

-----------------------------------------------------------------------------
\* bind succeeds only where no listener of the process is open, so the listeners
\* of a process stay single.
LEMMA ListenersStep ==
  ASSUME TypeOK, ListenersAreSingle, [Next]_vars
  PROVE  ListenersAreSingle'
<1>1. handler \in [Registration -> Handler] /\ listener \in [Registration -> BOOLEAN]
  BY Zenon DEF TypeOK
<1> USE <1>1 DEF Set
<1>2. CASE UNCHANGED <<handler, listener>>
  BY <1>2, Zenon DEF ListenersAreSingle
<1>3. ASSUME NEW r \in Registration, Bind(r) PROVE ListenersAreSingle'
  BY <1>3, Zenon DEF Bind, ListenersAreSingle
<1>4. ASSUME NEW r \in Registration, listener' = listener,
             \/ BeginRegistration(r) \/ ReadToken(r) \/ AcquirePort(r) \/ RejectRegistration(r)
             \/ Revalidate(r) \/ Install(r) \/ EndControl(r)
      PROVE  ListenersAreSingle'
  BY <1>4, Zenon DEF BeginRegistration, ReadToken, AcquirePort, RejectRegistration, Revalidate,
     Install, EndControl, ListenersAreSingle
<1>5. ASSUME NEW r \in Registration,
             \/ BeginRegistration(r) \/ ReadToken(r) \/ AcquirePort(r) \/ RejectRegistration(r)
             \/ Revalidate(r) \/ Install(r) \/ EndControl(r)
      PROVE  listener' = listener
  BY <1>5, Zenon DEF BeginRegistration, ReadToken, AcquirePort, RejectRegistration, Revalidate,
     Install, EndControl
<1>6. ASSUME NEW r \in Registration, \/ RejectLeased(r) \/ DropListener(r) \/ CloseListener(r)
      PROVE  ListenersAreSingle'
  BY <1>6, Zenon DEF RejectLeased, DropListener, CloseListener, ListenersAreSingle
<1>7. ASSUME NEW p \in Process, Crash(p) PROVE ListenersAreSingle'
  BY <1>7, Zenon DEF Crash, ListenersAreSingle
<1>8. ASSUME NEW r \in Registration,
             \/ StartSupervisor(r) \/ RenewPort(r) \/ LeadershipChanged(r)
             \/ RenewalLost(r) \/ Stopped(r) \/ ReleasePort(r) \/ ReleaseFails(r)
      PROVE  UNCHANGED <<handler, listener>>
  BY <1>8, Zenon DEF StartSupervisor, RenewPort, LeadershipChanged, RenewalLost,
     Stopped, ReleasePort, ReleaseFails, tunnelVars
<1>9. ASSUME \/ \E p \in Process : StopPublicPort(p)
             \/ PruneExpired \/ Tick \/ Environment \/ UNCHANGED vars
      PROVE  UNCHANGED <<handler, listener>>
  BY <1>9, Zenon DEF StopPublicPort, PruneExpired, Tick, Environment, vars, tunnelVars
<1> QED
  BY <1>2, <1>3, <1>4, <1>5, <1>6, <1>7, <1>8, <1>9, Zenon DEF Next

\* The registry: an entry is put in by the handler that goes on to serve it and
\* goes out with it, and a listener that leaves the registry was told to stop or
\* had been closed.
LEMMA RegistryStep ==
  ASSUME TypeOK, ListenersAreSingle, EntryIsServing, ListenerIsReachable, [Next]_vars
  PROVE  EntryIsServing' /\ ListenerIsReachable'
<1>1. /\ handler \in [Registration -> Handler] /\ listener \in [Registration -> BOOLEAN]
      /\ stop \in [Registration -> BOOLEAN]
      /\ tunnels \in [Process -> Registration \cup {None}]
      /\ \A r \in Registration : ProcessOf[r] \in Process /\ r # None
  BY PortConstants, Zenon DEF TypeOK
<1> USE <1>1 DEF Set, EntryIsServing, ListenerIsReachable
<1>2. ASSUME UNCHANGED <<handler, listener, tunnels>>,
             \A s \in Registration : stop[s] => stop'[s]
      PROVE  EntryIsServing' /\ ListenerIsReachable'
  BY <1>2, Zenon
<1>3. ASSUME NEW r \in Registration,
             \/ BeginRegistration(r) \/ ReadToken(r) \/ AcquirePort(r)
             \/ RejectRegistration(r) \/ Bind(r) \/ Revalidate(r) \/ RejectLeased(r)
             \/ DropListener(r)
      PROVE  EntryIsServing' /\ ListenerIsReachable'
  BY <1>3 DEF BeginRegistration, ReadToken, AcquirePort, RejectRegistration, Bind, Revalidate,
     RejectLeased, DropListener, ListenersAreSingle
<1>4. ASSUME NEW r \in Registration, Install(r)
      PROVE  EntryIsServing' /\ ListenerIsReachable'
  BY <1>4 DEF Install, ListenersAreSingle
<1>5. ASSUME NEW r \in Registration, CloseListener(r)
      PROVE  EntryIsServing' /\ ListenerIsReachable'
  BY <1>5, Zenon DEF CloseListener
<1>6. ASSUME NEW r \in Registration, EndControl(r)
      PROVE  EntryIsServing' /\ ListenerIsReachable'
  BY <1>6 DEF EndControl, RemoveTunnel
<1>7. ASSUME NEW p \in Process, StopPublicPort(p)
      PROVE  EntryIsServing' /\ ListenerIsReachable'
  BY <1>7, Zenon DEF StopPublicPort
<1>8. ASSUME NEW p \in Process, Crash(p)
      PROVE  EntryIsServing' /\ ListenerIsReachable'
  BY <1>8 DEF Crash, Local
<1>9. ASSUME NEW r \in Registration,
             \/ StartSupervisor(r) \/ RenewPort(r) \/ LeadershipChanged(r)
             \/ RenewalLost(r) \/ Stopped(r) \/ ReleasePort(r) \/ ReleaseFails(r)
      PROVE  UNCHANGED <<handler, listener, tunnels>>
             /\ \A s \in Registration : stop[s] => stop'[s]
  BY <1>9, Zenon DEF StartSupervisor, RenewPort, LeadershipChanged, RenewalLost,
     Stopped, ReleasePort, ReleaseFails, tunnelVars
<1>10. ASSUME PruneExpired \/ Tick \/ Environment \/ UNCHANGED vars
       PROVE  UNCHANGED <<handler, listener, tunnels, stop>>
  BY <1>10, Zenon DEF PruneExpired, Tick, Environment, vars, tunnelVars
<1> QED
  BY <1>2, <1>3, <1>4, <1>5, <1>6, <1>7, <1>8, <1>9, <1>10, Zenon DEF Next

-----------------------------------------------------------------------------
\* The invariant holds in every reachable state.
THEOREM PortInvariant == Spec => []IInv
<1>1. IInv /\ [Next]_vars => IInv'
  BY TypeStep, LeadershipStep, TokensStep, ListenersStep, RegistryStep, Zenon DEF IInv
<1> QED
  BY InitIInv, <1>1, PTL DEF Spec

\* However registrations, stops, lost renewals, changes of leadership and
\* crashes interleave, a listener that is installed and was not told to stop is
\* the registry entry of its process, so stop_public_port and stop_all find it,
\* the term it registered in is the term of its lease, and no other socket is
\* open for the port in that term (tcp_tunnel.rs, public_port_lease.rs).
THEOREM ListenerTracked == Spec => []ListenerIsTracked
<1>1. IInv => ListenerIsTracked
  BY Zenon DEF IInv, TokensAreTerms, TokensOf, IsTermOf, ListenersAreSingle, ListenerIsTracked,
     ListenerHasOneTerm, OneListenerPerTerm
<1> QED
  BY PortInvariant, <1>1, PTL
-----------------------------------------------------------------------------
(* Registrations of tunnels *)

TnPcs == {"idle", "reading", "attaching", "binding", "bound", "looking", "looked",
          "install", "control", "ended"}
TnAnyRows == [keys : SUBSET TnKeys, val : TnVals \cup {0}, on : BOOLEAN]
TnRecs == [pc : TnPcs, key : TnKeys \cup {""}, pol : TnPolicies \cup {""},
           seen : TnAnyRows, token : Nat, stop : BOOLEAN, open : BOOLEAN,
           missed : BOOLEAN]
TnAsks == [pc : {"idle", "commit", "stop"}, stops : BOOLEAN, pol : TnPolicies \cup {""},
           old : TnAnyRows, new : TnAnyRows]

TnTypeOK ==
    /\ tnRow \in [TnPolicies -> TnAnyRows]
    /\ tnTerm \in Nat /\ tnTerms \in Nat /\ tnTerm <= tnTerms
    /\ tnReg \in [TnSlots -> TnSessions \cup {""}]
    /\ tnS \in [TnSessions -> TnRecs]
    /\ tnH \in TnAsks

\* Who holds the lock while a registration decides.
TnLocked == \A r \in TnSessions : TnLockHeldBy(r) => tnH.pc = "idle"

\* A session past its reading of the policy: what it read was enabled and
\* has its key, in a term that was granted.
TnRead(r) ==
    /\ tnS[r].pol \in TnPolicies /\ tnS[r].key \in TnKeys
    /\ tnS[r].seen.on /\ tnS[r].key \in tnS[r].seen.keys
    /\ tnS[r].token # 0
TnReads ==
    \A r \in TnSessions :
        /\ tnS[r].token <= tnTerms
        /\ tnS[r].stop => tnS[r].pc \in {"control", "ended"}
        /\ tnS[r].pc \in {"reading", "looking"} => tnS[r].key \in TnKeys /\ tnS[r].token # 0
        /\ tnS[r].pc \in {"attaching", "binding", "bound", "looked", "install", "control"} =>
              TnRead(r)

\* In its own term what it read is what is stored, but for the request that
\* has committed and is about to stop it.
TnAgrees(r) ==
    tnS[r].token = tnTerm =>
        IF tnH.pc = "stop" /\ tnH.pol = tnS[r].pol THEN tnH.old = tnS[r].seen
        ELSE tnRow[tnS[r].pol] = tnS[r].seen
TnInstalling == \A r \in TnSessions : tnS[r].pc \in {"looked", "install"} => TnAgrees(r)
TnServing ==
    \A s \in TnSlots, r \in TnSessions : tnReg[s] = r =>
        /\ tnS[r].pc = "control" /\ s = TnSlot(tnS[r].pol, tnS[r].key)
        /\ ~tnS[r].stop /\ ~tnS[r].missed => TnAgrees(r)

\* The request read the row that the registrations of its policy read, and
\* enabling, which stops nothing, read a disabled one.
TnRequested ==
    /\ tnH.pc # "idle" /\ ~tnH.stops => ~tnH.old.on
    /\ tnH.pc # "idle" => tnH.pol \in TnPolicies
    /\ tnH.pc = "commit" =>
          \A s \in TnSlots, r \in TnSessions :
              /\ tnReg[s] = r
              /\ tnS[r].pol = tnH.pol /\ tnS[r].token = tnTerm
              /\ ~tnS[r].stop /\ ~tnS[r].missed
              => tnH.old = tnS[r].seen

\* The listener of a TCP port keeps a second registration out.
TnTcpKinds == {"tcp", "group"}
TnOneListener ==
    tnKind \in TnTcpKinds =>
        /\ \A q, r \in TnSessions :
              tnS[q].open /\ tnS[r].open /\ tnS[q].key = tnS[r].key => q = r
        /\ \A r \in TnSessions :
              /\ tnS[r].pc \notin {"looking", "looked"}
              /\ tnS[r].pc \in {"bound", "install"} => tnS[r].open
              /\ tnS[r].pc = "control" /\ ~tnS[r].stop => tnS[r].open

\* The inductive invariant of the registry.
TnIInv == /\ TnTypeOK /\ TnLocked /\ TnReads /\ TnInstalling /\ TnServing
          /\ TnRequested /\ TnOneListener /\ TnReachable

\* fields of policy rows
LEMMA TnRowFields ==
    /\ TnNoRow \in TnAnyRows /\ TnRows \subseteq TnAnyRows
    /\ \A w \in TnAnyRows : w.keys \subseteq TnKeys /\ w.on \in BOOLEAN
    /\ \A w \in TnAnyRows, b \in BOOLEAN : [w EXCEPT !.on = b] \in TnAnyRows
<1>1. TnNoRow \in TnAnyRows
  BY Zenon DEF TnNoRow, TnAnyRows
<1>2. TnRows \subseteq TnAnyRows
  <2> SUFFICES ASSUME NEW w \in TnRows PROVE w \in TnAnyRows
    OBVIOUS
  <2>1. /\ w = [keys |-> w.keys, val |-> w.val, on |-> w.on]
        /\ w.keys \in SUBSET TnKeys /\ w.val \in TnVals \cup {0} /\ w.on \in BOOLEAN
    BY Zenon DEF TnRows
  <2> QED BY <2>1, Zenon DEF TnAnyRows
<1>3. \A w \in TnAnyRows : w.keys \subseteq TnKeys /\ w.on \in BOOLEAN
  BY Zenon DEF TnAnyRows
<1>4. \A w \in TnAnyRows, b \in BOOLEAN : [w EXCEPT !.on = b] \in TnAnyRows
  BY SMT DEF TnAnyRows
<1> QED BY <1>1, <1>2, <1>3, <1>4, Zenon

\* fields of sessions
LEMMA TnRecFields ==
    ASSUME NEW n \in TnRecs
    PROVE  /\ n.pc \in TnPcs /\ n.key \in TnKeys \cup {""} /\ n.pol \in TnPolicies \cup {""}
           /\ n.seen \in TnAnyRows /\ n.token \in Nat
           /\ n.stop \in BOOLEAN /\ n.open \in BOOLEAN
BY Zenon DEF TnRecs

\* a session that has not started
LEMMA TnEmptySession ==
    /\ TnNoSession \in TnRecs
    /\ TnNoSession.pc = "idle" /\ TnNoSession.token = 0
    /\ TnNoSession.open = FALSE /\ TnNoSession.stop = FALSE
<1>1. "idle" \in TnPcs /\ "" \in TnKeys \cup {""} /\ "" \in TnPolicies \cup {""} /\ 0 \in Nat
  BY SMT DEF TnPcs
<1> QED BY <1>1, TnRowFields, Zenon DEF TnNoSession, TnRecs

\* fields of requests
LEMMA TnAskFields ==
    /\ TnNoRequest \in TnAsks /\ TnNoRequest.pc = "idle"
    /\ \A h \in TnAsks : /\ h.pc \in {"idle", "commit", "stop"} /\ h.stops \in BOOLEAN
                         /\ h.pol \in TnPolicies \cup {""}
                         /\ h.old \in TnAnyRows /\ h.new \in TnAnyRows
BY TnRowFields, Zenon DEF TnNoRequest, TnAsks

\* the registry is empty at first
LEMMA TnStarts == TnInit => TnIInv
<1> SUFFICES ASSUME TnInit PROVE TnIInv
  OBVIOUS
<1>0. /\ \A r \in TnSessions : tnS[r] = TnNoSession
      /\ \A s \in TnSlots : tnReg[s] = ""
      /\ tnH.pc = "idle"
  BY TnAskFields, Zenon DEF TnInit
<1>t. tnTerm = 1 /\ tnTerms = 1
  BY Zenon DEF TnInit
<1>1. TnTypeOK
  <2>1. tnRow \in [TnPolicies -> TnAnyRows]
    <3>1. TnStored \subseteq TnAnyRows
      BY TnAssumption, Zenon DEF TnAnyRows
    <3>2. tnRow \in [TnPolicies -> TnStored]
      BY Zenon DEF TnInit
    <3> QED BY <3>1, <3>2, SMT
  <2>2. tnReg \in [TnSlots -> TnSessions \cup {""}]
    BY Zenon DEF TnInit
  <2>3. tnS \in [TnSessions -> TnRecs] /\ tnH \in TnAsks
    BY TnEmptySession, TnAskFields, Zenon DEF TnInit
  <2>4. tnTerm \in Nat /\ tnTerms \in Nat /\ tnTerm <= tnTerms
    BY ONLY <1>t, SMT
  <2> QED BY <2>1, <2>2, <2>3, <2>4, Zenon DEF TnTypeOK
<1>6. \A r \in TnSessions : tnS[r].pc = "idle" /\ tnS[r].token = 0 /\ ~tnS[r].open /\ ~tnS[r].stop
  BY <1>0, TnEmptySession, Zenon
<1>2. TnLocked /\ TnInstalling
  BY <1>0, <1>6, Zenon DEF TnLocked, TnLockHeldBy, TnInstalling
<1>3. TnReads
  <2>1. 0 <= tnTerms
    BY ONLY <1>t, SMT
  <2> QED BY <1>6, <2>1, Zenon DEF TnReads
<1>4. TnServing /\ TnRequested
  BY <1>0, TnAssumption, Zenon DEF TnServing, TnRequested
<1>5. TnOneListener /\ TnReachable
  BY <1>6, SMT DEF TnOneListener, TnReachable
<1> QED BY <1>1, <1>2, <1>3, <1>4, <1>5, Zenon DEF TnIInv

\* What a session that is not being controlled must look like after a step.
TnSane(n, r) ==
    /\ n.pc # "control" /\ n.token <= tnTerms
    /\ n.stop => n.pc = "ended"
    /\ n.pc \in {"looking", "looked", "install"} => tnH.pc = "idle"
    /\ n.pc \in {"reading", "looking"} => n.key \in TnKeys /\ n.token # 0
    /\ n.pc \in {"attaching", "binding", "bound", "looked", "install"} =>
          /\ n.pol \in TnPolicies /\ n.key \in TnKeys
          /\ n.seen.on /\ n.key \in n.seen.keys /\ n.token # 0
    /\ n.pc \in {"looked", "install"} /\ n.token = tnTerm => tnRow[n.pol] = n.seen
    /\ tnKind \in TnTcpKinds =>
          /\ n.pc \notin {"looking", "looked"}
          /\ n.pc \in {"bound", "install"} => n.open
          /\ n.open => \A q \in TnSessions \ {r} : tnS[q].open => tnS[q].key # n.key

\* a session outside the registry that moves soundly keeps the invariant
LEMMA TnOneMoves ==
    ASSUME TnIInv, NEW r \in TnSessions, tnS' \in [TnSessions -> TnRecs],
           \A q \in TnSessions : q # r => tnS'[q] = tnS[q],
           UNCHANGED <<tnKind, tnRow, tnTerm, tnTerms, tnReg, tnH>>,
           tnS[r].pc # "control", TnSane(tnS'[r], r)
    PROVE  TnIInv'
<1> DEFINE n == tnS'[r]
<1>0. /\ TnTypeOK /\ TnLocked /\ TnReads /\ TnInstalling /\ TnServing
      /\ TnRequested /\ TnOneListener /\ TnReachable
  BY Zenon DEF TnIInv
<1>1. /\ tnKind' = tnKind /\ tnRow' = tnRow /\ tnTerm' = tnTerm /\ tnTerms' = tnTerms
      /\ tnReg' = tnReg /\ tnH' = tnH
  OBVIOUS
<1>2. TnTypeOK'
  BY <1>0, <1>1, Zenon DEF TnTypeOK, TnSlots
<1>4. \A s \in TnSlots, q \in TnSessions : tnReg[s] = q => q # r /\ tnS'[q] = tnS[q]
  BY <1>0, Zenon DEF TnServing
<1>5. n \in TnRecs /\ TnSane(n, r) /\ tnS'[r] = n
  OBVIOUS
<1> HIDE DEF n
<1>6. TnLocked'
  BY <1>0, <1>1, <1>5, SMT DEF TnLocked, TnLockHeldBy, TnSane
<1>7. TnReads'
  BY <1>0, <1>1, <1>5, SMTT(20) DEF TnReads, TnRead, TnSane
<1>8. TnInstalling'
  <2>1. ASSUME NEW q \in TnSessions, tnS'[q].pc \in {"looked", "install"}
        PROVE  TnAgrees(q)'
    <3>1. CASE q = r
      BY <1>1, <1>5, <2>1, <3>1, SMTT(20) DEF TnAgrees, TnSane
    <3>2. CASE q # r
      BY <1>0, <1>1, <2>1, <3>2, Zenon DEF TnAgrees, TnInstalling
    <3> QED BY <3>1, <3>2, Zenon
  <2> QED BY <2>1, Zenon DEF TnInstalling
<1>9. TnServing'
  <2> SUFFICES ASSUME NEW s \in TnSlots, NEW q \in TnSessions, tnReg[s] = q
               PROVE  /\ tnS'[q].pc = "control" /\ s = TnSlot(tnS'[q].pol, tnS'[q].key)
                      /\ ~tnS'[q].stop /\ ~tnS'[q].missed => TnAgrees(q)'
    BY <1>1, Zenon DEF TnServing, TnSlot, TnById, TnSlots
  <2>1. TnAgrees(q) => TnAgrees(q)'
    BY <1>1, <1>4, Zenon DEF TnAgrees
  <2> QED BY <1>0, <1>4, <2>1, Zenon DEF TnServing
<1>12. TnRequested'
  BY <1>0, <1>1, <1>4, ZenonT(40) DEF TnRequested, TnSlots
<1>10. TnOneListener'
  BY <1>0, <1>1, <1>5, SMTT(20) DEF TnOneListener, TnSane
<1>11. TnReachable'
  BY <1>0, <1>1, <1>5, SMTT(20) DEF TnReachable, TnRegistered, TnSlots, TnSane
<1> QED BY <1>2, <1>6, <1>7, <1>8, <1>9, <1>10, <1>11, <1>12, Zenon DEF TnIInv

\* the steps of a registration
LEMMA TnPcNames ==
    /\ "idle" \in TnPcs /\ "reading" \in TnPcs /\ "attaching" \in TnPcs /\ "binding" \in TnPcs
    /\ "bound" \in TnPcs /\ "looking" \in TnPcs /\ "looked" \in TnPcs /\ "install" \in TnPcs
    /\ "control" \in TnPcs /\ "ended" \in TnPcs
BY Zenon DEF TnPcs

\* a changed session leaves the others alone
LEMMA TnReplaced ==
    ASSUME tnS \in [TnSessions -> TnRecs], NEW r \in TnSessions, NEW n \in TnRecs,
           tnS' = [tnS EXCEPT ![r] = n]
    PROVE  /\ tnS' \in [TnSessions -> TnRecs] /\ tnS'[r] = n
           /\ \A q \in TnSessions : q # r => tnS'[q] = tnS[q]
BY Zenon

\* a session that goes on keeps what it knows
LEMMA TnGoes ==
    ASSUME tnS \in [TnSessions -> TnRecs], NEW r \in TnSessions, NEW x \in TnPcs,
           tnS' = [tnS EXCEPT ![r].pc = x]
    PROVE  /\ tnS' \in [TnSessions -> TnRecs]
           /\ \A q \in TnSessions : q # r => tnS'[q] = tnS[q]
           /\ tnS'[r].pc = x /\ tnS'[r].key = tnS[r].key /\ tnS'[r].pol = tnS[r].pol
           /\ tnS'[r].seen = tnS[r].seen /\ tnS'[r].token = tnS[r].token
           /\ tnS'[r].missed = tnS[r].missed
           /\ tnS'[r].stop = tnS[r].stop /\ tnS'[r].open = tnS[r].open
<1> DEFINE n == [tnS[r] EXCEPT !.pc = x]
<1>1. tnS' = [tnS EXCEPT ![r] = n] /\ tnS[r] \in TnRecs
  BY Zenon
<1>2. /\ n \in TnRecs
      /\ n.pc = x /\ n.key = tnS[r].key /\ n.pol = tnS[r].pol
      /\ n.seen = tnS[r].seen /\ n.token = tnS[r].token /\ n.missed = tnS[r].missed
      /\ n.stop = tnS[r].stop /\ n.open = tnS[r].open
  BY <1>1, Zenon DEF TnRecs
<1> HIDE DEF n
<1>3. tnS'[r] = n
  BY <1>1, <1>2, TnReplaced, Zenon
<1> QED BY <1>1, <1>2, <1>3, TnReplaced, Zenon

\* Everything but the sessions stays.
TnRestStays == UNCHANGED <<tnKind, tnRow, tnTerm, tnTerms, tnReg, tnH>>

\* the parts of the invariant
LEMMA TnParts ==
    ASSUME TnIInv
    PROVE  /\ TnTypeOK /\ TnLocked /\ TnReads /\ TnInstalling /\ TnServing
           /\ TnRequested /\ TnOneListener /\ TnReachable
           /\ tnS \in [TnSessions -> TnRecs] /\ tnTerm \in Nat /\ tnTerms \in Nat
           /\ tnTerm <= tnTerms /\ tnRow \in [TnPolicies -> TnAnyRows]
BY Zenon DEF TnIInv, TnTypeOK

\* a refused registration leaves no trace
LEMMA TnRejects ==
    ASSUME TnIInv, NEW r \in TnSessions, tnS[r].pc # "control", TnReject(r), TnRestStays
    PROVE  TnIInv'
<1>1. /\ tnS' \in [TnSessions -> TnRecs] /\ tnS'[r] = TnNoSession
      /\ \A q \in TnSessions : q # r => tnS'[q] = tnS[q]
  BY TnParts, TnEmptySession, TnReplaced, Zenon DEF TnReject
<1>2. 0 <= tnTerms
  BY TnParts, SMT
<1>3. TnSane(TnNoSession, r)
  BY <1>2, TnEmptySession, Zenon DEF TnSane
<1> QED BY <1>1, <1>3, TnOneMoves, Zenon DEF TnRestStays

\* A registration begins: for a public port, or under the lock for a route.
LEMMA TnBegins ==
    ASSUME TnIInv, NEW r \in TnSessions, NEW k \in TnKeys, TnRestStays,
           NEW x \in {"reading", "looking"},
           tnS[r].pc = "idle", tnTerm # 0,
           x = "looking" => tnH.pc = "idle" /\ tnKind \notin TnTcpKinds,
           tnS' = [tnS EXCEPT ![r] = [TnNoSession EXCEPT
                     !.pc = x, !.key = k, !.token = tnTerm]]
    PROVE  TnIInv'
<1> DEFINE n == [TnNoSession EXCEPT !.pc = x, !.key = k, !.token = tnTerm]
<1>1. n \in TnRecs /\ n.pc = x /\ n.key = k /\ n.token = tnTerm /\ n.open = FALSE /\ n.stop = FALSE
  <2>1. x \in TnPcs /\ tnTerm \in Nat
    BY TnPcNames, TnParts, Zenon
  <2> QED BY <2>1, TnRowFields, TnEmptySession, Zenon DEF TnNoSession, TnRecs
<1> HIDE DEF n
<1>2. /\ tnS' \in [TnSessions -> TnRecs] /\ tnS'[r] = n
      /\ \A q \in TnSessions : q # r => tnS'[q] = tnS[q]
  BY <1>1, TnParts, TnReplaced, Zenon DEF n
<1>3. TnSane(n, r)
  <2>1. n.token <= tnTerms /\ n.token # 0
    BY <1>1, TnParts, SMT
  <2> QED BY <1>1, <2>1, Zenon DEF TnSane
<1> QED BY <1>2, <1>3, TnOneMoves, Zenon DEF TnRestStays

\* The policy is read: enabled, with the key asked for.
LEMMA TnReadsRow ==
    ASSUME TnIInv, NEW r \in TnSessions, TnRestStays, NEW p \in TnRuntimePolicy(tnS[r].key),
           NEW x \in {"attaching", "binding", "looked"},
           tnS[r].pc \in {"reading", "looking"}, x = "looked" => tnS[r].pc = "looking",
           tnS' = [tnS EXCEPT ![r] = [@ EXCEPT !.pc = x, !.pol = p, !.seen = tnRow[p]]]
    PROVE  TnIInv'
<1> DEFINE n == [tnS[r] EXCEPT !.pc = x, !.pol = p, !.seen = tnRow[p]]
<1>0. /\ p \in TnPolicies /\ tnRow[p] \in TnAnyRows /\ tnRow[p].on
      /\ tnS[r].key \in tnRow[p].keys /\ x \in TnPcs /\ tnS[r] \in TnRecs
  BY TnParts, TnPcNames, Zenon DEF TnRuntimePolicy
<1>1. tnS' = [tnS EXCEPT ![r] = n]
  BY Zenon
<1>2. /\ n \in TnRecs
      /\ n.pc = x /\ n.key = tnS[r].key /\ n.pol = p /\ n.seen = tnRow[p]
      /\ n.token = tnS[r].token
      /\ n.missed = tnS[r].missed /\ n.open = tnS[r].open /\ n.stop = tnS[r].stop
  BY <1>0, Zenon DEF TnRecs
<1> HIDE DEF n
<1>3. /\ tnS' \in [TnSessions -> TnRecs] /\ tnS'[r] = n
      /\ \A q \in TnSessions : q # r => tnS'[q] = tnS[q]
  BY <1>1, <1>2, TnParts, TnReplaced, Zenon
<1>4. tnS[r].key \in TnKeys /\ tnS[r].token # 0 /\ tnS[r].token <= tnTerms /\ ~tnS[r].stop
  BY TnParts, Zenon DEF TnReads
<1>5. tnS[r].pc = "looking" => tnH.pc = "idle" /\ tnKind \notin TnTcpKinds
  BY TnParts, Zenon DEF TnLocked, TnLockHeldBy, TnOneListener
<1>6. tnKind \in TnTcpKinds /\ tnS[r].open =>
        \A q \in TnSessions \ {r} : tnS[q].open => tnS[q].key # tnS[r].key
  BY TnParts, Zenon DEF TnOneListener
<1>7. TnSane(n, r)
  BY <1>0, <1>2, <1>4, <1>5, <1>6, Zenon DEF TnSane
<1>8. tnS[r].pc # "control"
  OBVIOUS
<1> QED BY <1>3, <1>7, <1>8, TnOneMoves, Zenon DEF TnRestStays

\* A check succeeds, or the client attached.
LEMMA TnAdvances ==
    ASSUME TnIInv, NEW r \in TnSessions, TnRestStays,
           NEW x \in {"binding", "bound", "install"},
           tnS[r].pc \in {"attaching", "bound", "looked"},
           tnS' = [tnS EXCEPT ![r].pc = x],
           x = "bound" => tnKind \notin TnTcpKinds,
           x = "install" => /\ tnH.pc = "idle"
                            /\ tnS[r].token = tnTerm => tnRow[tnS[r].pol] = tnS[r].seen
                            /\ tnKind \in TnTcpKinds => tnS[r].open
    PROVE  TnIInv'
<1>1. /\ tnS' \in [TnSessions -> TnRecs]
      /\ \A q \in TnSessions : q # r => tnS'[q] = tnS[q]
      /\ tnS'[r].pc = x /\ tnS'[r].key = tnS[r].key /\ tnS'[r].pol = tnS[r].pol
      /\ tnS'[r].seen = tnS[r].seen /\ tnS'[r].token = tnS[r].token
      /\ tnS'[r].missed = tnS[r].missed
      /\ tnS'[r].open = tnS[r].open /\ tnS'[r].stop = tnS[r].stop
  BY TnParts, TnPcNames, TnGoes, Zenon
<1>2. TnRead(r) /\ tnS[r].token <= tnTerms /\ ~tnS[r].stop
  BY TnParts, Zenon DEF TnReads
<1>3. tnKind \in TnTcpKinds /\ tnS[r].open =>
        \A q \in TnSessions \ {r} : tnS[q].open => tnS[q].key # tnS[r].key
  BY TnParts, Zenon DEF TnOneListener
<1>4. TnSane(tnS'[r], r)
  BY <1>1, <1>2, <1>3, ZenonT(40) DEF TnSane, TnRead
<1>5. tnS[r].pc # "control"
  OBVIOUS
<1> QED BY <1>1, <1>4, <1>5, TnOneMoves, Zenon DEF TnRestStays

\* The socket of a port is bound when no other session has it.
LEMMA TnBinds ==
    ASSUME TnIInv, NEW r \in TnSessions, TnRestStays, NEW x \in {"attaching", "bound"},
           tnS[r].pc = "binding", ~TnBound(tnS[r].key),
           tnS' = [tnS EXCEPT ![r] = [@ EXCEPT !.pc = x, !.open = TRUE]]
    PROVE  TnIInv'
<1> DEFINE n == [tnS[r] EXCEPT !.pc = x, !.open = TRUE]
<1>0. x \in TnPcs /\ tnS[r] \in TnRecs
  BY TnParts, TnPcNames, Zenon
<1>1. tnS' = [tnS EXCEPT ![r] = n]
  BY Zenon
<1>2. /\ n \in TnRecs
      /\ n.pc = x /\ n.key = tnS[r].key /\ n.pol = tnS[r].pol /\ n.seen = tnS[r].seen
      /\ n.token = tnS[r].token
      /\ n.missed = tnS[r].missed /\ n.open = TRUE /\ n.stop = tnS[r].stop
  BY <1>0, Zenon DEF TnRecs
<1> HIDE DEF n
<1>3. /\ tnS' \in [TnSessions -> TnRecs] /\ tnS'[r] = n
      /\ \A q \in TnSessions : q # r => tnS'[q] = tnS[q]
  BY <1>1, <1>2, TnParts, TnReplaced, Zenon
<1>4. TnRead(r) /\ tnS[r].token <= tnTerms /\ ~tnS[r].stop
  BY TnParts, Zenon DEF TnReads
<1>5. \A q \in TnSessions \ {r} : tnS[q].open => tnS[q].key # tnS[r].key
  BY Zenon DEF TnBound
<1>6. TnSane(n, r)
  BY <1>2, <1>4, <1>5, Zenon DEF TnSane, TnRead
<1>7. tnS[r].pc # "control"
  OBVIOUS
<1> QED BY <1>3, <1>6, <1>7, TnOneMoves, Zenon DEF TnRestStays

\* A registration that was told to stop, and its listener, go on without it.
LEMMA TnStopped ==
    ASSUME TnIInv, NEW r \in TnSessions, TnRestStays, tnS' \in [TnSessions -> TnRecs],
           \A q \in TnSessions : q # r => tnS'[q] = tnS[q],
           tnS[r].pc = "control", tnS'[r].pc = "control", tnS'[r].stop,
           tnS'[r].key = tnS[r].key, tnS'[r].pol = tnS[r].pol,
           tnS'[r].seen = tnS[r].seen, tnS'[r].token = tnS[r].token,
           tnS'[r].missed = tnS[r].missed,
           tnS'[r].open => tnS[r].open
    PROVE  TnIInv'
<1>1. /\ tnKind' = tnKind /\ tnRow' = tnRow /\ tnTerm' = tnTerm /\ tnTerms' = tnTerms
      /\ tnReg' = tnReg /\ tnH' = tnH
  BY Zenon DEF TnRestStays
<1>2. TnTypeOK'
  BY <1>1, TnParts, Zenon DEF TnTypeOK, TnSlots
<1>3. \A q \in TnSessions :
        /\ tnS'[q].pc = tnS[q].pc /\ tnS'[q].key = tnS[q].key /\ tnS'[q].pol = tnS[q].pol
        /\ tnS'[q].seen = tnS[q].seen /\ tnS'[q].token = tnS[q].token
        /\ tnS'[q].missed = tnS[q].missed
        /\ tnS'[q].open => tnS[q].open
        /\ tnS[q].stop => tnS'[q].stop
        /\ tnS'[q].stop => tnS[q].stop \/ tnS[q].pc = "control"
        /\ ~tnS'[q].stop => tnS'[q] = tnS[q]
  BY Zenon
<1>4. \A q \in TnSessions : TnAgrees(q) => TnAgrees(q)'
  BY <1>1, <1>3, ZenonT(40) DEF TnAgrees
<1>5. TnLocked'
  BY <1>1, <1>3, TnParts, Zenon DEF TnLocked, TnLockHeldBy
<1>6. TnReads'
  BY <1>1, <1>3, TnParts, Zenon DEF TnReads, TnRead
<1>7. TnInstalling'
  BY <1>3, <1>4, TnParts, Zenon DEF TnInstalling
<1>8. TnServing'
  <2> SUFFICES ASSUME NEW s \in TnSlots, NEW q \in TnSessions, tnReg[s] = q
               PROVE  /\ tnS'[q].pc = "control" /\ s = TnSlot(tnS'[q].pol, tnS'[q].key)
                      /\ ~tnS'[q].stop /\ ~tnS'[q].missed => TnAgrees(q)'
    BY <1>1, ZenonT(40) DEF TnServing, TnSlot, TnById, TnSlots
  <2>1. /\ tnS[q].pc = "control" /\ s = TnSlot(tnS[q].pol, tnS[q].key)
        /\ ~tnS[q].stop /\ ~tnS[q].missed => TnAgrees(q)
    BY TnParts, Zenon DEF TnServing
  <2>2. /\ tnS'[q].pc = tnS[q].pc /\ tnS'[q].key = tnS[q].key /\ tnS'[q].pol = tnS[q].pol
        /\ tnS'[q].missed = tnS[q].missed /\ (~tnS'[q].stop => ~tnS[q].stop)
    BY <1>3, Zenon
  <2> QED BY <1>4, <2>1, <2>2, Zenon
<1>9. TnRequested'
  <2>1. TnRequested
    BY TnParts, Zenon
  <2>2. ASSUME NEW s \in TnSlots, NEW q \in TnSessions, tnH.pc = "commit", tnReg[s] = q,
               tnS'[q].pol = tnH.pol, tnS'[q].token = tnTerm, ~tnS'[q].stop, ~tnS'[q].missed
        PROVE  tnH.old = tnS'[q].seen
    <3>1. tnS'[q] = tnS[q]
      BY <1>3, <2>2, Zenon
    <3> QED BY <2>1, <2>2, <3>1, Zenon DEF TnRequested
  <2> QED BY <1>1, <2>1, <2>2, Zenon DEF TnRequested, TnSlots
<1>10. TnOneListener'
  <2>1. TnOneListener
    BY TnParts, Zenon
  <2>2. ASSUME tnKind \in TnTcpKinds, NEW q \in TnSessions, NEW t \in TnSessions,
               tnS'[q].open, tnS'[t].open, tnS'[q].key = tnS'[t].key
        PROVE  q = t
    <3>1. tnS[q].open /\ tnS[t].open /\ tnS[q].key = tnS[t].key
      BY <1>3, <2>2, Zenon
    <3> QED BY <2>1, <2>2, <3>1, Zenon DEF TnOneListener
  <2>3. ASSUME tnKind \in TnTcpKinds, NEW q \in TnSessions
        PROVE  /\ tnS'[q].pc \notin {"looking", "looked"}
               /\ tnS'[q].pc \in {"bound", "install"} => tnS'[q].open
               /\ tnS'[q].pc = "control" /\ ~tnS'[q].stop => tnS'[q].open
    <3>1. CASE q = r
      BY <3>1, Zenon
    <3>2. CASE q # r
      BY <2>1, <2>3, <3>2, Zenon DEF TnOneListener
    <3> QED BY <3>1, <3>2, Zenon
  <2> QED BY <1>1, <2>2, <2>3, Zenon DEF TnOneListener
<1>11. TnReachable'
  BY <1>1, <1>3, TnParts, ZenonT(40) DEF TnReachable, TnRegistered, TnSlots
<1> QED BY <1>2, <1>5, <1>6, <1>7, <1>8, <1>9, <1>10, <1>11, Zenon DEF TnIInv

\* The registrations under some slots are removed and each is told to stop.
TnTold(slots, q) ==
    /\ tnS'[q].pc = tnS[q].pc /\ tnS'[q].key = tnS[q].key
    /\ tnS'[q].pol = tnS[q].pol /\ tnS'[q].seen = tnS[q].seen
    /\ tnS'[q].token = tnS[q].token
    /\ tnS'[q].missed = tnS[q].missed /\ tnS'[q].open = tnS[q].open
    /\ tnS'[q].stop <=> tnS[q].stop \/ \E s \in slots : tnReg[s] = q

\* stopping slots tells exactly the sessions registered there
LEMMA TnStopEffects ==
    ASSUME TnIInv, NEW slots, TnStopSlots(slots)
    PROVE  /\ tnS' \in [TnSessions -> TnRecs]
           /\ tnReg' \in [TnSlots -> TnSessions \cup {""}]
           /\ \A q \in TnSessions : TnTold(slots, q)
           /\ \A s \in TnSlots, q \in TnSessions :
                 tnReg'[s] = q <=> tnReg[s] = q /\ s \notin slots
<1>1. tnReg' = [s \in TnSlots |-> IF s \in slots THEN "" ELSE tnReg[s]]
  BY Zenon DEF TnStopSlots
<1>2. tnReg' \in [TnSlots -> TnSessions \cup {""}]
  BY <1>1, TnParts, Zenon DEF TnTypeOK
<1>3. \A s \in TnSlots, q \in TnSessions : tnReg'[s] = q <=> tnReg[s] = q /\ s \notin slots
  BY <1>1, TnAssumption, Zenon
<1>4. ASSUME NEW q \in TnSessions
      PROVE  tnS'[q] \in TnRecs /\ TnTold(slots, q)
  <2> DEFINE b == tnS[q].stop \/ \E s \in slots : tnReg[s] = q
  <2>1. tnS[q] \in TnRecs /\ b \in BOOLEAN
    BY TnParts, Zenon
  <2>2. tnS'[q] = [tnS[q] EXCEPT !.stop = b]
    BY Zenon DEF TnStopSlots
  <2> HIDE DEF b
  <2>3. /\ tnS'[q] \in TnRecs
        /\ tnS'[q].pc = tnS[q].pc /\ tnS'[q].key = tnS[q].key
        /\ tnS'[q].pol = tnS[q].pol /\ tnS'[q].seen = tnS[q].seen
        /\ tnS'[q].token = tnS[q].token
        /\ tnS'[q].missed = tnS[q].missed /\ tnS'[q].open = tnS[q].open
        /\ tnS'[q].stop = b
    BY <2>1, <2>2, Zenon DEF TnRecs
  <2> QED BY <2>3, Zenon DEF b, TnTold
<1>5. tnS' \in [TnSessions -> TnRecs]
  <2>1. tnS' = [q \in TnSessions |-> tnS'[q]]
    BY Zenon DEF TnStopSlots
  <2> QED BY <1>4, <2>1, Zenon
<1> QED BY <1>2, <1>3, <1>4, <1>5, Zenon

\* Whatever becomes of the request, this much is kept.
LEMMA TnStopKeeps ==
    ASSUME TnIInv, NEW slots, slots \subseteq TnSlots, TnStopSlots(slots),
           UNCHANGED <<tnKind, tnRow, tnTerm, tnTerms>>, tnH' \in TnAsks
    PROVE  TnTypeOK' /\ TnReads' /\ TnOneListener' /\ TnReachable'
<1>1. tnKind' = tnKind /\ tnRow' = tnRow /\ tnTerm' = tnTerm /\ tnTerms' = tnTerms
  OBVIOUS
<1>2. TnTypeOK'
  BY <1>1, TnParts, TnStopEffects, Zenon DEF TnTypeOK, TnSlots
<1>3. ASSUME NEW q \in TnSessions
      PROVE  /\ tnS'[q].pc = tnS[q].pc /\ tnS'[q].key = tnS[q].key
             /\ tnS'[q].pol = tnS[q].pol /\ tnS'[q].seen = tnS[q].seen
             /\ tnS'[q].token = tnS[q].token
             /\ tnS'[q].missed = tnS[q].missed /\ tnS'[q].open = tnS[q].open
             /\ tnS'[q].stop => tnS[q].stop \/ tnS[q].pc = "control"
             /\ ~tnS'[q].stop => ~tnS[q].stop /\ ~\E s \in slots : tnReg[s] = q
  <2>1. TnTold(slots, q)
    BY TnStopEffects, Zenon
  <2>2. ASSUME NEW s \in slots, tnReg[s] = q PROVE tnS[q].pc = "control"
    <3>1. TnServing /\ s \in TnSlots
      BY TnParts, Zenon
    <3> QED BY <2>2, <3>1, Zenon DEF TnServing
  <2> QED BY <2>1, <2>2, Zenon DEF TnTold
<1>4. TnReads'
  <2> SUFFICES ASSUME NEW q \in TnSessions
               PROVE  /\ tnS'[q].token <= tnTerms
                      /\ tnS'[q].stop => tnS'[q].pc \in {"control", "ended"}
                      /\ tnS'[q].pc \in {"reading", "looking"} =>
                            tnS'[q].key \in TnKeys /\ tnS'[q].token # 0
                      /\ tnS'[q].pc \in {"attaching", "binding", "bound", "looked",
                                          "install", "control"} => TnRead(q)'
    BY <1>1, Zenon DEF TnReads
  <2>1. TnRead(q) => TnRead(q)'
    BY <1>3, Zenon DEF TnRead
  <2>2. TnReads
    BY TnParts, Zenon
  <2> QED BY <1>3, <2>1, <2>2, ZenonT(40) DEF TnReads
<1>5. TnOneListener'
  <2>1. TnOneListener
    BY TnParts, Zenon
  <2>2. ASSUME tnKind \in TnTcpKinds, NEW q \in TnSessions, NEW t \in TnSessions,
               tnS'[q].open, tnS'[t].open, tnS'[q].key = tnS'[t].key
        PROVE  q = t
    <3>1. tnS[q].open /\ tnS[t].open /\ tnS[q].key = tnS[t].key
      BY <1>3, <2>2, Zenon
    <3> QED BY <2>1, <2>2, <3>1, Zenon DEF TnOneListener
  <2>3. ASSUME tnKind \in TnTcpKinds, NEW q \in TnSessions
        PROVE  /\ tnS'[q].pc \notin {"looking", "looked"}
               /\ tnS'[q].pc \in {"bound", "install"} => tnS'[q].open
               /\ tnS'[q].pc = "control" /\ ~tnS'[q].stop => tnS'[q].open
    <3>1. /\ tnS[q].pc \notin {"looking", "looked"}
          /\ tnS[q].pc \in {"bound", "install"} => tnS[q].open
          /\ tnS[q].pc = "control" /\ ~tnS[q].stop => tnS[q].open
      BY <2>1, <2>3, Zenon DEF TnOneListener
    <3>2. /\ tnS'[q].pc = tnS[q].pc /\ tnS'[q].open = tnS[q].open
          /\ tnS'[q].missed = tnS[q].missed /\ (~tnS'[q].stop => ~tnS[q].stop)
      BY <1>3, Zenon
    <3> QED BY <3>1, <3>2, Zenon
  <2> QED BY <1>1, <2>2, <2>3, Zenon DEF TnOneListener
<1>6. TnReachable'
  <2>1. ASSUME NEW s \in TnSlots, NEW q \in TnSessions, tnReg[s] = q, s \notin slots
        PROVE  tnReg'[s] = q
    BY <2>1, Zenon DEF TnStopSlots
  <2>2. ASSUME NEW q \in TnSessions, tnS'[q].pc = "control", ~tnS'[q].stop
        PROVE  \E s \in TnSlots : tnReg'[s] = q
    <3>1. tnS[q].pc = "control" /\ ~tnS[q].stop /\ ~\E s \in slots : tnReg[s] = q
      BY <1>3, <2>2, Zenon
    <3>2. PICK s \in TnSlots : tnReg[s] = q
      BY <3>1, TnParts, Zenon DEF TnReachable, TnRegistered
    <3> QED BY <2>1, <3>1, <3>2, Zenon
  <2> QED BY <2>2, Zenon DEF TnReachable, TnRegistered, TnSlots
<1> QED BY <1>2, <1>4, <1>5, <1>6, Zenon

\* Everything is stopped: the loss of leadership, or the shutdown.
LEMMA TnStopsAll ==
    ASSUME TnIInv, TnStopSlots(TnSlots), UNCHANGED <<tnKind, tnRow, tnTerm, tnTerms, tnH>>
    PROVE  TnIInv'
<1>0. tnH' \in TnAsks
  BY TnParts, Zenon DEF TnTypeOK
<1>1. TnTypeOK' /\ TnReads' /\ TnOneListener' /\ TnReachable'
  BY <1>0, TnStopKeeps, Zenon
<1>2. \A q \in TnSessions : TnTold(TnSlots, q)
  BY TnStopEffects, Zenon
<1>3. \A s \in TnSlots, q \in TnSessions : tnReg'[s] # q
  BY TnAssumption, Zenon DEF TnStopSlots
<1>4. TnServing' /\ TnRequested'
  BY <1>3, TnParts, Zenon DEF TnServing, TnRequested, TnSlots
<1>5. TnLocked'
  BY <1>2, TnParts, Zenon DEF TnLocked, TnLockHeldBy, TnTold
<1>6. TnInstalling'
  <2>1. ASSUME NEW q \in TnSessions, TnAgrees(q) PROVE TnAgrees(q)'
    BY <1>2, <2>1, Zenon DEF TnAgrees, TnTold
  <2> QED BY <1>2, <2>1, TnParts, Zenon DEF TnInstalling, TnTold
<1> QED BY <1>1, <1>4, <1>5, <1>6, Zenon DEF TnIInv

\* After the commit the registrations of the old policy are stopped; enabling
\* finds none of its term.
LEMMA TnStopsRuntime ==
    ASSUME TnIInv, TnStopRuntime
    PROVE  TnIInv'
<1>0. /\ tnH.pc = "stop" /\ tnH' = TnNoRequest
      /\ tnKind' = tnKind /\ tnRow' = tnRow /\ tnTerm' = tnTerm /\ tnTerms' = tnTerms
  BY Zenon DEF TnStopRuntime
<1>1. tnH' \in TnAsks /\ tnH'.pc = "idle"
  BY <1>0, TnAskFields, Zenon
<1>2. \A q \in TnSessions : ~TnLockHeldBy(q)
  BY <1>0, TnParts, Zenon DEF TnLocked
<1>3. ASSUME NEW s \in TnSlots, NEW q \in TnSessions, tnReg[s] = q, ~tnS[q].stop,
             ~tnS[q].missed, tnH.stops => s \notin TnOldSlots
      PROVE  tnS[q].token = tnTerm => tnRow[tnS[q].pol] = tnS[q].seen
  <2>1. /\ tnS[q].pc = "control" /\ s = TnSlot(tnS[q].pol, tnS[q].key) /\ TnAgrees(q)
    BY <1>3, TnParts, Zenon DEF TnServing
  <2>2. TnRead(q)
    BY <2>1, TnParts, Zenon DEF TnReads
  <2>3. CASE tnH.pol = tnS[q].pol /\ tnS[q].token = tnTerm
    <3>1. tnH.old = tnS[q].seen
      BY <1>0, <2>1, <2>3, Zenon DEF TnAgrees
    <3>2. tnH.stops
      BY <1>0, <2>2, <3>1, TnParts, Zenon DEF TnRequested, TnRead
    <3>3. s \in TnOldSlots
      BY <2>1, <2>2, <2>3, <3>1, Zenon DEF TnOldSlots, TnRead
    <3> QED BY <1>3, <3>2, <3>3, Zenon
  <2>4. CASE ~(tnH.pol = tnS[q].pol /\ tnS[q].token = tnTerm)
    BY <2>1, <2>4, Zenon DEF TnAgrees
  <2> QED BY <2>3, <2>4, Zenon
<1>4. CASE tnH.stops
  <2>1. TnStopSlots(TnOldSlots)
    BY <1>4, Zenon DEF TnStopRuntime
  <2>2. TnOldSlots \subseteq TnSlots
    <3>1. ASSUME NEW k \in tnH.old.keys PROVE TnSlot(tnH.pol, k) \in TnSlots
      BY <1>0, TnParts, TnAskFields, TnRowFields, Zenon DEF TnTypeOK, TnRequested, TnSlot, TnSlots
    <3> QED BY <3>1, Zenon DEF TnOldSlots
  <2>3. TnTypeOK' /\ TnReads' /\ TnOneListener' /\ TnReachable'
    BY <1>0, <1>1, <2>1, <2>2, TnStopKeeps, Zenon
  <2>4. \A q \in TnSessions : TnTold(TnOldSlots, q)
    BY <2>1, TnStopEffects, Zenon
  <2>5. TnLocked' /\ TnInstalling'
    BY <1>1, <1>2, <2>4, Zenon DEF TnLocked, TnLockHeldBy, TnInstalling, TnTold
  <2>6. TnRequested'
    BY <1>1, Zenon DEF TnRequested
  <2>7. TnServing'
    <3> SUFFICES ASSUME NEW s \in TnSlots, NEW q \in TnSessions, tnReg'[s] = q
                 PROVE  /\ tnS'[q].pc = "control" /\ s = TnSlot(tnS'[q].pol, tnS'[q].key)
                        /\ ~tnS'[q].stop /\ ~tnS'[q].missed => TnAgrees(q)'
      BY <1>0, Zenon DEF TnServing, TnSlot, TnById, TnSlots
    <3>1. tnReg[s] = q /\ s \notin TnOldSlots
      BY <2>1, TnAssumption, Zenon DEF TnStopSlots
    <3>2. TnTold(TnOldSlots, q)
      BY <2>4, Zenon
    <3>3. tnS[q].pc = "control" /\ s = TnSlot(tnS[q].pol, tnS[q].key)
      BY <3>1, TnParts, Zenon DEF TnServing
    <3>4. ASSUME ~tnS'[q].stop, ~tnS'[q].missed PROVE TnAgrees(q)'
      <4>1. ~tnS[q].stop /\ ~tnS[q].missed
        BY <3>2, <3>4, Zenon DEF TnTold
      <4>2. tnS[q].token = tnTerm => tnRow[tnS[q].pol] = tnS[q].seen
        BY <1>3, <3>1, <4>1, Zenon
      <4> QED BY <1>0, <1>1, <3>2, <4>2, Zenon DEF TnAgrees, TnTold
    <3> QED BY <3>2, <3>3, <3>4, Zenon DEF TnTold
  <2> QED BY <2>3, <2>5, <2>6, <2>7, Zenon DEF TnIInv
<1>5. CASE ~tnH.stops
  <2>1. tnReg' = tnReg /\ tnS' = tnS
    BY <1>5, Zenon DEF TnStopRuntime
  <2>2. TnTypeOK'
    BY <1>0, <1>1, <2>1, TnParts, Zenon DEF TnTypeOK, TnSlots
  <2>3. TnReads' /\ TnOneListener' /\ TnReachable'
    BY <1>0, <2>1, TnParts, Zenon DEF TnReads, TnRead, TnOneListener, TnReachable,
                                       TnRegistered, TnSlots
  <2>4. TnLocked' /\ TnInstalling'
    BY <1>1, <1>2, <2>1, Zenon DEF TnLocked, TnLockHeldBy, TnInstalling
  <2>5. TnRequested'
    BY <1>1, Zenon DEF TnRequested
  <2>6. TnServing'
    <3> SUFFICES ASSUME NEW s \in TnSlots, NEW q \in TnSessions, tnReg[s] = q
                 PROVE  /\ tnS[q].pc = "control" /\ s = TnSlot(tnS[q].pol, tnS[q].key)
                        /\ ~tnS[q].stop /\ ~tnS[q].missed => TnAgrees(q)'
      BY <1>0, <2>1, Zenon DEF TnServing, TnSlot, TnById, TnSlots
    <3>1. tnS[q].pc = "control" /\ s = TnSlot(tnS[q].pol, tnS[q].key)
      BY TnParts, Zenon DEF TnServing
    <3>2. ~tnS[q].stop /\ ~tnS[q].missed =>
            (tnS[q].token = tnTerm => tnRow[tnS[q].pol] = tnS[q].seen)
      BY <1>3, <1>5, Zenon
    <3> QED BY <1>0, <1>1, <2>1, <3>1, <3>2, Zenon DEF TnAgrees
  <2> QED BY <2>2, <2>3, <2>4, <2>5, <2>6, Zenon DEF TnIInv
<1> QED BY <1>4, <1>5, Zenon

\* A control connection ends: its own entries go, its listener outlives it.
LEMMA TnEnds ==
    ASSUME TnIInv, NEW r \in TnSessions, NEW kinds, TnEndControl(r, kinds)
    PROVE  TnIInv'
<1>0. /\ tnS[r].pc = "control"
      /\ tnKind' = tnKind /\ tnRow' = tnRow /\ tnTerm' = tnTerm /\ tnTerms' = tnTerms
      /\ tnH' = tnH
      /\ tnReg' = [s \in TnSlots |-> IF tnReg[s] = r THEN "" ELSE tnReg[s]]
  BY Zenon DEF TnEndControl, TnAt, TnRemoveOwn
<1> DEFINE e == [TnNoSession EXCEPT !.pc = "ended", !.key = tnS[r].key,
                                    !.stop = TRUE, !.open = TRUE]
           n == IF tnS[r].open THEN e ELSE TnNoSession
<1>1. tnS' = [tnS EXCEPT ![r] = n]
  BY Zenon DEF TnEndControl
<1>2. e \in TnRecs /\ e.pc = "ended" /\ e.token = 0 /\ e.key = tnS[r].key
  <2>1. "ended" \in TnPcs /\ tnS[r].key \in TnKeys \cup {""}
    BY TnPcNames, TnParts, TnRecFields, Zenon
  <2> QED BY <2>1, TnEmptySession, Zenon DEF TnNoSession, TnRecs
<1>3. /\ n \in TnRecs /\ n.pc \in {"ended", "idle"} /\ n.token = 0
      /\ n.stop => n.pc = "ended"
      /\ n.open => tnS[r].open /\ n.key = tnS[r].key
  BY <1>2, TnEmptySession, Zenon
<1> HIDE DEF n
<1>4. /\ tnS' \in [TnSessions -> TnRecs] /\ tnS'[r] = n
      /\ \A q \in TnSessions : q # r => tnS'[q] = tnS[q]
  BY <1>1, <1>3, TnParts, TnReplaced, Zenon
<1>5. ASSUME NEW s \in TnSlots, NEW q \in TnSessions
      PROVE  tnReg'[s] = q <=> tnReg[s] = q /\ q # r
  BY <1>0, TnAssumption, Zenon
<1>6. TnTypeOK'
  <2>1. tnReg' \in [TnSlots -> TnSessions \cup {""}]
    BY <1>0, TnParts, Zenon DEF TnTypeOK
  <2> QED BY <1>0, <1>4, <2>1, TnParts, Zenon DEF TnTypeOK, TnSlots
<1>7. TnLocked'
  BY <1>0, <1>3, <1>4, TnParts, Zenon DEF TnLocked, TnLockHeldBy
<1>8. TnReads'
  <2>1. 0 <= tnTerms
    BY TnParts, SMT
  <2>2. TnReads
    BY TnParts, Zenon
  <2> SUFFICES ASSUME NEW q \in TnSessions
               PROVE  /\ tnS'[q].token <= tnTerms
                      /\ tnS'[q].stop => tnS'[q].pc \in {"control", "ended"}
                      /\ tnS'[q].pc \in {"reading", "looking"} =>
                            tnS'[q].key \in TnKeys /\ tnS'[q].token # 0
                      /\ tnS'[q].pc \in {"attaching", "binding", "bound", "looked",
                                          "install", "control"} => TnRead(q)'
    BY <1>0, Zenon DEF TnReads
  <2>3. CASE q = r
    BY <1>3, <1>4, <2>1, <2>3, Zenon
  <2>4. CASE q # r
    <3>1. TnRead(q) => TnRead(q)'
      BY <1>4, <2>4, Zenon DEF TnRead
    <3> QED BY <1>4, <2>2, <2>4, <3>1, Zenon DEF TnReads
  <2> QED BY <2>3, <2>4, Zenon
<1>9. ASSUME NEW q \in TnSessions, q # r, TnAgrees(q) PROVE TnAgrees(q)'
  BY <1>0, <1>4, <1>9, Zenon DEF TnAgrees
<1>10. TnInstalling'
  BY <1>3, <1>4, <1>9, TnParts, Zenon DEF TnInstalling
<1>11. TnServing'
  <2> SUFFICES ASSUME NEW s \in TnSlots, NEW q \in TnSessions, tnReg'[s] = q
               PROVE  /\ tnS'[q].pc = "control" /\ s = TnSlot(tnS'[q].pol, tnS'[q].key)
                      /\ ~tnS'[q].stop /\ ~tnS'[q].missed => TnAgrees(q)'
    BY <1>0, Zenon DEF TnServing, TnSlot, TnById, TnSlots
  <2>1. tnReg[s] = q /\ q # r /\ tnS'[q] = tnS[q]
    BY <1>4, <1>5, Zenon
  <2>2. /\ tnS[q].pc = "control" /\ s = TnSlot(tnS[q].pol, tnS[q].key)
        /\ ~tnS[q].stop /\ ~tnS[q].missed => TnAgrees(q)
    BY <2>1, TnParts, Zenon DEF TnServing
  <2> QED BY <1>9, <2>1, <2>2, Zenon
<1>12. TnRequested'
  <2>1. TnRequested
    BY TnParts, Zenon
  <2>2. ASSUME NEW s \in TnSlots, NEW q \in TnSessions, tnH.pc = "commit", tnReg'[s] = q,
               tnS'[q].pol = tnH.pol, tnS'[q].token = tnTerm, ~tnS'[q].stop, ~tnS'[q].missed
        PROVE  tnH.old = tnS'[q].seen
    <3>1. tnReg[s] = q /\ tnS'[q] = tnS[q]
      BY <1>4, <1>5, <2>2, Zenon
    <3> QED BY <2>1, <2>2, <3>1, Zenon DEF TnRequested
  <2> QED BY <1>0, <2>1, <2>2, Zenon DEF TnRequested, TnSlots
<1>13. TnOneListener'
  <2>1. TnOneListener
    BY TnParts, Zenon
  <2>2. ASSUME tnKind \in TnTcpKinds, NEW q \in TnSessions, NEW t \in TnSessions,
               tnS'[q].open, tnS'[t].open, tnS'[q].key = tnS'[t].key
        PROVE  q = t
    <3>1. tnS[q].open /\ tnS[t].open /\ tnS[q].key = tnS[t].key
      BY <1>3, <1>4, <2>2, Zenon
    <3> QED BY <2>1, <2>2, <3>1, Zenon DEF TnOneListener
  <2>3. ASSUME tnKind \in TnTcpKinds, NEW q \in TnSessions
        PROVE  /\ tnS'[q].pc \notin {"looking", "looked"}
               /\ tnS'[q].pc \in {"bound", "install"} => tnS'[q].open
               /\ tnS'[q].pc = "control" /\ ~tnS'[q].stop => tnS'[q].open
    <3>1. CASE q = r
      BY <1>3, <1>4, <3>1, Zenon
    <3>2. CASE q # r
      BY <1>4, <2>1, <2>3, <3>2, Zenon DEF TnOneListener
    <3> QED BY <3>1, <3>2, Zenon
  <2> QED BY <1>0, <2>2, <2>3, Zenon DEF TnOneListener
<1>14. TnReachable'
  <2>1. ASSUME NEW q \in TnSessions, tnS'[q].pc = "control", ~tnS'[q].stop
        PROVE  \E s \in TnSlots : tnReg'[s] = q
    <3>1. q # r /\ tnS'[q] = tnS[q]
      BY <1>3, <1>4, <2>1, Zenon
    <3>2. PICK s \in TnSlots : tnReg[s] = q
      BY <2>1, <3>1, TnParts, Zenon DEF TnReachable, TnRegistered
    <3> QED BY <1>5, <3>1, <3>2, Zenon
  <2> QED BY <2>1, Zenon DEF TnReachable, TnRegistered, TnSlots
<1> QED BY <1>6, <1>7, <1>8, <1>10, <1>11, <1>12, <1>13, <1>14, Zenon DEF TnIInv

\* The session that is entered in the registry, and the one it may displace.
LEMMA TnInstalls ==
    ASSUME TnIInv, NEW r \in TnSessions, NEW kinds, NEW replaces, TnInstall(r, kinds, replaces),
           ~replaces => tnKind \in TnTcpKinds
    PROVE  TnIInv'
<1> DEFINE z == TnSlot(tnS[r].pol, tnS[r].key)
           stopped == IF replaces THEN {tnReg[z]} ELSE {}
<1>0. /\ tnS[r].pc = "install"
      /\ tnKind' = tnKind /\ tnRow' = tnRow /\ tnTerm' = tnTerm /\ tnTerms' = tnTerms
      /\ tnH' = tnH
      /\ tnReg' = [tnReg EXCEPT ![z] = r]
  BY Zenon DEF TnInstall, TnAt
<1>1. tnS' = [q \in TnSessions |->
                IF q = r THEN [tnS[q] EXCEPT !.pc = "control", !.open = TRUE]
                ELSE [tnS[q] EXCEPT !.stop = @ \/ q \in stopped]]
  BY Zenon DEF TnInstall
<1>2. TnRead(r) /\ ~tnS[r].stop /\ tnH.pc = "idle" /\ TnAgrees(r)
  BY <1>0, TnParts, Zenon DEF TnReads, TnLocked, TnLockHeldBy, TnInstalling
<1>3. z \in TnSlots
  BY <1>2, Zenon DEF TnRead, TnSlot, TnSlots
<1>4. /\ tnS'[r] \in TnRecs /\ tnS'[r].pc = "control" /\ tnS'[r].open
      /\ tnS'[r].key = tnS[r].key /\ tnS'[r].pol = tnS[r].pol /\ tnS'[r].seen = tnS[r].seen
      /\ tnS'[r].token = tnS[r].token
      /\ tnS'[r].missed = tnS[r].missed /\ tnS'[r].stop = tnS[r].stop
  <2>1. tnS'[r] = [tnS[r] EXCEPT !.pc = "control", !.open = TRUE] /\ tnS[r] \in TnRecs
    BY <1>1, TnParts, Zenon
  <2> QED BY <2>1, TnPcNames, Zenon DEF TnRecs
<1>5. ASSUME NEW q \in TnSessions, q # r
      PROVE  /\ tnS'[q] \in TnRecs
             /\ tnS'[q].pc = tnS[q].pc /\ tnS'[q].key = tnS[q].key /\ tnS'[q].pol = tnS[q].pol
             /\ tnS'[q].seen = tnS[q].seen /\ tnS'[q].token = tnS[q].token
             /\ tnS'[q].missed = tnS[q].missed
             /\ tnS'[q].open = tnS[q].open
             /\ tnS'[q].stop <=> tnS[q].stop \/ (replaces /\ tnReg[z] = q)
  <2> DEFINE b == tnS[q].stop \/ q \in stopped
  <2>1. tnS[q] \in TnRecs /\ b \in BOOLEAN /\ tnS'[q] = [tnS[q] EXCEPT !.stop = b]
    BY <1>1, <1>5, TnParts, Zenon
  <2>2. b <=> tnS[q].stop \/ (replaces /\ tnReg[z] = q)
    BY Zenon
  <2> HIDE DEF b
  <2>3. /\ tnS'[q] \in TnRecs
        /\ tnS'[q].pc = tnS[q].pc /\ tnS'[q].key = tnS[q].key /\ tnS'[q].pol = tnS[q].pol
        /\ tnS'[q].seen = tnS[q].seen /\ tnS'[q].token = tnS[q].token
        /\ tnS'[q].missed = tnS[q].missed
        /\ tnS'[q].open = tnS[q].open /\ tnS'[q].stop = b
    BY <2>1, Zenon DEF TnRecs
  <2> QED BY <2>2, <2>3, Zenon
<1> HIDE DEF z, stopped
<1>6. ASSUME NEW s \in TnSlots, NEW q \in TnSessions, tnReg'[s] = q
      PROVE  \/ q = r /\ s = z
             \/ q # r /\ s # z /\ tnReg[s] = q
  <2>1. CASE s = z
    BY <1>0, <1>3, <1>6, <2>1, TnParts, Zenon DEF TnTypeOK
  <2>2. CASE s # z
    <3>1. tnReg[s] = q
      BY <1>0, <1>6, <2>2, TnParts, Zenon DEF TnTypeOK
    <3>2. q # r
      BY <1>0, <3>1, TnParts, Zenon DEF TnServing
    <3> QED BY <2>2, <3>1, <3>2, Zenon
  <2> QED BY <2>1, <2>2, Zenon
<1>7. TnTypeOK'
  <2>1. tnReg' \in [TnSlots -> TnSessions \cup {""}]
    BY <1>0, TnParts, Zenon DEF TnTypeOK
  <2>2. tnS' \in [TnSessions -> TnRecs]
    <3>1. \A q \in TnSessions : tnS'[q] \in TnRecs
      BY <1>4, <1>5, Zenon
    <3>2. tnS' = [q \in TnSessions |-> tnS'[q]]
      BY <1>1, Zenon
    <3> QED BY <3>1, <3>2, Zenon
  <2> QED BY <1>0, <2>1, <2>2, TnParts, Zenon DEF TnTypeOK, TnSlots
<1>8. TnLocked'
  BY <1>0, <1>2, Zenon DEF TnLocked
<1>9. TnReads'
  <2>1. TnReads
    BY TnParts, Zenon
  <2> SUFFICES ASSUME NEW q \in TnSessions
               PROVE  /\ tnS'[q].token <= tnTerms
                      /\ tnS'[q].stop => tnS'[q].pc \in {"control", "ended"}
                      /\ tnS'[q].pc \in {"reading", "looking"} =>
                            tnS'[q].key \in TnKeys /\ tnS'[q].token # 0
                      /\ tnS'[q].pc \in {"attaching", "binding", "bound", "looked",
                                          "install", "control"} => TnRead(q)'
    BY <1>0, Zenon DEF TnReads
  <2>2. CASE q = r
    <3>1. TnRead(r)'
      BY <1>2, <1>4, Zenon DEF TnRead
    <3> QED BY <1>4, <2>1, <2>2, <3>1, Zenon DEF TnReads
  <2>3. CASE q # r
    <3>1. TnRead(q) => TnRead(q)'
      BY <1>5, <2>3, Zenon DEF TnRead
    <3>2. tnReg[z] = q => tnS[q].pc = "control"
      BY <1>3, TnParts, Zenon DEF TnServing
    <3> QED BY <1>5, <2>1, <2>3, <3>1, <3>2, Zenon DEF TnReads
  <2> QED BY <2>2, <2>3, Zenon
<1>10. ASSUME NEW q \in TnSessions, TnAgrees(q) PROVE TnAgrees(q)'
  <2>1. tnS'[q].token = tnS[q].token /\ tnS'[q].pol = tnS[q].pol /\ tnS'[q].seen = tnS[q].seen
    BY <1>4, <1>5, Zenon
  <2> QED BY <1>0, <1>10, <2>1, Zenon DEF TnAgrees
<1>11. TnInstalling'
  <2>1. ASSUME NEW q \in TnSessions, tnS'[q].pc \in {"looked", "install"} PROVE TnAgrees(q)'
    <3>1. q # r
      BY <1>4, <2>1, Zenon
    <3>2. tnS[q].pc \in {"looked", "install"}
      BY <1>5, <2>1, <3>1, Zenon
    <3> QED BY <1>10, <3>2, TnParts, Zenon DEF TnInstalling
  <2> QED BY <2>1, Zenon DEF TnInstalling
<1>12. TnServing'
  <2> SUFFICES ASSUME NEW s \in TnSlots, NEW q \in TnSessions, tnReg'[s] = q
               PROVE  /\ tnS'[q].pc = "control" /\ s = TnSlot(tnS'[q].pol, tnS'[q].key)
                      /\ ~tnS'[q].stop /\ ~tnS'[q].missed => TnAgrees(q)'
    BY <1>0, Zenon DEF TnServing, TnSlot, TnById, TnSlots
  <2>1. CASE q = r /\ s = z
    BY <1>2, <1>4, <1>10, <2>1, Zenon DEF z
  <2>2. CASE q # r /\ tnReg[s] = q
    <3>1. /\ tnS[q].pc = "control" /\ s = TnSlot(tnS[q].pol, tnS[q].key)
          /\ ~tnS[q].stop /\ ~tnS[q].missed => TnAgrees(q)
      BY <2>2, TnParts, Zenon DEF TnServing
    <3>2. /\ tnS'[q].pc = tnS[q].pc /\ tnS'[q].key = tnS[q].key /\ tnS'[q].pol = tnS[q].pol
          /\ tnS'[q].missed = tnS[q].missed /\ (~tnS'[q].stop => ~tnS[q].stop)
      BY <1>5, <2>2, Zenon
    <3> QED BY <1>10, <3>1, <3>2, Zenon
  <2> QED BY <1>6, <2>1, <2>2, Zenon
<1>13. TnRequested'
  BY <1>0, <1>2, Zenon DEF TnRequested
<1>14. TnOneListener'
  <2>1. TnOneListener
    BY TnParts, Zenon
  <2>2. ASSUME tnKind \in TnTcpKinds, NEW q \in TnSessions
        PROVE  tnS'[q].open = tnS[q].open /\ tnS'[q].key = tnS[q].key
    <3>1. tnS[r].open \in BOOLEAN /\ tnS[r].open /\ tnS'[r].open \in BOOLEAN
      BY <1>0, <1>4, <2>1, <2>2, TnParts, TnRecFields, Zenon DEF TnOneListener
    <3> QED BY <1>4, <1>5, <3>1, Zenon
  <2>3. ASSUME tnKind \in TnTcpKinds, NEW q \in TnSessions
        PROVE  /\ tnS'[q].pc \notin {"looking", "looked"}
               /\ tnS'[q].pc \in {"bound", "install"} => tnS'[q].open
               /\ tnS'[q].pc = "control" /\ ~tnS'[q].stop => tnS'[q].open
    <3>1. CASE q = r
      BY <1>4, <3>1, Zenon
    <3>2. CASE q # r
      <4>1. /\ tnS[q].pc \notin {"looking", "looked"}
            /\ tnS[q].pc \in {"bound", "install"} => tnS[q].open
            /\ tnS[q].pc = "control" /\ ~tnS[q].stop => tnS[q].open
        BY <2>1, <2>3, Zenon DEF TnOneListener
      <4> QED BY <1>5, <3>2, <4>1, Zenon
    <3> QED BY <3>1, <3>2, Zenon
  <2> QED BY <1>0, <2>1, <2>2, <2>3, Zenon DEF TnOneListener
<1>15. TnReachable'
  <2>1. ASSUME NEW q \in TnSessions, tnS'[q].pc = "control", ~tnS'[q].stop
        PROVE  \E s \in TnSlots : tnReg'[s] = q
    <3>1. CASE q = r
      BY <1>0, <1>3, <3>1, TnParts, Zenon DEF TnTypeOK
    <3>2. CASE q # r
      <4>1. /\ tnS[q].pc = "control" /\ ~tnS[q].stop
            /\ replaces => tnReg[z] # q
        BY <1>5, <2>1, <3>2, Zenon
      <4>2. PICK s \in TnSlots : tnReg[s] = q
        BY <4>1, TnParts, Zenon DEF TnReachable, TnRegistered
      <4>3. s # z
        <5>1. CASE replaces
          BY <4>1, <4>2, <5>1, Zenon
        <5>2. CASE ~replaces
          <6>1. tnKind \in TnTcpKinds /\ ~TnById
            BY <5>2, Zenon DEF TnTcpKinds, TnById
          <6>2. tnS[q].open /\ tnS[r].open
            BY <1>0, <4>1, <6>1, TnParts, Zenon DEF TnOneListener
          <6>3. s = tnS[q].key /\ z = tnS[r].key
            BY <4>2, <6>1, TnParts, Zenon DEF TnServing, TnSlot, z
          <6> QED BY <3>2, <6>1, <6>2, <6>3, TnParts, Zenon DEF TnOneListener
        <5> QED BY <5>1, <5>2, Zenon
      <4> QED BY <1>0, <4>2, <4>3, TnParts, Zenon DEF TnTypeOK
    <3> QED BY <3>1, <3>2, Zenon
  <2> QED BY <2>1, Zenon DEF TnReachable, TnRegistered, TnSlots
<1> QED BY <1>7, <1>8, <1>9, <1>11, <1>12, <1>13, <1>14, <1>15, Zenon DEF TnIInv

\* Neither a session nor the registry moves; what was read still agrees.
LEMMA TnAround ==
    ASSUME TnIInv, tnKind' = tnKind, tnReg' = tnReg, tnS' = tnS,
           tnRow' \in [TnPolicies -> TnAnyRows], tnH' \in TnAsks,
           tnTerm' \in Nat, tnTerms' \in Nat, tnTerm' <= tnTerms', tnTerms <= tnTerms',
           TnLocked', TnRequested',
           \A r \in TnSessions : tnS[r].pc \in {"looked", "install"} => TnAgrees(r)',
           \A s \in TnSlots, r \in TnSessions :
               tnReg[s] = r /\ ~tnS[r].stop /\ ~tnS[r].missed => TnAgrees(r)'
    PROVE  TnIInv'
<1>1. TnTypeOK'
  BY TnParts, Zenon DEF TnTypeOK, TnSlots
<1>2. TnReads'
  <2>1. ASSUME NEW r \in TnSessions PROVE tnS[r].token <= tnTerms'
    <3>1. tnS[r].token \in Nat /\ tnS[r].token <= tnTerms
      BY TnParts, TnRecFields, Zenon DEF TnReads
    <3> QED BY <3>1, TnParts, SMTT(20)
  <2> QED BY <2>1, TnParts, Zenon DEF TnReads, TnRead
<1>3. TnInstalling'
  BY Zenon DEF TnInstalling
<1>4. TnServing'
  <2> SUFFICES ASSUME NEW s \in TnSlots, NEW q \in TnSessions, tnReg[s] = q
               PROVE  /\ tnS[q].pc = "control" /\ s = TnSlot(tnS[q].pol, tnS[q].key)
                      /\ ~tnS[q].stop /\ ~tnS[q].missed => TnAgrees(q)'
    BY Zenon DEF TnServing, TnSlot, TnById, TnSlots
  <2> QED BY TnParts, Zenon DEF TnServing
<1>5. TnOneListener' /\ TnReachable'
  BY TnParts, Zenon DEF TnOneListener, TnReachable, TnRegistered, TnSlots
<1> QED BY <1>1, <1>2, <1>3, <1>4, <1>5, Zenon DEF TnIInv

\* What the invariant says of a session that is registered or about to be.
LEMMA TnKnown ==
    ASSUME TnIInv, NEW r \in TnSessions
    PROVE  /\ tnS[r].pc \in {"looked", "install"} =>
                 TnRead(r) /\ TnAgrees(r) /\ tnH.pc = "idle"
           /\ \A s \in TnSlots : tnReg[s] = r =>
                 TnRead(r) /\ (~tnS[r].stop /\ ~tnS[r].missed => TnAgrees(r))
<1>1. TnInstalling /\ TnServing /\ TnReads /\ TnLocked
  BY TnParts, Zenon
<1>2. tnS[r].pc \in {"looked", "install"} => TnRead(r) /\ TnAgrees(r) /\ tnH.pc = "idle"
  BY <1>1, Zenon DEF TnInstalling, TnReads, TnLocked, TnLockHeldBy
<1>3. \A s \in TnSlots : tnReg[s] = r =>
        TnRead(r) /\ (~tnS[r].stop /\ ~tnS[r].missed => TnAgrees(r))
  BY <1>1, Zenon DEF TnServing, TnReads
<1> QED BY <1>2, <1>3, Zenon

\* A policy is created, or another leader writes the database.
LEMMA TnRowMoves ==
    ASSUME TnIInv, NEW p \in TnPolicies, NEW w \in TnAnyRows,
           tnRow[p].keys = {} \/ tnTerm = 0, tnRow' = [tnRow EXCEPT ![p] = w],
           UNCHANGED <<tnKind, tnTerm, tnTerms, tnReg, tnS, tnH>>
    PROVE  TnIInv'
<1>1. /\ tnKind' = tnKind /\ tnTerm' = tnTerm /\ tnTerms' = tnTerms /\ tnReg' = tnReg
      /\ tnS' = tnS /\ tnH' = tnH
  OBVIOUS
<1>2. tnRow' \in [TnPolicies -> TnAnyRows] /\ tnH' \in TnAsks
  BY <1>1, TnParts, Zenon DEF TnTypeOK
<1>3. TnLocked' /\ TnRequested'
  BY <1>1, TnParts, Zenon DEF TnLocked, TnLockHeldBy, TnRequested, TnSlots
<1>4. ASSUME NEW r \in TnSessions, TnRead(r), TnAgrees(r) PROVE TnAgrees(r)'
  <2>1. CASE tnTerm = 0
    BY <1>1, <1>4, <2>1, Zenon DEF TnRead, TnAgrees
  <2>2. CASE tnRow[p].keys = {} /\ tnS[r].pol = p
    <3>1. tnRow[tnS[r].pol] # tnS[r].seen
      BY <1>4, <2>2, Zenon DEF TnRead
    <3> QED BY <1>1, <1>4, <3>1, Zenon DEF TnAgrees
  <2>3. CASE tnS[r].pol # p
    <3>1. tnRow'[tnS[r].pol] = tnRow[tnS[r].pol]
      BY <1>4, <2>3, TnParts, Zenon DEF TnRead
    <3> QED BY <1>1, <1>4, <3>1, Zenon DEF TnAgrees
  <2> QED BY <2>1, <2>2, <2>3, Zenon
<1>5. tnTerm' \in Nat /\ tnTerms' \in Nat /\ tnTerm' <= tnTerms' /\ tnTerms <= tnTerms'
  BY <1>1, TnParts, SMT
<1>6. \A r \in TnSessions : tnS[r].pc \in {"looked", "install"} => TnAgrees(r)'
  BY <1>4, TnKnown, Zenon
<1>7. \A s \in TnSlots, r \in TnSessions :
        tnReg[s] = r /\ ~tnS[r].stop /\ ~tnS[r].missed => TnAgrees(r)'
  BY <1>4, TnKnown, Zenon
<1> QED BY <1>1, <1>2, <1>3, <1>5, <1>6, <1>7, TnAround, Zenon

\* A request takes the lock and reads the stored policy.
LEMMA TnRequests ==
    ASSUME TnIInv, NEW op, NEW p \in TnPolicies, NEW w \in TnAnyRows, NEW kind,
           TnRequest(op, p, w, kind), op = "enable" => ~tnRow[p].on
    PROVE  TnIInv'
<1>1. /\ tnKind' = tnKind /\ tnTerm' = tnTerm /\ tnTerms' = tnTerms /\ tnReg' = tnReg
      /\ tnS' = tnS /\ tnRow' = tnRow /\ TnLockFree
      /\ tnH' = [pc |-> "commit", stops |-> op # "enable", pol |-> p,
                 old |-> tnRow[p], new |-> w]
  BY Zenon DEF TnRequest
<1>2. /\ tnH'.pc = "commit" /\ tnH'.pol = p /\ tnH'.old = tnRow[p]
      /\ tnH'.stops <=> op # "enable"
  BY <1>1, Zenon
<1>3. tnH' \in TnAsks
  <2>1. (op # "enable") \in BOOLEAN /\ tnRow[p] \in TnAnyRows
    BY TnParts, Zenon
  <2> QED BY <1>1, <2>1, Zenon DEF TnAsks
<1>4. tnH.pc = "idle" /\ \A r \in TnSessions : ~TnLockHeldBy(r)
  BY <1>1, Zenon DEF TnLockFree
<1>5. TnLocked'
  BY <1>1, <1>4, Zenon DEF TnLocked, TnLockHeldBy
<1>6. ASSUME NEW r \in TnSessions, TnAgrees(r)
      PROVE  TnAgrees(r)' /\ (tnS[r].token = tnTerm => tnRow[tnS[r].pol] = tnS[r].seen)
  BY <1>1, <1>2, <1>4, <1>6, Zenon DEF TnAgrees
<1>7. \A r \in TnSessions : tnS[r].pc \in {"looked", "install"} => TnAgrees(r)'
  BY <1>6, TnKnown, Zenon
<1>8. \A s \in TnSlots, r \in TnSessions :
        tnReg[s] = r /\ ~tnS[r].stop /\ ~tnS[r].missed => TnAgrees(r)'
  BY <1>6, TnKnown, Zenon
<1>9. TnRequested'
  <2>1. ASSUME NEW s \in TnSlots, NEW r \in TnSessions, tnReg[s] = r, tnS[r].pol = p,
               tnS[r].token = tnTerm, ~tnS[r].stop, ~tnS[r].missed
        PROVE  tnRow[p] = tnS[r].seen
    BY <1>6, <2>1, TnKnown, Zenon
  <2> QED BY <1>1, <1>2, <2>1, Zenon DEF TnRequested, TnSlots
<1>10. /\ tnTerm' \in Nat /\ tnTerms' \in Nat /\ tnTerm' <= tnTerms' /\ tnTerms <= tnTerms'
       /\ tnRow' \in [TnPolicies -> TnAnyRows]
  BY <1>1, TnParts, SMT
<1> QED BY <1>1, <1>3, <1>5, <1>7, <1>8, <1>9, <1>10, TnAround, Zenon

\* The request commits, or gives up.
LEMMA TnCommits ==
    ASSUME TnIInv, TnCommit
    PROVE  TnIInv'
<1>1. /\ tnKind' = tnKind /\ tnTerm' = tnTerm /\ tnTerms' = tnTerms /\ tnReg' = tnReg
      /\ tnS' = tnS /\ tnH.pc = "commit"
      /\ \/ tnRow' = [tnRow EXCEPT ![tnH.pol] = tnH.new] /\ tnH' = [tnH EXCEPT !.pc = "stop"]
         \/ tnRow' = tnRow /\ tnH' = TnNoRequest
  BY Zenon DEF TnCommit
<1>2. tnH \in TnAsks /\ tnH.pol \in TnPolicies /\ tnH.new \in TnAnyRows
      /\ (~tnH.stops => ~tnH.old.on)
  BY <1>1, TnParts, TnAskFields, Zenon DEF TnTypeOK, TnRequested
<1>3. \A r \in TnSessions : ~TnLockHeldBy(r) /\ tnS[r].pc \notin {"looked", "install"}
  BY <1>1, TnParts, Zenon DEF TnLocked, TnLockHeldBy
<1>4. TnLocked'
  BY <1>1, <1>3, Zenon DEF TnLocked, TnLockHeldBy
<1>5. tnTerm' \in Nat /\ tnTerms' \in Nat /\ tnTerm' <= tnTerms' /\ tnTerms <= tnTerms'
  BY <1>1, TnParts, SMT
<1>6. CASE tnRow' = [tnRow EXCEPT ![tnH.pol] = tnH.new] /\ tnH' = [tnH EXCEPT !.pc = "stop"]
  <2>1. /\ tnH' \in TnAsks /\ tnH'.pc = "stop" /\ tnH'.pol = tnH.pol
        /\ tnH'.old = tnH.old /\ tnH'.stops = tnH.stops
    BY <1>2, <1>6, Zenon DEF TnAsks
  <2>2. tnRow' \in [TnPolicies -> TnAnyRows]
    BY <1>2, <1>6, TnParts, Zenon
  <2>3. TnRequested'
    BY <1>2, <2>1, Zenon DEF TnRequested
  <2>4. ASSUME NEW s \in TnSlots, NEW r \in TnSessions, tnReg[s] = r,
               ~tnS[r].stop, ~tnS[r].missed
        PROVE  TnAgrees(r)'
    <3>1. TnRead(r) /\ TnAgrees(r)
      BY <2>4, TnKnown, Zenon
    <3>2. CASE tnS[r].pol = tnH.pol
      <4>1. tnS[r].token = tnTerm => tnH.old = tnS[r].seen
        BY <1>1, <2>4, <3>2, TnParts, Zenon DEF TnRequested
      <4> QED BY <1>1, <2>1, <3>2, <4>1, Zenon DEF TnAgrees
    <3>3. CASE tnS[r].pol # tnH.pol
      <4>1. tnRow'[tnS[r].pol] = tnRow[tnS[r].pol]
        BY <1>6, <3>1, <3>3, TnParts, Zenon DEF TnRead
      <4> QED BY <1>1, <2>1, <3>1, <3>3, <4>1, Zenon DEF TnAgrees
    <3> QED BY <3>2, <3>3, Zenon
  <2> QED BY <1>1, <1>3, <1>4, <1>5, <2>1, <2>2, <2>3, <2>4, TnAround, Zenon
<1>7. CASE tnRow' = tnRow /\ tnH' = TnNoRequest
  <2>1. tnH' \in TnAsks /\ tnH'.pc = "idle" /\ tnRow' \in [TnPolicies -> TnAnyRows]
    BY <1>7, TnAskFields, TnParts, Zenon
  <2>2. TnRequested'
    BY <2>1, Zenon DEF TnRequested
  <2>3. ASSUME NEW s \in TnSlots, NEW r \in TnSessions, tnReg[s] = r,
               ~tnS[r].stop, ~tnS[r].missed
        PROVE  TnAgrees(r)'
    <3>1. TnAgrees(r)
      BY <2>3, TnKnown, Zenon
    <3> QED BY <1>1, <1>7, <2>1, <3>1, Zenon DEF TnAgrees
  <2> QED BY <1>1, <1>3, <1>4, <1>5, <2>1, <2>2, <2>3, TnAround, Zenon
<1> QED BY <1>1, <1>6, <1>7, Zenon

\* The request commits and its answer is lost: the registrations that serve
\* the policy are marked, and nothing is about to be stopped.
LEMMA TnCommitsUnanswered ==
    ASSUME TnIInv, TnCommitUnanswered
    PROVE  TnIInv'
<1>1. /\ tnKind' = tnKind /\ tnTerm' = tnTerm /\ tnTerms' = tnTerms /\ tnReg' = tnReg
      /\ tnH.pc = "commit" /\ tnRow' = [tnRow EXCEPT ![tnH.pol] = tnH.new]
      /\ tnH' = TnNoRequest
  BY Zenon DEF TnCommitUnanswered
<1>2. tnH \in TnAsks /\ tnH.pol \in TnPolicies /\ tnH.new \in TnAnyRows
  BY <1>1, TnParts, TnAskFields, Zenon DEF TnTypeOK, TnRequested
<1>3. \A r \in TnSessions : ~TnLockHeldBy(r) /\ tnS[r].pc \notin {"looked", "install"}
  BY <1>1, TnParts, Zenon DEF TnLocked, TnLockHeldBy
<1>4. ASSUME NEW r \in TnSessions
      PROVE  /\ tnS'[r] \in TnRecs
             /\ tnS'[r].pc = tnS[r].pc /\ tnS'[r].key = tnS[r].key /\ tnS'[r].pol = tnS[r].pol
             /\ tnS'[r].seen = tnS[r].seen /\ tnS'[r].token = tnS[r].token
             /\ tnS'[r].open = tnS[r].open /\ tnS'[r].stop = tnS[r].stop
             /\ tnS'[r].missed <=> \/ tnS[r].missed
                                   \/ tnS[r].pc = "control" /\ tnS[r].pol = tnH.pol
  <2> DEFINE b == tnS[r].missed \/ (tnS[r].pc = "control" /\ tnS[r].pol = tnH.pol)
  <2>1. tnS[r] \in TnRecs /\ b \in BOOLEAN /\ tnS'[r] = [tnS[r] EXCEPT !.missed = b]
    BY TnParts, Zenon DEF TnCommitUnanswered
  <2> HIDE DEF b
  <2>2. /\ tnS'[r] \in TnRecs
        /\ tnS'[r].pc = tnS[r].pc /\ tnS'[r].key = tnS[r].key /\ tnS'[r].pol = tnS[r].pol
        /\ tnS'[r].seen = tnS[r].seen /\ tnS'[r].token = tnS[r].token
        /\ tnS'[r].open = tnS[r].open /\ tnS'[r].stop = tnS[r].stop /\ tnS'[r].missed = b
    BY <2>1, Zenon DEF TnRecs
  <2> QED BY <2>2, Zenon DEF b
<1>5. tnS' \in [TnSessions -> TnRecs]
  <2>1. tnS' = [r \in TnSessions |-> tnS'[r]]
    BY Zenon DEF TnCommitUnanswered
  <2> QED BY <1>4, <2>1, Zenon
<1>6. tnH' \in TnAsks /\ tnH'.pc = "idle"
  BY <1>1, TnAskFields, Zenon
<1>7. TnTypeOK'
  <2>1. tnRow' \in [TnPolicies -> TnAnyRows]
    BY <1>1, <1>2, TnParts, Zenon
  <2> QED BY <1>1, <1>5, <1>6, <2>1, TnParts, Zenon DEF TnTypeOK, TnSlots
<1>8. TnLocked' /\ TnInstalling' /\ TnRequested'
  BY <1>3, <1>4, <1>6, Zenon DEF TnLocked, TnLockHeldBy, TnInstalling, TnRequested
<1>9. TnReads'
  <2> SUFFICES ASSUME NEW q \in TnSessions
               PROVE  /\ tnS'[q].token <= tnTerms
                      /\ tnS'[q].stop => tnS'[q].pc \in {"control", "ended"}
                      /\ tnS'[q].pc \in {"reading", "looking"} =>
                            tnS'[q].key \in TnKeys /\ tnS'[q].token # 0
                      /\ tnS'[q].pc \in {"attaching", "binding", "bound", "looked",
                                          "install", "control"} => TnRead(q)'
    BY <1>1, Zenon DEF TnReads
  <2>1. TnRead(q) => TnRead(q)'
    BY <1>4, Zenon DEF TnRead
  <2>2. TnReads
    BY TnParts, Zenon
  <2> QED BY <1>4, <2>1, <2>2, ZenonT(40) DEF TnReads
<1>10. TnServing'
  <2> SUFFICES ASSUME NEW s \in TnSlots, NEW q \in TnSessions, tnReg[s] = q
               PROVE  /\ tnS'[q].pc = "control" /\ s = TnSlot(tnS'[q].pol, tnS'[q].key)
                      /\ ~tnS'[q].stop /\ ~tnS'[q].missed => TnAgrees(q)'
    BY <1>1, ZenonT(40) DEF TnServing, TnSlot, TnById, TnSlots
  <2>1. tnS[q].pc = "control" /\ s = TnSlot(tnS[q].pol, tnS[q].key)
    BY TnParts, Zenon DEF TnServing
  <2>2. ASSUME ~tnS'[q].stop, ~tnS'[q].missed PROVE TnAgrees(q)'
    <3>1. ~tnS[q].stop /\ ~tnS[q].missed /\ tnS[q].pol # tnH.pol
      BY <1>4, <2>1, <2>2, Zenon
    <3>2. TnRead(q) /\ TnAgrees(q)
      BY <3>1, TnKnown, Zenon
    <3>3. tnRow'[tnS[q].pol] = tnRow[tnS[q].pol]
      BY <1>1, <3>1, <3>2, TnParts, Zenon DEF TnRead
    <3>4. tnS[q].token = tnTerm => tnRow[tnS[q].pol] = tnS[q].seen
      BY <1>1, <3>2, Zenon DEF TnAgrees
    <3>5. /\ tnS'[q].pol = tnS[q].pol /\ tnS'[q].seen = tnS[q].seen
          /\ tnS'[q].token = tnS[q].token /\ tnH'.pc # "stop" /\ tnTerm' = tnTerm
      BY <1>1, <1>4, <1>6, Zenon
    <3> QED BY <3>3, <3>4, <3>5, Zenon DEF TnAgrees
  <2> QED BY <1>4, <2>1, <2>2, Zenon
<1>11. TnOneListener'
  <2>1. TnOneListener
    BY TnParts, Zenon
  <2> QED BY <1>1, <1>4, <2>1, ZenonT(40) DEF TnOneListener
<1>12. TnReachable'
  BY <1>1, <1>4, TnParts, ZenonT(40) DEF TnReachable, TnRegistered, TnSlots
<1> QED BY <1>7, <1>8, <1>9, <1>10, <1>11, <1>12, Zenon DEF TnIInv

\* Leadership is lost, or won with a token no session holds yet.
LEMMA TnTermMoves ==
    ASSUME TnIInv, TnLose \/ TnGain
    PROVE  TnIInv'
<1>1. /\ tnKind' = tnKind /\ tnRow' = tnRow /\ tnReg' = tnReg /\ tnS' = tnS /\ tnH' = tnH
      /\ \/ tnTerm' = 0 /\ tnTerms' = tnTerms
         \/ tnTerm' = tnTerms + 1 /\ tnTerms' = tnTerms + 1
  BY Zenon DEF TnLose, TnGain
<1>2. tnTerm' \in Nat /\ tnTerms' \in Nat /\ tnTerm' <= tnTerms' /\ tnTerms <= tnTerms'
  BY <1>1, TnParts, SMT
<1>3. tnRow' \in [TnPolicies -> TnAnyRows] /\ tnH' \in TnAsks
  BY <1>1, TnParts, Zenon DEF TnTypeOK
<1>4. ASSUME NEW r \in TnSessions, TnRead(r) PROVE tnS[r].token # tnTerm'
  <2>1. tnS[r].token \in Nat /\ tnS[r].token <= tnTerms /\ tnS[r].token # 0
    BY <1>4, TnParts, TnRecFields, Zenon DEF TnReads, TnRead
  <2> QED BY <1>1, <2>1, TnParts, SMT
<1>5. TnLocked'
  BY <1>1, TnParts, Zenon DEF TnLocked, TnLockHeldBy
<1>6. TnRequested'
  <2>1. \A s \in TnSlots, r \in TnSessions : tnReg[s] = r => tnS[r].token # tnTerm'
    BY <1>4, TnKnown, Zenon
  <2> QED BY <1>1, <2>1, TnParts, Zenon DEF TnRequested, TnSlots
<1>7. ASSUME NEW r \in TnSessions, TnRead(r) PROVE TnAgrees(r)'
  BY <1>1, <1>4, <1>7, Zenon DEF TnAgrees
<1>8. \A r \in TnSessions : tnS[r].pc \in {"looked", "install"} => TnAgrees(r)'
  BY <1>7, TnKnown, Zenon
<1>9. \A s \in TnSlots, r \in TnSessions :
        tnReg[s] = r /\ ~tnS[r].stop /\ ~tnS[r].missed => TnAgrees(r)'
  BY <1>7, TnKnown, Zenon
<1> QED BY <1>1, <1>2, <1>3, <1>5, <1>6, <1>8, <1>9, TnAround, Zenon

\* Nothing the invariant speaks of moves.
LEMMA TnStays ==
    ASSUME TnIInv, UNCHANGED <<tnKind, tnRow, tnTerm, tnTerms, tnReg, tnS, tnH>>
    PROVE  TnIInv'
<1>1. /\ tnKind' = tnKind /\ tnRow' = tnRow /\ tnTerm' = tnTerm /\ tnTerms' = tnTerms
      /\ tnReg' = tnReg /\ tnS' = tnS /\ tnH' = tnH
  OBVIOUS
<1>2. /\ tnTerm' \in Nat /\ tnTerms' \in Nat /\ tnTerm' <= tnTerms' /\ tnTerms <= tnTerms'
      /\ tnRow' \in [TnPolicies -> TnAnyRows]
  BY <1>1, TnParts, SMT
<1>3. tnH' \in TnAsks /\ TnLocked' /\ TnRequested'
  BY <1>1, TnParts, Zenon DEF TnTypeOK, TnLocked, TnLockHeldBy, TnRequested, TnSlots
<1>4. ASSUME NEW r \in TnSessions, TnAgrees(r) PROVE TnAgrees(r)'
  BY <1>1, <1>4, Zenon DEF TnAgrees
<1>5. \A r \in TnSessions : tnS[r].pc \in {"looked", "install"} => TnAgrees(r)'
  BY <1>4, TnKnown, Zenon
<1>6. \A s \in TnSlots, r \in TnSessions :
        tnReg[s] = r /\ ~tnS[r].stop /\ ~tnS[r].missed => TnAgrees(r)'
  BY <1>4, TnKnown, Zenon
<1> QED BY <1>1, <1>2, <1>3, <1>5, <1>6, TnAround, Zenon

\* The requests that change policies.
LEMMA TnManages ==
    ASSUME TnIInv, NEW p \in TnPolicies, TnManage(p) \/ TnReconcile(p) \/ TnElsewhere(p)
    PROVE  TnIInv'
<1>0. tnRow[p] \in TnAnyRows /\ tnRow[p].on \in BOOLEAN
  BY TnParts, TnRowFields, Zenon
<1>1. ASSUME NEW kind, TnCreate(p, kind) PROVE TnIInv'
  <2>1. PICK w \in TnRows : tnRow' = [tnRow EXCEPT ![p] = w]
    BY <1>1, Zenon DEF TnCreate
  <2>2. w \in TnAnyRows
    BY TnRowFields, Zenon
  <2>3. tnRow[p].keys = {} /\ UNCHANGED <<tnKind, tnTerm, tnTerms, tnReg, tnS, tnH>>
    BY <1>1, Zenon DEF TnCreate, TnExists
  <2> QED BY <2>1, <2>2, <2>3, TnRowMoves, Zenon
<1>2. \A w \in TnEdited(p) : w \in TnAnyRows /\ [w EXCEPT !.on = tnRow[p].on] \in TnAnyRows
  BY <1>0, TnRowFields, Zenon DEF TnEdited
<1>3. ASSUME NEW kind, TnUpdate(p, kind) PROVE TnIInv'
  <2>1. PICK w \in TnEdited(p) : TnRequest("update", p, [w EXCEPT !.on = tnRow[p].on], kind)
    BY <1>3, Zenon DEF TnUpdate
  <2>2. [w EXCEPT !.on = tnRow[p].on] \in TnAnyRows
    BY <1>2, Zenon
  <2>3. "update" # "enable"
    OBVIOUS
  <2> QED BY <2>1, <2>2, <2>3, TnRequests, Zenon
<1>4. ASSUME NEW kind, TnSetEnabled(p, kind) PROVE TnIInv'
  <2>1. [tnRow[p] EXCEPT !.on = ~tnRow[p].on] \in TnAnyRows
    <3>1. (~tnRow[p].on) \in BOOLEAN
      OBVIOUS
    <3> QED BY <1>0, <3>1, TnRowFields, Zenon
  <2>2. (IF tnRow[p].on THEN "disable" ELSE "enable") = "enable" => ~tnRow[p].on
    BY Zenon
  <2> QED BY <1>4, <2>1, <2>2, TnRequests, Zenon DEF TnSetEnabled
<1>5. ASSUME NEW kind, TnDelete(p, kind) PROVE TnIInv'
  <2>1. "delete" # "enable" /\ TnNoRow \in TnAnyRows
    BY TnRowFields, Zenon
  <2> QED BY <1>5, <2>1, TnRequests, Zenon DEF TnDelete
<1>6. CASE TnReconcile(p)
  <2>1. PICK w \in TnEdited(p) \cup {TnNoRow} : TnRequest("reconcile", p, w, tnKind)
    BY <1>6, Zenon DEF TnReconcile
  <2>2. w \in TnAnyRows
    BY <1>2, TnRowFields, Zenon
  <2>3. "reconcile" # "enable"
    OBVIOUS
  <2> QED BY <2>1, <2>2, <2>3, TnRequests, Zenon
<1>7. CASE TnElsewhere(p)
  <2>1. PICK w \in TnRows \cup {TnNoRow} : tnRow' = [tnRow EXCEPT ![p] = w]
    BY <1>7, Zenon DEF TnElsewhere
  <2>2. w \in TnAnyRows
    BY TnRowFields, Zenon
  <2>3. tnTerm = 0 /\ UNCHANGED <<tnKind, tnTerm, tnTerms, tnReg, tnS, tnH>>
    BY <1>7, Zenon DEF TnElsewhere
  <2> QED BY <2>1, <2>2, <2>3, TnRowMoves, Zenon
<1>8. CASE TnManage(p)
  BY <1>1, <1>3, <1>4, <1>5, <1>8, Zenon DEF TnManage,
     TnCreateTcp, TnUpdateTcp, TnSetTcpEnabled, TnDeleteTcp,
     TnCreateUdp, TnUpdateUdp, TnSetUdpEnabled, TnDeleteUdp,
     TnCreateGroup, TnUpdateGroup, TnSetGroupEnabled, TnDeleteGroup,
     TnCreateSocks5, TnUpdateSocks5, TnSetSocks5Enabled, TnDeleteSocks5,
     TnCreateHttpProxy, TnUpdateHttpProxy, TnSetHttpProxyEnabled, TnDeleteHttpProxy,
     TnCreateHttp, TnUpdateHttp, TnSetHttpEnabled, TnDeleteHttp,
     TnCreateSni, TnUpdateSni, TnSetSniEnabled, TnDeleteSni,
     TnCreateSecret, TnUpdateSecret, TnSetSecretEnabled, TnDeleteSecret
<1> QED BY <1>6, <1>7, <1>8, Zenon

\* The steps of a registration, from its first frame to its last.
LEMMA TnSessionSteps ==
    ASSUME TnIInv, NEW r \in TnSessions,
           \/ TnRegister(r) \/ TnReadPolicy(r)
           \/ TnBindTcp(r) \/ TnBindUdp(r) \/ TnBindSocks5(r) \/ TnBindHttpProxy(r)
           \/ TnAttachUdp(r) \/ TnAttachSocks5(r)
           \/ TnRevalidate(r) \/ TnLookedUp(r) \/ TnCheckTerm(r)
           \/ TnCloseListener(r) \/ TnLeaseLost(r)
    PROVE  TnIInv'
<1>1. ASSUME NEW k \in TnKeys, NEW kinds, TnBegin(r, k, kinds) PROVE TnIInv'
  <2>1. /\ tnS[r].pc = "idle" /\ tnTerm # 0 /\ TnRestStays
        /\ tnS' = [tnS EXCEPT ![r] = [TnNoSession EXCEPT
                     !.pc = "reading", !.key = k, !.token = tnTerm]]
    BY <1>1, Zenon DEF TnBegin, TnAt, TnAcceptsPublicWork, TnRestStays
  <2>2. "reading" \in {"reading", "looking"} /\ "reading" # "looking"
    OBVIOUS
  <2> QED BY <2>1, <2>2, TnBegins, Zenon
<1>2. ASSUME NEW k \in TnKeys, NEW kind, TnLookup(r, k, kind), kind \notin TnTcpKinds
      PROVE  TnIInv'
  <2>1. /\ tnS[r].pc = "idle" /\ tnTerm # 0 /\ TnRestStays
        /\ tnH.pc = "idle" /\ tnKind \notin TnTcpKinds
        /\ tnS' = [tnS EXCEPT ![r] = [TnNoSession EXCEPT
                     !.pc = "looking", !.key = k, !.token = tnTerm]]
    BY <1>2, Zenon DEF TnLookup, TnAt, TnAcceptsPublicWork, TnRestStays, TnLockFree
  <2>2. "looking" \in {"reading", "looking"}
    OBVIOUS
  <2> QED BY <2>1, <2>2, TnBegins, Zenon
<1>3. CASE TnRegister(r)
  <2>1. "http" \notin TnTcpKinds /\ "sni" \notin TnTcpKinds /\ "secret" \notin TnTcpKinds
    BY Zenon DEF TnTcpKinds
  <2> QED BY <1>1, <1>2, <1>3, <2>1, Zenon DEF TnRegister, TnRegisterTcp, TnRegisterUdp,
             TnRegisterSocks5, TnRegisterHttpProxy, TnRegisterHttp, TnRegisterSni,
             TnRegisterSecret
<1>4. CASE TnReadPolicy(r)
  <2>1. tnS[r].pc = "reading" /\ TnRestStays
    BY <1>4, Zenon DEF TnReadPolicy, TnAt, TnRestStays
  <2>2. CASE TnReject(r)
    BY <2>1, <2>2, TnRejects, Zenon
  <2>3. CASE ~TnReject(r)
    <3> DEFINE x == IF tnKind = "udp" THEN "attaching" ELSE "binding"
    <3>1. PICK p \in TnRuntimePolicy(tnS[r].key) :
            tnS' = [tnS EXCEPT ![r] = [@ EXCEPT !.pc = x, !.pol = p, !.seen = tnRow[p]]]
      BY <1>4, <2>3, Zenon DEF TnReadPolicy
    <3>2. x \in {"attaching", "binding", "looked"} /\ x # "looked"
      OBVIOUS
    <3> HIDE DEF x
    <3>3. tnS[r].pc \in {"reading", "looking"}
      BY <2>1, Zenon
    <3> QED BY <2>1, <3>1, <3>2, <3>3, TnReadsRow, Zenon
  <2> QED BY <2>2, <2>3, Zenon
<1>5. CASE TnLookedUp(r)
  <2>1. tnS[r].pc = "looking" /\ TnRestStays
    BY <1>5, Zenon DEF TnLookedUp, TnAt, TnRestStays
  <2>2. CASE TnReject(r)
    BY <2>1, <2>2, TnRejects, Zenon
  <2>3. CASE ~TnReject(r)
    <3>1. PICK p \in TnRuntimePolicy(tnS[r].key) :
            tnS' = [tnS EXCEPT ![r] = [@ EXCEPT !.pc = "looked", !.pol = p, !.seen = tnRow[p]]]
      BY <1>5, <2>3, Zenon DEF TnLookedUp
    <3>2. /\ "looked" \in {"attaching", "binding", "looked"}
          /\ tnS[r].pc \in {"reading", "looking"}
      BY <2>1, Zenon
    <3> QED BY <2>1, <3>1, <3>2, TnReadsRow, Zenon
  <2> QED BY <2>2, <2>3, Zenon
<1>6. ASSUME NEW kinds, NEW next \in {"attaching", "bound"}, TnBind(r, kinds, next)
      PROVE  TnIInv'
  <2>1. tnS[r].pc = "binding" /\ TnRestStays
    BY <1>6, Zenon DEF TnBind, TnAt, TnRestStays
  <2>2. CASE TnReject(r)
    BY <2>1, <2>2, TnRejects, Zenon
  <2>3. CASE ~TnReject(r)
    <3>1. /\ ~TnBound(tnS[r].key)
          /\ tnS' = [tnS EXCEPT ![r] = [@ EXCEPT !.pc = next, !.open = TRUE]]
      BY <1>6, <2>3, Zenon DEF TnBind
    <3> QED BY <2>1, <3>1, TnBinds, Zenon
  <2> QED BY <2>2, <2>3, Zenon
<1>7. CASE TnBindTcp(r) \/ TnBindUdp(r) \/ TnBindSocks5(r) \/ TnBindHttpProxy(r)
  <2>1. "attaching" \in {"attaching", "bound"} /\ "bound" \in {"attaching", "bound"}
    OBVIOUS
  <2> QED BY <1>6, <1>7, <2>1, Zenon DEF TnBindTcp, TnBindUdp, TnBindSocks5, TnBindHttpProxy
<1>8. CASE TnAttachUdp(r) \/ TnAttachSocks5(r)
  <2>1. /\ tnS[r].pc = "attaching" /\ TnRestStays
        /\ \/ TnReject(r)
           \/ tnS' = [tnS EXCEPT ![r].pc = "binding"]
           \/ tnKind = "socks5" /\ tnS' = [tnS EXCEPT ![r].pc = "bound"]
    BY <1>8, Zenon DEF TnAttachUdp, TnAttachSocks5, TnAt, TnRestStays, TnGo
  <2>2. /\ tnS[r].pc # "control" /\ tnS[r].pc \in {"attaching", "bound", "looked"}
        /\ "binding" \in {"binding", "bound", "install"}
        /\ "bound" \in {"binding", "bound", "install"}
        /\ "binding" # "bound" /\ "binding" # "install" /\ "bound" # "install"
        /\ "socks5" \notin TnTcpKinds
    BY <2>1, Zenon DEF TnTcpKinds
  <2> QED BY <2>1, <2>2, TnRejects, TnAdvances, Zenon
<1>9. CASE TnRevalidate(r)
  <2>1. /\ tnS[r].pc = "bound" /\ TnRestStays /\ tnH.pc = "idle"
        /\ \/ TnReject(r)
           \/ /\ tnS' = [tnS EXCEPT ![r].pc = "install"]
              /\ tnRow[tnS[r].pol] = tnS[r].seen
    BY <1>9, Zenon DEF TnRevalidate, TnAt, TnRestStays, TnGo, TnLockFree, TnPolicyUnchanged
  <2>2. tnKind \in TnTcpKinds => tnS[r].open
    BY <2>1, TnParts, Zenon DEF TnOneListener
  <2>3. /\ tnS[r].pc # "control" /\ tnS[r].pc \in {"attaching", "bound", "looked"}
        /\ "install" \in {"binding", "bound", "install"} /\ "install" # "bound"
    BY <2>1, Zenon
  <2> QED BY <2>1, <2>2, <2>3, TnRejects, TnAdvances, Zenon
<1>10. CASE TnCheckTerm(r)
  <2>1. /\ tnS[r].pc = "looked" /\ TnRestStays
        /\ TnReject(r) \/ tnS' = [tnS EXCEPT ![r].pc = "install"]
    BY <1>10, Zenon DEF TnCheckTerm, TnAt, TnRestStays, TnGo
  <2>2. /\ tnH.pc = "idle" /\ (tnS[r].token = tnTerm => tnRow[tnS[r].pol] = tnS[r].seen)
        /\ tnKind \notin TnTcpKinds
    BY <2>1, TnKnown, TnParts, Zenon DEF TnAgrees, TnOneListener
  <2>3. /\ tnS[r].pc # "control" /\ tnS[r].pc \in {"attaching", "bound", "looked"}
        /\ "install" \in {"binding", "bound", "install"} /\ "install" # "bound"
    BY <2>1, Zenon
  <2> QED BY <2>1, <2>2, <2>3, TnRejects, TnAdvances, Zenon
<1>11. CASE TnCloseListener(r)
  <2>1. /\ tnS[r].stop /\ tnS[r].open /\ TnRestStays
        /\ tnS' = [tnS EXCEPT ![r] = IF tnS[r].pc = "ended" THEN TnNoSession
                                     ELSE [@ EXCEPT !.open = FALSE]]
    BY <1>11, Zenon DEF TnCloseListener, TnRestStays
  <2>2. CASE tnS[r].pc = "ended"
    <3>1. TnReject(r) /\ tnS[r].pc # "control"
      BY <2>1, <2>2, Zenon DEF TnReject
    <3> QED BY <2>1, <3>1, TnRejects, Zenon
  <2>3. CASE tnS[r].pc # "ended"
    <3> DEFINE n == [tnS[r] EXCEPT !.open = FALSE]
    <3>1. tnS[r].pc = "control" /\ tnS[r] \in TnRecs
      BY <2>1, <2>3, TnParts, Zenon DEF TnReads
    <3>2. tnS' = [tnS EXCEPT ![r] = n]
      BY <2>1, <2>3, Zenon
    <3>3. /\ n \in TnRecs /\ n.pc = tnS[r].pc /\ n.key = tnS[r].key /\ n.pol = tnS[r].pol
          /\ n.seen = tnS[r].seen /\ n.token = tnS[r].token
          /\ n.missed = tnS[r].missed /\ n.stop = tnS[r].stop
          /\ n.open = FALSE
      BY <3>1, Zenon DEF TnRecs
    <3> HIDE DEF n
    <3>4. /\ tnS' \in [TnSessions -> TnRecs] /\ tnS'[r] = n
          /\ \A q \in TnSessions : q # r => tnS'[q] = tnS[q]
      BY <3>2, <3>3, TnParts, TnReplaced, Zenon
    <3> QED BY <2>1, <3>1, <3>3, <3>4, TnStopped, ZenonT(40)
  <2> QED BY <2>2, <2>3, Zenon
<1>12. CASE TnLeaseLost(r)
  <2> DEFINE n == [tnS[r] EXCEPT !.stop = TRUE]
  <2>1. tnS[r].pc = "control" /\ TnRestStays /\ tnS' = [tnS EXCEPT ![r] = n]
    BY <1>12, Zenon DEF TnLeaseLost, TnAt, TnRestStays
  <2>2. tnS[r] \in TnRecs
    BY TnParts, Zenon
  <2>3. /\ n \in TnRecs /\ n.pc = tnS[r].pc /\ n.key = tnS[r].key /\ n.pol = tnS[r].pol
        /\ n.seen = tnS[r].seen /\ n.token = tnS[r].token
        /\ n.missed = tnS[r].missed /\ n.stop = TRUE
        /\ n.open = tnS[r].open
    BY <2>2, Zenon DEF TnRecs
  <2> HIDE DEF n
  <2>4. /\ tnS' \in [TnSessions -> TnRecs] /\ tnS'[r] = n
        /\ \A q \in TnSessions : q # r => tnS'[q] = tnS[q]
    BY <2>1, <2>3, TnParts, TnReplaced, Zenon
  <2> QED BY <2>1, <2>3, <2>4, TnStopped, Zenon
<1> QED BY <1>3, <1>4, <1>5, <1>7, <1>8, <1>9, <1>10, <1>11, <1>12, Zenon

\* every step of a registration, request or change of term keeps the invariant
LEMMA TnStep == TnIInv /\ [TnNext]_tnVars => TnIInv'
<1> SUFFICES ASSUME TnIInv, [TnNext]_tnVars PROVE TnIInv'
  OBVIOUS
<1>1. ASSUME NEW r \in TnSessions,
             \/ TnInstallTcp(r) \/ TnInstallUdp(r) \/ TnInstallSocks5(r)
             \/ TnInstallHttpProxy(r) \/ TnInstallHttp(r) \/ TnInstallSni(r)
             \/ TnInstallSecret(r)
      PROVE  TnIInv'
  <2>1. CASE TnInstallTcp(r)
    <3>1. tnKind \in TnTcpKinds
      BY <2>1, Zenon DEF TnInstallTcp, TnInstall, TnTcpKinds
    <3> QED BY <2>1, <3>1, TnInstalls, Zenon DEF TnInstallTcp
  <2>2. ASSUME NEW kinds, TnInstall(r, kinds, TRUE) PROVE TnIInv'
    BY <2>2, TnInstalls, Zenon
  <2> QED BY <1>1, <2>1, <2>2, Zenon DEF TnInstallUdp, TnInstallSocks5, TnInstallHttpProxy,
             TnInstallHttp, TnInstallSni, TnInstallSecret
<1>2. ASSUME NEW r \in TnSessions,
             \/ TnEndTcp(r) \/ TnEndUdp(r) \/ TnEndSocks5(r) \/ TnEndHttpProxy(r)
             \/ TnEndHttp(r) \/ TnEndSni(r) \/ TnEndSecret(r)
      PROVE  TnIInv'
  BY <1>2, TnEnds, Zenon DEF TnEndTcp, TnEndUdp, TnEndSocks5, TnEndHttpProxy, TnEndHttp,
     TnEndSni, TnEndSecret
<1>3. CASE TnWatch
  <2>1. CASE tnWas
    <3>1. TnStopSlots(TnSlots) /\ UNCHANGED <<tnKind, tnRow, tnTerm, tnTerms, tnH>>
      BY <1>3, <2>1, Zenon DEF TnWatch
    <3> QED BY <3>1, TnStopsAll, Zenon
  <2>2. CASE ~tnWas
    <3>1. UNCHANGED <<tnKind, tnRow, tnTerm, tnTerms, tnReg, tnS, tnH>>
      BY <1>3, <2>2, Zenon DEF TnWatch
    <3> QED BY <3>1, TnStays, Zenon
  <2> QED BY <2>1, <2>2, Zenon
<1>4. CASE TnBeginStopping
  <2>1. TnStopSlots(TnSlots) /\ UNCHANGED <<tnKind, tnRow, tnTerm, tnTerms, tnH>>
    BY <1>4, Zenon DEF TnBeginStopping
  <2> QED BY <2>1, TnStopsAll, Zenon
<1>5. CASE TnMarkReady \/ TnBeginDrain \/ TnResume \/ UNCHANGED tnVars
  <2>1. UNCHANGED <<tnKind, tnRow, tnTerm, tnTerms, tnReg, tnS, tnH>>
    BY <1>5, Zenon DEF TnMarkReady, TnBeginDrain, TnResume, tnVars
  <2> QED BY <2>1, TnStays, Zenon
<1>6. CASE \E p \in TnPolicies : TnManage(p) \/ TnReconcile(p) \/ TnElsewhere(p)
  BY <1>6, TnManages, Zenon
<1>7. CASE TnCommit \/ TnCommitUnanswered \/ TnStopRuntime \/ TnLose \/ TnGain
  BY <1>7, TnCommits, TnCommitsUnanswered, TnStopsRuntime, TnTermMoves, Zenon
<1>8. CASE \E r \in TnSessions :
             \/ TnRegister(r) \/ TnReadPolicy(r)
             \/ TnBindTcp(r) \/ TnBindUdp(r) \/ TnBindSocks5(r) \/ TnBindHttpProxy(r)
             \/ TnAttachUdp(r) \/ TnAttachSocks5(r)
             \/ TnRevalidate(r) \/ TnLookedUp(r) \/ TnCheckTerm(r)
             \/ TnCloseListener(r) \/ TnLeaseLost(r)
  BY <1>8, TnSessionSteps, Zenon
<1> QED BY <1>1, <1>2, <1>3, <1>4, <1>5, <1>6, <1>7, <1>8, Zenon DEF TnNext

\* Whatever the kind of tunnel, a registration that serves in the term it was
\* made in serves the stored policy, enabled and as it was read, unless it was
\* already serving when PostgreSQL committed a change of its policy and the
\* answer was lost; and every registration that was not told to stop is in the
\* registry, where a later disable, demotion or shutdown finds it.
THEOREM RegistryCurrent == TnSpec => []TnRegistryCurrent
<1>1. ASSUME TnIInv PROVE TnRegistryCurrent
  <2>1. ASSUME NEW s \in TnSlots, tnReg[s] # ""
        PROVE  \/ tnS[tnReg[s]].token # tnTerm \/ tnS[tnReg[s]].stop
               \/ tnS[tnReg[s]].missed \/ tnH.pc = "stop"
               \/ /\ tnRow[tnS[tnReg[s]].pol] = tnS[tnReg[s]].seen
                  /\ tnS[tnReg[s]].seen.on /\ tnS[tnReg[s]].key \in tnS[tnReg[s]].seen.keys
    <3>1. PICK r \in TnSessions : r = tnReg[s]
      BY <1>1, <2>1, TnParts, Zenon DEF TnTypeOK
    <3>2. TnRead(r) /\ (~tnS[r].stop /\ ~tnS[r].missed => TnAgrees(r))
      BY <1>1, <3>1, TnKnown, Zenon
    <3> QED BY <3>1, <3>2, Zenon DEF TnRead, TnAgrees
  <2> QED BY <1>1, <2>1, TnParts, Zenon DEF TnRegistryCurrent, TnServesPolicy
<1> QED BY TnStarts, TnStep, <1>1, PTL DEF TnSpec

=============================================================================
