-------------------------- MODULE PublicPortLease ---------------------------
(***************************************************************************)
(* The registration of a TCP tunnel on one public port: the ownership row  *)
(* of the port (public_port_ownership.rs), its supervisor                  *)
(* (public_port_lease.rs), and the listener, control session and registry  *)
(* entry of the tunnel (tcp_tunnel.rs).  HTTP proxy, SOCKS5 and UDP        *)
(* tunnels register in the same way.                                       *)
(*                                                                         *)
(* A registration is one attempt of a client and acquires at most one      *)
(* lease, so it stands for its lease_id and its registration_id.           *)
(***************************************************************************)
EXTENDS Naturals, Sequences

CONSTANTS
  Process,       \* server processes, on hosts of their own
  Registration,  \* attempts to register the port
  ProcessOf,     \* the process that serves an attempt
  None,          \* no registration
  LeaseTicks,    \* length of a port lease
  MaxTerms       \* bound on leadership terms

ASSUME PortAssumption ==
  /\ ProcessOf \in [Registration -> Process]
  /\ None \notin Registration
  /\ LeaseTicks \in Nat \ {0} /\ MaxTerms \in Nat

VARIABLES
  terms, open, view, lastWrite,  \* leadership
  row,       \* the row of the port: lease, token, time left
  handler,   \* where register_tcp_tunnel stands
  regToken,  \* registration_token, read first
  token,     \* expected_fencing_token, read by HaPublicPortLease::acquire
  listener,  \* the listening socket is open
  stop,      \* the stop channel has been signalled
  guard,     \* the lease guard: none, held, starting, watching, releasing
  tunnels,   \* registry entry of the port in a process
  dead       \* processes that crashed

leadershipVars == <<terms, open, view, lastWrite>>
tunnelVars == <<handler, regToken, token, listener, stop, guard, tunnels, dead>>
vars == <<leadershipVars, row, tunnelVars>>

Leadership == INSTANCE FencedLeadership

NoRow == [holder |-> None, fencing_token |-> 0, left |-> 0]
Handler == {"new", "registering", "acquiring", "leased", "bound", "checked", "rejected",
            "serving", "ended"}
Guard == {"none", "held", "starting", "watching", "releasing"}

\* One type for every variable.
TypeOK ==
  /\ terms \in Seq(Process) /\ open \in BOOLEAN
  /\ view \in [Process -> Nat] /\ lastWrite \in Nat
  /\ row \in [holder : Registration \cup {None}, fencing_token : Nat, left : 0 .. LeaseTicks]
  /\ handler \in [Registration -> Handler]
  /\ regToken \in [Registration -> Nat]
  /\ token \in [Registration -> Nat]
  /\ listener \in [Registration -> BOOLEAN]
  /\ stop \in [Registration -> BOOLEAN]
  /\ guard \in [Registration -> Guard]
  /\ tunnels \in [Process -> Registration \cup {None}]
  /\ dead \subseteq Process

Init ==
  /\ Leadership!Init
  /\ row = NoRow
  /\ handler = [r \in Registration |-> "new"]
  /\ regToken = [r \in Registration |-> 0]
  /\ token = [r \in Registration |-> 0]
  /\ listener = [r \in Registration |-> FALSE]
  /\ stop = [r \in Registration |-> FALSE]
  /\ guard = [r \in Registration |-> "none"]
  /\ tunnels = [p \in Process |-> None]
  /\ dead = {}

Set(f, r, v) == [f EXCEPT ![r] = v]
Belief(r) == view[ProcessOf[r]]

-----------------------------------------------------------------------------
(***************************************************************************)
(* The row.                                                                *)
(***************************************************************************)

Fence(r) == Leadership!Fence(ProcessOf[r], token[r])

\* claim_mode: only a live row of the same term is in the way.
Fresh(r) == row.holder = None \/ row.fencing_token < token[r] \/ row.left = 0

\* The WHERE clause that names the exact lease.
HoldsLease(r) == row.holder = r /\ row.fencing_token = token[r]

\* prune_expired: maintain_expired_leases of any process that passed its
\* is_leader() check, perhaps long ago; not fenced.
PruneExpired ==
  /\ row.holder # None
  /\ row.left = 0
  /\ row' = NoRow
  /\ UNCHANGED <<leadershipVars, tunnelVars>>

Tick ==
  /\ row.left > 0
  /\ row' = [row EXCEPT !.left = @ - 1]
  /\ UNCHANGED <<leadershipVars, tunnelVars>>

-----------------------------------------------------------------------------
(***************************************************************************)
(* The handler of a RegisterTcpTunnel frame.                               *)
(***************************************************************************)

\* A registration needs local leadership to begin with.
BeginRegistration(r) ==
  /\ handler[r] = "new"
  /\ Belief(r) # 0
  /\ handler' = Set(handler, r, "registering")
  /\ regToken' = Set(regToken, r, Belief(r))
  /\ UNCHANGED <<leadershipVars, row, token, listener, stop, guard, tunnels, dead>>

\* HaPublicPortLease::acquire reads the token anew ...
ReadToken(r) ==
  /\ handler[r] = "registering"
  /\ Belief(r) # 0
  /\ handler' = Set(handler, r, "acquiring")
  /\ token' = Set(token, r, Belief(r))
  /\ UNCHANGED <<leadershipVars, row, regToken, listener, stop, guard, tunnels, dead>>

\* ... and claims the row in one fenced transaction.
AcquirePort(r) ==
  /\ handler[r] = "acquiring"
  /\ Fence(r)
  /\ Fresh(r)
  /\ row' = [holder |-> r, fencing_token |-> token[r], left |-> LeaseTicks]
  /\ handler' = Set(handler, r, "leased")
  /\ guard' = Set(guard, r, "held")
  /\ UNCHANGED <<leadershipVars, regToken, token, listener, stop, tunnels, dead>>

\* No policy, no leadership, a conflict or an error: the client gets an error.
RejectRegistration(r) ==
  /\ handler[r] \in {"registering", "acquiring"}
  /\ handler' = Set(handler, r, "ended")
  /\ UNCHANGED <<leadershipVars, row, regToken, token, listener, stop, guard, tunnels, dead>>

\* TcpListener::bind; the port is free on this host.
Bind(r) ==
  /\ handler[r] = "leased"
  /\ \A q \in Registration : listener[q] => ProcessOf[q] # ProcessOf[r]
  /\ listener' = Set(listener, r, TRUE)
  /\ handler' = Set(handler, r, "bound")
  /\ UNCHANGED <<leadershipVars, row, regToken, token, stop, guard, tunnels, dead>>

\* Policy and leadership are compared with what the registration began with.
Revalidate(r) ==
  /\ handler[r] = "bound"
  /\ Belief(r) = regToken[r]
  /\ handler' = Set(handler, r, "checked")
  /\ UNCHANGED <<leadershipVars, row, regToken, token, listener, stop, guard, tunnels, dead>>

\* bind fails, or the policy or leadership changed: the lease is released ...
RejectLeased(r) ==
  /\ handler[r] \in {"leased", "bound"}
  /\ handler' = Set(handler, r, "rejected")
  /\ guard' = Set(guard, r, "releasing")
  /\ UNCHANGED <<leadershipVars, row, regToken, token, listener, stop, tunnels, dead>>

\* ... and the socket closed when the handler returns, after it sent the error.
DropListener(r) ==
  /\ handler[r] = "rejected" /\ guard[r] = "none"
  /\ handler' = Set(handler, r, "ended")
  /\ listener' = Set(listener, r, FALSE)
  /\ UNCHANGED <<leadershipVars, row, regToken, token, stop, guard, tunnels, dead>>

\* The supervisor is spawned and the registry entry replaced.
Install(r) ==
  /\ handler[r] = "checked"
  /\ handler' = Set(handler, r, "serving")
  /\ guard' = Set(guard, r, "starting")
  /\ tunnels' = Set(tunnels, ProcessOf[r], r)
  /\ UNCHANGED <<leadershipVars, row, regToken, token, listener, stop, dead>>

\* accept_public_connections ends on the stop signal and drops the socket.
CloseListener(r) ==
  /\ handler[r] \in {"serving", "ended"}
  /\ listener[r] /\ stop[r]
  /\ listener' = Set(listener, r, FALSE)
  /\ UNCHANGED <<leadershipVars, row, handler, regToken, token, stop, guard, tunnels, dead>>

\* Seeded fault: the entry is removed whoever registered it.
RemoveTunnelAlways(r) ==
  /\ tunnels' = Set(tunnels, ProcessOf[r], None)
  /\ stop' = [q \in Registration |-> stop[q] \/ q = r]

\* remove_tunnel: the entry goes, and is stopped, if it is this registration's.
RemoveTunnel(r) ==
  LET mine == tunnels[ProcessOf[r]] = r IN
  /\ tunnels' = IF mine THEN Set(tunnels, ProcessOf[r], None) ELSE tunnels
  /\ stop' = IF mine THEN Set(stop, r, TRUE) ELSE stop

\* run_registered_control ends: stop signal, idle timeout, error, client gone.
EndControl(r) ==
  /\ handler[r] = "serving"
  /\ handler' = Set(handler, r, "ended")
  /\ RemoveTunnel(r)
  /\ UNCHANGED <<leadershipVars, row, regToken, token, listener, guard, dead>>

\* stop_public_port (a policy changed) and stop_all (leadership lost, drain).
StopPublicPort(p) ==
  /\ tunnels[p] # None
  /\ stop' = Set(stop, tunnels[p], TRUE)
  /\ tunnels' = Set(tunnels, p, None)
  /\ UNCHANGED <<leadershipVars, row, handler, regToken, token, listener, guard, dead>>

-----------------------------------------------------------------------------
(***************************************************************************)
(* HaPublicPortLease::spawn_supervisor.                                    *)
(***************************************************************************)

\* Seeded fault: any leadership will do.
LeadershipHeld(r) == Belief(r) # 0

LeadershipMatches(r) == Belief(r) = token[r]

StartSupervisor(r) ==
  /\ guard[r] = "starting"
  /\ LeadershipMatches(r)
  /\ guard' = Set(guard, r, "watching")
  /\ UNCHANGED <<leadershipVars, row, handler, regToken, token, listener, stop, tunnels, dead>>

RenewPort(r) ==
  /\ guard[r] = "watching"
  /\ LeadershipMatches(r)
  /\ Fence(r) /\ HoldsLease(r) /\ row.left > 0
  /\ row' = [row EXCEPT !.left = LeaseTicks]
  /\ UNCHANGED <<leadershipVars, tunnelVars>>

\* Leadership changed, before or after the supervisor started.
LeadershipChanged(r) ==
  /\ guard[r] \in {"starting", "watching"}
  /\ ~LeadershipMatches(r)
  /\ stop' = Set(stop, r, TRUE)
  /\ guard' = Set(guard, r, "releasing")
  /\ UNCHANGED <<leadershipVars, row, handler, regToken, token, listener, tunnels, dead>>

\* The renewal finds no live lease, fails or times out.
RenewalLost(r) ==
  /\ guard[r] = "watching"
  /\ stop' = Set(stop, r, TRUE)
  /\ guard' = Set(guard, r, "releasing")
  /\ UNCHANGED <<leadershipVars, row, handler, regToken, token, listener, tunnels, dead>>

Stopped(r) ==
  /\ guard[r] = "watching"
  /\ stop[r]
  /\ guard' = Set(guard, r, "releasing")
  /\ UNCHANGED <<leadershipVars, row, handler, regToken, token, listener, stop, tunnels, dead>>

\* release_inner, and Drop: a fenced delete of the exact lease, expired or not.
ReleasePort(r) ==
  /\ guard[r] = "releasing"
  /\ Fence(r) /\ HoldsLease(r)
  /\ row' = NoRow
  /\ guard' = Set(guard, r, "none")
  /\ UNCHANGED <<leadershipVars, handler, regToken, token, listener, stop, tunnels, dead>>

\* The release is refused, matches nothing or fails; the row is left to expire.
ReleaseFails(r) ==
  /\ guard[r] = "releasing"
  /\ guard' = Set(guard, r, "none")
  /\ UNCHANGED <<leadershipVars, row, handler, regToken, token, listener, stop, tunnels, dead>>

-----------------------------------------------------------------------------
Local(p) == {r \in Registration : ProcessOf[r] = p}

Crash(p) ==
  /\ p \notin dead
  /\ dead' = dead \cup {p}
  /\ view' = Set(view, p, 0)
  /\ handler' = [r \in Registration |-> IF r \in Local(p) THEN "ended" ELSE handler[r]]
  /\ listener' = [r \in Registration |-> listener[r] /\ r \notin Local(p)]
  /\ stop' = [r \in Registration |-> stop[r] \/ r \in Local(p)]
  /\ guard' = [r \in Registration |-> IF r \in Local(p) THEN "none" ELSE guard[r]]
  /\ tunnels' = Set(tunnels, p, None)
  /\ UNCHANGED <<terms, open, lastWrite, row, regToken, token>>

Environment ==
  /\ \/ \E p \in Process \ dead : Leadership!Grant(p) /\ Len(terms) < MaxTerms
     \/ \E p \in Process \ dead : Leadership!Believe(p)
     \/ Leadership!Reopen
  /\ UNCHANGED <<row, tunnelVars>>

Next ==
  \/ \E r \in Registration :
       \/ BeginRegistration(r) \/ ReadToken(r) \/ AcquirePort(r) \/ RejectRegistration(r)
       \/ Bind(r) \/ Revalidate(r) \/ RejectLeased(r) \/ DropListener(r)
       \/ Install(r) \/ CloseListener(r) \/ EndControl(r)
       \/ StartSupervisor(r) \/ RenewPort(r) \/ LeadershipChanged(r) \/ RenewalLost(r)
       \/ Stopped(r) \/ ReleasePort(r) \/ ReleaseFails(r)
  \/ \E p \in Process : StopPublicPort(p) \/ Crash(p)
  \/ PruneExpired
  \/ Tick
  \/ Environment

Spec == Init /\ [][Next]_vars

\* The tasks of a registration are scheduled.
Fairness ==
  \A r \in Registration :
    /\ WF_vars(LeadershipChanged(r)) /\ WF_vars(Stopped(r)) /\ WF_vars(CloseListener(r))
    /\ WF_vars(StartSupervisor(r))

FairSpec == Spec /\ Fairness

-----------------------------------------------------------------------------
\* An installed listener that was not told to stop is the registry entry of its
\* process: stop_public_port and stop_all reach every listener, also when an old
\* control session ends after its port was registered again.
ListenerIsReachable ==
  \A r \in Registration :
    listener[r] /\ handler[r] \in {"serving", "ended"} /\ ~stop[r] => tunnels[ProcessOf[r]] = r

\* An installed listener has one term: the token it registered with is the token
\* of its lease, although the two were read apart.
ListenerHasOneTerm ==
  \A r \in Registration : handler[r] = "serving" => regToken[r] = token[r]

\* A listener whose process lost the term of its lease is closed, or the process
\* finds itself in that term again.
StaleListenerCloses ==
  \A r \in Registration :
    (handler[r] = "serving" /\ listener[r] /\ Belief(r) # token[r])
      ~> (~listener[r] \/ Belief(r) = token[r])

\* No two sockets are open for the port in the same term, in any processes:
\* two open listeners belong to leases of different terms.
OneListenerPerTerm ==
  \A q, r \in Registration : listener[q] /\ listener[r] /\ token[q] = token[r] => q = r

\* An installed listener can be stopped, and is the only one of its term.
ListenerIsTracked == ListenerIsReachable /\ ListenerHasOneTerm /\ OneListenerPerTerm

=============================================================================
