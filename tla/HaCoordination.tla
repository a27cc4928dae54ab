--------------------------- MODULE HaCoordination ---------------------------
(***************************************************************************)
(* Member leases, the leader lease and fencing tokens of the shared        *)
(* coordination database (ha_coordination.rs), driven by the heartbeat     *)
(* task of every server process (ha_runtime.rs).                           *)
(*                                                                         *)
(* A process is one start of the server: its incarnation_id is a fresh     *)
(* UUID, so the process itself stands for the incarnation.  Several        *)
(* processes may carry the same instance_id, one after the other or, when  *)
(* an old one is merely paused, at the same time.                          *)
(*                                                                         *)
(* Time is counted in half seconds.  Rows hold whole seconds.  SQLite      *)
(* truncates the clock to whole seconds, PostgreSQL rounds it to the       *)
(* nearest one when it is cast to BIGINT, but compares lease_until with    *)
(* the unrounded clock in the fence and in the member checks.              *)
(***************************************************************************)
EXTENDS Naturals, Sequences

CONSTANTS
  Process,       \* server processes, one incarnation each
  Instance,      \* instance IDs
  InstanceOf,    \* the instance_id every process is configured with
  NoProcess,     \* the incarnation of an absent row
  Backend,       \* "sqlite" or "postgres"
  MemberLease,   \* member_lease_seconds
  LeaderLease,   \* leader_lease_seconds
  MaxClock       \* bound on the clock, in half seconds

ASSUME ConstantsAssumption ==
  /\ InstanceOf \in [Process -> Instance]
  /\ NoProcess \notin Process
  /\ Backend \in {"sqlite", "postgres"}
  /\ MemberLease \in Nat /\ LeaderLease \in Nat /\ MaxClock \in Nat
  /\ 1 <= LeaderLease /\ LeaderLease <= MemberLease

VARIABLES
  clock,      \* database clock in half seconds
  members,    \* ha_members, one row per instance_id
  leader,     \* the singleton row of ha_leader
  nextToken,  \* ha_fencing_sequence.next_token
  phase,      \* where the bootstrap or the heartbeat of a process stands
  booted,     \* bootstrap has returned
  reply,      \* token answered by the database, not yet published
  view,       \* published local leadership: its token, 0 for none
  maint,      \* the maintenance loop has passed its is_leader() check
  held,       \* token a business operation read with fencing_token()
  tx,         \* an open fenced transaction that has passed its fence
  terms,      \* history: terms[t] is the process granted token t
  lastWrite   \* history: token of the last committed fenced write

dbVars == <<members, leader, nextToken, terms>>
beatVars == <<phase, booted, reply, view>>
workVars == <<maint, held, tx, lastWrite>>
vars == <<clock, dbVars, beatVars, workVars>>

Absent == [incarnation |-> NoProcess, lease_until |-> 0]
NoLeader == [incarnation |-> NoProcess, fencing_token |-> 0, lease_until |-> 0]
Member == [incarnation : Process \cup {NoProcess}, lease_until : Nat]
Leader == [incarnation : Process \cup {NoProcess}, fencing_token : Nat,
           lease_until : Nat]
Phase == {"off", "beating", "registered", "replied", "idle", "stopping", "dead"}

\* One type for every variable.
TypeOK ==
  /\ clock \in Nat
  /\ members \in [Instance -> Member]
  /\ leader \in Leader
  /\ nextToken \in Nat \ {0}
  /\ phase \in [Process -> Phase]
  /\ booted \in [Process -> BOOLEAN]
  /\ reply \in [Process -> Nat]
  /\ view \in [Process -> Nat]
  /\ maint \in [Process -> BOOLEAN]
  /\ held \in [Process -> Nat]
  /\ tx \in [Process -> BOOLEAN]
  /\ terms \in Seq(Process)
  /\ lastWrite \in Nat

Init ==
  /\ clock = 0
  /\ members = [i \in Instance |-> Absent]
  /\ leader = NoLeader
  /\ nextToken = 1
  /\ phase = [p \in Process |-> "off"]
  /\ booted = [p \in Process |-> FALSE]
  /\ reply = [p \in Process |-> 0]
  /\ view = [p \in Process |-> 0]
  /\ maint = [p \in Process |-> FALSE]
  /\ held = [p \in Process |-> 0]
  /\ tx = [p \in Process |-> FALSE]
  /\ terms = <<>>
  /\ lastWrite = 0

-----------------------------------------------------------------------------
(***************************************************************************)
(* Clock and row predicates.                                               *)
(***************************************************************************)

\* unixepoch('now') truncates; CAST(EXTRACT(EPOCH FROM ...) AS BIGINT) rounds.
Now == IF Backend = "postgres" THEN (clock + 1) \div 2 ELSE clock \div 2

\* lease_until > clock_timestamp(); for whole seconds also lease_until > unixepoch('now').
Live(until) == 2 * until > clock

MemberActive(p) ==
  /\ members[InstanceOf[p]].incarnation = p
  /\ Live(members[InstanceOf[p]].lease_until)

\* The leader row bars other candidates: its member is active, its lease runs.
LeaderHolds ==
  /\ leader.incarnation # NoProcess
  /\ MemberActive(leader.incarnation)
  /\ leader.lease_until > Now

\* Seeded fault: the fence compares the incarnation only.
FencePassesForAnyTerm(p, t) ==
  /\ leader.incarnation = p
  /\ Live(leader.lease_until)
  /\ MemberActive(p)

\* assert_sqlite_transaction_fence, assert_postgres_transaction_fence
FencePasses(p, t) ==
  /\ leader.incarnation = p
  /\ leader.fencing_token = t
  /\ Live(leader.lease_until)
  /\ MemberActive(p)

\* Seeded fault: the member row is read without FOR SHARE.
MemberRowNotLocked(i) == FALSE

\* An open fenced transaction holds the leader row and its own member row.
LeaderRowLocked == \E q \in Process : tx[q]
MemberRowLocked(i) == \E q \in Process : tx[q] /\ InstanceOf[q] = i

Running(p) == phase[p] \notin {"off", "dead"}

-----------------------------------------------------------------------------
(***************************************************************************)
(* Process life cycle.                                                     *)
(***************************************************************************)

\* recover_stale_sqlite_leases: every lease of the previous run ends.
RecoverStaleLeases ==
  IF Backend = "sqlite"
    THEN /\ members' = [i \in Instance |-> [members[i] EXCEPT !.lease_until = 0]]
         /\ leader' = [leader EXCEPT !.lease_until = 0]
    ELSE UNCHANGED <<members, leader>>

\* Open the data directory (SQLite: under an exclusive file lock) and enter
\* bootstrap, which recovers stale leases before it registers.
Start(p) ==
  /\ phase[p] = "off"
  /\ Backend = "sqlite" => \A q \in Process : ~Running(q)
  /\ phase' = [phase EXCEPT ![p] = "beating"]
  /\ RecoverStaleLeases
  /\ UNCHANGED <<clock, nextToken, terms, booted, reply, view, workVars>>

\* The process dies: its connections close and an open transaction rolls back.
Crash(p) ==
  /\ Running(p)
  /\ phase' = [phase EXCEPT ![p] = "dead"]
  /\ reply' = [reply EXCEPT ![p] = 0]
  /\ view' = [view EXCEPT ![p] = 0]
  /\ maint' = [maint EXCEPT ![p] = FALSE]
  /\ held' = [held EXCEPT ![p] = 0]
  /\ tx' = [tx EXCEPT ![p] = FALSE]
  /\ UNCHANGED <<clock, dbVars, booted, lastWrite>>

\* supervise_heartbeats: the heartbeat in flight is dropped, local leadership
\* is cleared, the rows in the database are left to expire.
Shutdown(p) ==
  /\ booted[p]
  /\ Running(p)
  /\ phase[p] # "stopping"
  /\ phase' = [phase EXCEPT ![p] = "stopping"]
  /\ reply' = [reply EXCEPT ![p] = 0]
  /\ view' = [view EXCEPT ![p] = 0]
  /\ UNCHANGED <<clock, dbVars, booted, workVars>>

Tick ==
  /\ clock < MaxClock
  /\ clock' = clock + 1
  /\ UNCHANGED <<dbVars, beatVars, workVars>>

-----------------------------------------------------------------------------
(***************************************************************************)
(* One heartbeat: register, then renew or acquire, then publish.  Each of  *)
(* the first two is a database transaction of its own.                     *)
(***************************************************************************)

BeginHeartbeat(p) ==
  /\ phase[p] = "idle"
  /\ phase' = [phase EXCEPT ![p] = "beating"]
  /\ UNCHANGED <<clock, dbVars, booted, reply, view, workVars>>

\* register_or_renew_member: a row of this incarnation is renewed even when it
\* has expired; a row of another incarnation is taken over only then.
Register(p) ==
  LET i == InstanceOf[p] IN
  /\ phase[p] = "beating"
  /\ ~MemberRowLocked(i)
  /\ \/ members[i].incarnation \in {p, NoProcess}
     \/ members[i].lease_until <= Now
  /\ members' = [members EXCEPT ![i] =
       [incarnation |-> p, lease_until |-> Now + MemberLease]]
  /\ phase' = [phase EXCEPT ![p] = "registered"]
  /\ UNCHANGED <<clock, leader, nextToken, terms, booted, reply, view, workVars>>

\* The leader row is this incarnation's, of the believed term, and still live.
Renewable(p) ==
  /\ LeaderHolds
  /\ leader.incarnation = p
  /\ leader.fencing_token = view[p]

\* renew_leadership of the believed term
RenewLeadership(p) ==
  /\ phase[p] = "registered"
  /\ view[p] # 0
  /\ ~LeaderRowLocked
  /\ phase' = [phase EXCEPT ![p] = "replied"]
  /\ leader' = IF Renewable(p) THEN [leader EXCEPT !.lease_until = Now + LeaderLease]
                               ELSE leader
  /\ reply' = [reply EXCEPT ![p] = IF Renewable(p) THEN view[p] ELSE 0]
  /\ UNCHANGED <<clock, members, nextToken, terms, booted, view, workVars>>

\* try_acquire_leadership when the row is this incarnation's and still live
\* (the answer to the heartbeat that acquired it was lost)
RegainLeadership(p) ==
  /\ LeaderHolds
  /\ leader.incarnation = p
  /\ leader' = [leader EXCEPT !.lease_until = Now + LeaderLease]
  /\ reply' = [reply EXCEPT ![p] = leader.fencing_token]
  /\ UNCHANGED <<nextToken, terms>>

\* try_acquire_leadership when another incarnation leads
RemainFollower(p) ==
  /\ LeaderHolds
  /\ leader.incarnation # p
  /\ reply' = [reply EXCEPT ![p] = 0]
  /\ UNCHANGED <<leader, nextToken, terms>>

\* try_acquire_leadership when nobody leads: next token, new leader row
AcquireLeadership(p) ==
  /\ ~LeaderHolds
  /\ leader' = [incarnation |-> p, fencing_token |-> nextToken,
                lease_until |-> Now + LeaderLease]
  /\ nextToken' = nextToken + 1
  /\ terms' = Append(terms, p)
  /\ reply' = [reply EXCEPT ![p] = nextToken]

\* Seeded fault: a leader row that is there is never replaced.
TryAcquireVacancy(p) ==
  /\ phase[p] = "registered"
  /\ view[p] = 0
  /\ ~LeaderRowLocked
  /\ MemberActive(p)
  /\ phase' = [phase EXCEPT ![p] = "replied"]
  /\ IF leader.incarnation = NoProcess THEN AcquireLeadership(p)
     ELSE UNCHANGED <<leader, nextToken, terms, reply>>
  /\ UNCHANGED <<clock, members, booted, view, workVars>>

TryAcquireLeadership(p) ==
  /\ phase[p] = "registered"
  /\ view[p] = 0
  /\ ~LeaderRowLocked
  /\ MemberActive(p)
  /\ phase' = [phase EXCEPT ![p] = "replied"]
  /\ RegainLeadership(p) \/ RemainFollower(p) \/ AcquireLeadership(p)
  /\ UNCHANGED <<clock, members, booted, view, workVars>>

\* The answer arrives: publish_leadership; a bootstrap has then succeeded.
PublishLeadership(p) ==
  /\ phase[p] = "replied"
  /\ view' = [view EXCEPT ![p] = reply[p]]
  /\ reply' = [reply EXCEPT ![p] = 0]
  /\ phase' = [phase EXCEPT ![p] = "idle"]
  /\ booted' = [booted EXCEPT ![p] = TRUE]
  /\ UNCHANGED <<clock, dbVars, workVars>>

\* An error or a timeout at any point of the heartbeat, also after a commit
\* whose answer never came: local leadership is cleared.  A failed bootstrap
\* ends the process.
HeartbeatFails(p) ==
  /\ phase[p] \in {"beating", "registered", "replied"}
  /\ phase' = [phase EXCEPT ![p] = IF booted[p] THEN "idle" ELSE "dead"]
  /\ reply' = [reply EXCEPT ![p] = 0]
  /\ view' = [view EXCEPT ![p] = 0]
  /\ UNCHANGED <<clock, dbVars, booted, workVars>>

-----------------------------------------------------------------------------
(***************************************************************************)
(* Maintenance of expired rows, and fenced business transactions.          *)
(***************************************************************************)

\* maintain_expired_leases checks is_leader() ...
BeginMaintenance(p) ==
  /\ view[p] # 0
  /\ ~maint[p]
  /\ maint' = [maint EXCEPT ![p] = TRUE]
  /\ UNCHANGED <<clock, dbVars, beatVars, held, tx, lastWrite>>

\* ... and prune_expired_members deletes later, without a fence, the rows that
\* are expired at that time, skipping locked ones.
PruneExpiredMembers(p) ==
  /\ maint[p]
  /\ members' = [i \in Instance |->
       IF Live(members[i].lease_until) \/ MemberRowLocked(i) THEN members[i] ELSE Absent]
  /\ maint' = [maint EXCEPT ![p] = FALSE]
  /\ UNCHANGED <<clock, leader, nextToken, terms, beatVars, held, tx, lastWrite>>

\* A business operation reads the token of the local leadership.
ReadFencingToken(p) ==
  /\ view[p] # 0
  /\ held[p] = 0
  /\ held' = [held EXCEPT ![p] = view[p]]
  /\ UNCHANGED <<clock, dbVars, beatVars, maint, tx, lastWrite>>

\* It opens its transaction and asserts the fence, which locks the leader row
\* and the member row until the transaction ends.
AssertFence(p) ==
  /\ held[p] # 0
  /\ ~tx[p]
  /\ FencePasses(p, held[p])
  /\ tx' = [tx EXCEPT ![p] = TRUE]
  /\ UNCHANGED <<clock, dbVars, beatVars, maint, held, lastWrite>>

\* "leadership fencing token is stale; refusing write"
FenceRefused(p) ==
  /\ held[p] # 0
  /\ ~tx[p]
  /\ ~FencePasses(p, held[p])
  /\ held' = [held EXCEPT ![p] = 0]
  /\ UNCHANGED <<clock, dbVars, beatVars, maint, tx, lastWrite>>

CommitFencedWrite(p) ==
  /\ tx[p]
  /\ lastWrite' = held[p]
  /\ tx' = [tx EXCEPT ![p] = FALSE]
  /\ held' = [held EXCEPT ![p] = 0]
  /\ UNCHANGED <<clock, dbVars, beatVars, maint>>

RollbackFencedWrite(p) ==
  /\ tx[p]
  /\ tx' = [tx EXCEPT ![p] = FALSE]
  /\ held' = [held EXCEPT ![p] = 0]
  /\ UNCHANGED <<clock, dbVars, beatVars, maint, lastWrite>>

-----------------------------------------------------------------------------
Heartbeat(p) ==
  \/ BeginHeartbeat(p)
  \/ Register(p)
  \/ RenewLeadership(p)
  \/ TryAcquireLeadership(p)
  \/ PublishLeadership(p)

Work(p) ==
  \/ BeginMaintenance(p)
  \/ PruneExpiredMembers(p)
  \/ ReadFencingToken(p)
  \/ AssertFence(p)
  \/ FenceRefused(p)
  \/ CommitFencedWrite(p)
  \/ RollbackFencedWrite(p)

Next ==
  \/ \E p \in Process :
       \/ Start(p) \/ Crash(p) \/ Shutdown(p)
       \/ Heartbeat(p) \/ HeartbeatFails(p)
       \/ Work(p)
  \/ Tick

Spec == Init /\ [][Next]_vars

\* The heartbeat timer fires, a heartbeat that can move does or, by its timeout,
\* fails, and transactions end.
Fairness ==
  /\ WF_vars(Tick)
  /\ \A p \in Process :
       /\ WF_vars(Heartbeat(p))
       /\ WF_vars(HeartbeatFails(p))
       /\ WF_vars(CommitFencedWrite(p) \/ RollbackFencedWrite(p))

FairSpec == Spec /\ Fairness

-----------------------------------------------------------------------------
(***************************************************************************)
(* Properties.                                                             *)
(***************************************************************************)

\* A transaction that has passed assert_*_transaction_fence belongs to the
\* newest term until it ends, even when its leases run out before the commit.
FencedTxIsNewestTerm ==
  \A p \in Process : tx[p] => held[p] = nextToken - 1 /\ terms[held[p]] = p

\* Such a transaction also keeps its incarnation in the member row: neither a
\* restarted process nor prune_expired_members can remove it before the commit.
FencedTxKeepsMembership ==
  \A p \in Process : tx[p] => members[InstanceOf[p]].incarnation = p

\* A process believes only in a term that try_acquire_leadership granted to it,
\* and in the latest of those, so no two processes ever share a token.
BelievesOwnLatestTerm ==
  \A p \in Process : view[p] # 0 =>
    /\ view[p] < nextToken
    /\ terms[view[p]] = p
    /\ \A t \in view[p] + 1 .. nextToken - 1 : terms[t] # p

\* No committed write of an older leader follows one of a newer leader.
WritesInTermOrder == [][lastWrite' >= lastWrite]_vars

\* The leader row passes to another process only when the lease or the member
\* lease of the old leader is over, up to the half second by which a rounded
\* PostgreSQL clock may be ahead.
NoEarlyTakeover ==
  [][leader'.incarnation # leader.incarnation /\ leader.incarnation # NoProcess
       => \/ 2 * leader.lease_until <= clock + 1
          \/ ~MemberActive(leader.incarnation)]_vars

\* register_or_renew_member gives the row of one incarnation to another only
\* when the lease of the first is over, up to the same half second.
NoEarlyReplacement ==
  [][\A i \in Instance :
       members'[i].incarnation # members[i].incarnation /\ members[i].incarnation # NoProcess
         => 2 * members[i].lease_until <= clock + 1]_vars

\* On SQLite a registered process meets no live leader row but its own: the
\* leases that an earlier process left behind were ended when it started.
SqliteRestartLeads ==
  \A p \in Process : phase[p] = "registered" /\ LeaderHolds => leader.incarnation = p

\* The fencing promise given to the rest of the server.
FenceOpen ==
  /\ leader.incarnation # NoProcess
  /\ FencePasses(leader.incarnation, leader.fencing_token)

Promise == INSTANCE FencedLeadership WITH open <- FenceOpen

\* Every step of leases, locks and clocks is a step of FencedLeadership.
ImplementsFencing == Promise!Spec

\* A heartbeat ends without its answer, or a grant is lost with its answer.  (An
\* answer that grants nothing may get lost: nothing else would be published.)
AnswerLost(p) ==
  /\ HeartbeatFails(p)
  /\ phase[p] = "replied" /\ booted[p] => reply[p] # 0

\* While some process keeps running and its heartbeats stop failing, leadership
\* is not left vacant for good: try_acquire_leadership takes over from a crashed,
\* stopped or expired leader.
Failover ==
  \A p \in Process :
    /\ <>[](phase[p] \notin {"off", "stopping", "dead"})
    /\ <>[][~AnswerLost(p)]_vars
    => []<>LeaderHolds
=============================================================================
