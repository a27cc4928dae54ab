---------------------------- MODULE HttpPools -------------------------------
(***************************************************************************)
(* The connections a server keeps to HTTP back ends: HTTP/1 for a forward  *)
(* proxy (H1) and HTTP/2 for a route (H2), on the same pool.               *)
(***************************************************************************)
EXTENDS BackendPoolState

(***************************************************************************)
(* linklake-server/http1_backend.rs: the HTTP/1 back-end connections of a  *)
(* forward proxy policy. A request takes an idle connection of its origin  *)
(* or makes one behind the origin's connect gate; it owns the connection   *)
(* until it recycles or discards it. The runtime mutex makes each lookup,  *)
(* registration and return one step.                                       *)
(***************************************************************************)
CONSTANTS
    H1Requests,     \* concurrent requests
    H1Origins,      \* targets of the proxy
    H1Max,          \* max_connections
    H1PerOrigin,    \* max_connections_per_origin
    H1MaxOps,       \* bound on requests
    H1MaxFaults     \* bound on idle timeouts and invalidations

ASSUME H1Assumption ==
    /\ {H1Max, H1PerOrigin, H1MaxOps, H1MaxFaults} \subseteq Nat
    /\ H1PerOrigin <= H1Max

VARIABLES
    h1Entries,    \* pool
    h1Next,       \* next connection id
    h1Idle,       \* ids with a stream in idle
    h1Capacity,   \* ids that hold a permit of connection_permits
    h1Free,       \* permits of connection_permits left
    h1Gate,       \* holder of each origin's connect gate, "" for none
    h1Pc, h1Origin,
    h1Lease,      \* connection id of each request's lease, 0 for none
    h1Now,        \* Instant::now() each request took before the mutex
    h1Clock, h1Ops, h1Faults

h1Vars == <<h1Entries, h1Next, h1Idle, h1Capacity, h1Free, h1Gate, h1Pc, h1Origin,
            h1Lease, h1Now, h1Clock, h1Ops, h1Faults>>

H1Empty == [i \in {} |-> 0]
H1Goto(r, pc) == h1Pc' = [h1Pc EXCEPT ![r] = pc]
H1Leave(r) == h1Gate' = [o \in H1Origins |-> IF h1Gate[o] = r THEN "" ELSE h1Gate[o]]
H1Tick == h1Clock' = h1Clock + 1

H1Init ==
    /\ h1Entries = H1Empty /\ h1Next = 1
    /\ h1Idle = {} /\ h1Capacity = {} /\ h1Free = H1Max
    /\ h1Gate = [o \in H1Origins |-> ""]
    /\ h1Pc = [r \in H1Requests |-> "ready"]
    /\ h1Origin = [r \in H1Requests |-> CHOOSE o \in H1Origins : TRUE]
    /\ h1Lease = [r \in H1Requests |-> 0]
    /\ h1Now = [r \in H1Requests |-> 0]
    /\ h1Clock = 1 /\ h1Ops = 0 /\ h1Faults = 0

\* apply_removal_locked for each of gone: its stream and its permit go; the
\* streams of taken are handed out
H1Apply(gone, taken) ==
    /\ h1Idle' = h1Idle \ (gone \cup taken)
    /\ h1Capacity' = h1Capacity \ gone
    /\ h1Free' = h1Free + Cardinality(gone \cap h1Capacity)

-----------------------------------------------------------------------------
H1Start(r) ==
    /\ h1Pc[r] = "ready" /\ h1Ops < H1MaxOps
    /\ h1Ops' = h1Ops + 1
    /\ \E o \in H1Origins : h1Origin' = [h1Origin EXCEPT ![r] = o]
    /\ H1Goto(r, "look")
    /\ UNCHANGED <<h1Entries, h1Next, h1Idle, h1Capacity, h1Free, h1Gate, h1Lease,
                   h1Now, h1Clock, h1Faults>>

\* an entry whose stream is gone is dropped on the way (see H1Register)
H1Usable(es, o) == {i \in BsCandidates(es, o, 1) : i \in h1Idle}
H1Phantoms(es, o) ==
    {i \in BsCandidates(es, o, 1) \ h1Idle :
       \A j \in H1Usable(es, o) : BsBefore(es, i, j)}

\* acquire_existing, before and behind the gate
H1AcquireExisting(r) ==
    /\ h1Pc[r] \in {"look", "look_gated"}
    /\ LET pruned == BsPruneIdle(h1Entries)
           phantoms == H1Phantoms(pruned.es, h1Origin[r])
           es == BsWithout(pruned.es, phantoms)
           gone == pruned.gone \cup phantoms
           i == BsBest(es, h1Origin[r], 1)
       IN IF H1Usable(es, h1Origin[r]) # {}
          THEN /\ h1Entries' = BsUse(es, i, h1Clock)
               /\ H1Apply(gone, {i})
               /\ h1Lease' = [h1Lease EXCEPT ![r] = i]
               /\ H1Goto(r, "lent") /\ H1Leave(r)
          ELSE /\ h1Entries' = es
               /\ H1Apply(gone, {})
               /\ H1Goto(r, IF h1Pc[r] = "look" THEN "gate" ELSE "reserve")
               /\ UNCHANGED <<h1Lease, h1Gate>>
    /\ UNCHANGED <<h1Next, h1Origin, h1Now, h1Clock, h1Ops, h1Faults>>

H1ConnectGate(r) ==
    /\ h1Pc[r] = "gate" /\ h1Gate[h1Origin[r]] = ""
    /\ h1Gate' = [h1Gate EXCEPT ![h1Origin[r]] = r]
    /\ H1Goto(r, "look_gated")
    /\ UNCHANGED <<h1Entries, h1Next, h1Idle, h1Capacity, h1Free, h1Origin, h1Lease,
                   h1Now, h1Clock, h1Ops, h1Faults>>

\* reserve_connection_capacity: idle entries make room under the mutex, then
\* a permit is taken without it
H1Reserve(r) ==
    /\ h1Pc[r] = "reserve"
    /\ LET pruned == BsPruneIdle(h1Entries)
           room == BsPrepare(pruned.es, h1Origin[r], H1Max, H1PerOrigin)
           gone == pruned.gone \cup room.gone
       IN /\ h1Entries' = BsWithout(h1Entries, gone)
          /\ H1Apply(gone, {})
          /\ IF room.ok THEN H1Goto(r, "permit") /\ UNCHANGED h1Gate
                        ELSE H1Goto(r, "ready") /\ H1Leave(r)
    /\ UNCHANGED <<h1Next, h1Origin, h1Lease, h1Now, h1Clock, h1Ops,
                   h1Faults>>

H1TakePermit(r) ==
    /\ h1Pc[r] = "permit"
    /\ IF h1Free > 0
       THEN h1Free' = h1Free - 1 /\ H1Goto(r, "connecting") /\ UNCHANGED h1Gate
       ELSE H1Goto(r, "ready") /\ H1Leave(r) /\ UNCHANGED h1Free
    /\ UNCHANGED <<h1Entries, h1Next, h1Idle, h1Capacity, h1Origin, h1Lease, h1Now,
                   h1Clock, h1Ops, h1Faults>>

\* the paired stream arrives and the time is taken, before the mutex
H1Connected(r) ==
    /\ h1Pc[r] = "connecting"
    /\ h1Now' = [h1Now EXCEPT ![r] = h1Clock] /\ H1Tick
    /\ H1Goto(r, "register")
    /\ UNCHANGED <<h1Entries, h1Next, h1Idle, h1Capacity, h1Free, h1Gate, h1Origin,
                   h1Lease, h1Ops, h1Faults>>

H1ConnectFails(r) ==
    /\ h1Pc[r] = "connecting"
    /\ h1Free' = h1Free + 1
    /\ H1Goto(r, "ready") /\ H1Leave(r)
    /\ UNCHANGED <<h1Entries, h1Next, h1Idle, h1Capacity, h1Origin, h1Lease, h1Now,
                   h1Clock, h1Ops, h1Faults>>

\* the new entry is registered and the best available one acquired: with
\* the time taken before the mutex that may be another connection, returned
\* in between
H1Register(r) ==
    /\ h1Pc[r] = "register"
    /\ LET pruned == BsPruneIdle(h1Entries)
           room == BsPrepare(pruned.es, h1Origin[r], H1Max, H1PerOrigin)
           gone == pruned.gone \cup room.gone
           es == BsAdd(BsWithout(h1Entries, gone), h1Next, h1Origin[r], h1Now[r])
           i == BsBest(es, h1Origin[r], 1)
       IN IF room.ok
          THEN /\ h1Entries' = BsUse(es, i, h1Now[r])
               /\ h1Next' = h1Next + 1
               /\ h1Idle' = h1Idle \ gone
               /\ h1Capacity' = (h1Capacity \ gone) \cup {i}
               /\ h1Free' = h1Free + Cardinality((gone \cup {i}) \cap h1Capacity)
               /\ h1Lease' = [h1Lease EXCEPT ![r] = i]
               /\ H1Goto(r, "lent")
          ELSE /\ h1Entries' = BsWithout(h1Entries, gone)
               /\ h1Idle' = h1Idle \ pruned.gone
               /\ h1Capacity' = h1Capacity \ pruned.gone
               /\ h1Free' = h1Free + Cardinality(pruned.gone \cap h1Capacity) + 1
               /\ H1Goto(r, "ready")
               /\ UNCHANGED <<h1Next, h1Lease>>
    /\ H1Leave(r) /\ h1Now' = [h1Now EXCEPT ![r] = 0]
    /\ UNCHANGED <<h1Origin, h1Clock, h1Ops, h1Faults>>

\* finish, with the message boundary known: back to the idle streams unless
\* the policy was invalidated meanwhile
H1Recycle(r) ==
    /\ h1Pc[r] = "lent"
    /\ LET i == h1Lease[r] IN
       /\ h1Entries' = BsRelease(h1Entries, i, h1Clock).es
       /\ h1Idle' = h1Idle \cup ({i} \cap DOMAIN h1Entries)
    /\ H1Tick
    /\ H1Goto(r, "ready") /\ h1Lease' = [h1Lease EXCEPT ![r] = 0]
    /\ UNCHANGED <<h1Next, h1Capacity, h1Free, h1Gate, h1Origin, h1Now,
                   h1Ops, h1Faults>>

\* finish after an error, and Drop of a lease
H1Discard(r) ==
    /\ h1Pc[r] = "lent"
    /\ LET out == BsDisconnected(h1Entries, h1Lease[r]) IN
       h1Entries' = out.es /\ H1Apply(out.gone, {})
    /\ H1Goto(r, "ready") /\ h1Lease' = [h1Lease EXCEPT ![r] = 0]
    /\ UNCHANGED <<h1Next, h1Gate, h1Origin, h1Now, h1Clock, h1Ops, h1Faults>>

H1InvalidatePolicy ==
    /\ h1Faults < H1MaxFaults /\ h1Faults' = h1Faults + 1
    /\ LET out == BsInvalidatePolicy(h1Entries) IN
       h1Entries' = out.es /\ H1Apply(out.gone, {})
    /\ UNCHANGED <<h1Next, h1Gate, h1Pc, h1Origin, h1Lease, h1Now, h1Clock,
                   h1Ops>>

H1Expire(i) ==
    /\ h1Faults < H1MaxFaults /\ h1Faults' = h1Faults + 1
    /\ BsMayExpire(h1Entries, i)
    /\ h1Entries' = BsExpire(h1Entries, i)
    /\ UNCHANGED <<h1Next, h1Idle, h1Capacity, h1Free, h1Gate, h1Pc, h1Origin, h1Lease,
                   h1Now, h1Clock, h1Ops>>

H1Next ==
    \/ H1InvalidatePolicy
    \/ \E i \in DOMAIN h1Entries : H1Expire(i)
    \/ \E r \in H1Requests :
          \/ H1Start(r) \/ H1AcquireExisting(r) \/ H1ConnectGate(r) \/ H1Reserve(r)
          \/ H1TakePermit(r) \/ H1Connected(r) \/ H1ConnectFails(r) \/ H1Register(r)
          \/ H1Recycle(r) \/ H1Discard(r)

H1Spec == H1Init /\ [][H1Next]_h1Vars

-----------------------------------------------------------------------------
\* Nothing the pool holds is out of its reach: every idle stream and every
\* permit belongs to an entry, which the idle timeout, an eviction or an
\* invalidation can still remove, and permits are neither lost nor made.
H1Reclaimable ==
    /\ h1Idle \cup h1Capacity \subseteq DOMAIN h1Entries
    /\ h1Free + Cardinality(h1Capacity)
         + Cardinality({r \in H1Requests : h1Pc[r] \in {"connecting", "register"}})
       = H1Max

\* The assertion of acquire_or_connect: the connection a request acquires
\* after connecting is the one it registered.
H1RegisteredIsLeased ==
    \A r \in H1Requests :
       h1Pc[r] = "register" /\ h1Pc'[r] = "lent" => h1Lease'[r] = h1Next
H1AssertionHolds == [][H1RegisteredIsLeased]_h1Vars

(***************************************************************************)
(* linklake-server/http2_backend.rs: the HTTP/2 back-end connections of a  *)
(* route. The state machine and the table of connections have a mutex      *)
(* each, so an entry may exist without its connection and the other way    *)
(* round; each section under a mutex is a step. A connection is driven by  *)
(* a task that reports its end.                                            *)
(***************************************************************************)
CONSTANTS
    H2Requests,    \* concurrent requests, and the task that invalidates
    H2Streams,     \* stream_capacity
    H2Max,         \* connection limit of the route
    H2MaxOps,      \* bound on requests
    H2MaxFaults    \* bound on closed connections, idle timeouts, invalidations

ASSUME H2Assumption == {H2Streams, H2Max, H2MaxOps, H2MaxFaults} \subseteq Nat

H2Word == 2^16  \* stands for the 2^64 values of the counter
H2Ids == 1..(H2MaxOps + 1)

VARIABLES
    h2Entries,   \* state
    h2Next,      \* next connection id
    h2Conns,     \* ids in connections
    h2Closed,    \* ids whose sender is closed
    h2Task,      \* task of each connection: "none", "running", "goaway",
                 \* "failed", "over"
    h2Gate,      \* holder of the connect gate, "" for none
    h2Pc,
    h2Stage,     \* acquire_existing "first", "gated" or on the "new" connection
    h2At,        \* connection each request is about
    h2Hand,      \* removals each request has yet to apply
    h2Gauge,     \* active_streams, as the metrics report it
    h2Clock, h2Ops, h2Faults

h2Vars == <<h2Entries, h2Next, h2Conns, h2Closed, h2Task, h2Gate, h2Pc, h2Stage,
            h2At, h2Hand, h2Gauge, h2Clock, h2Ops, h2Faults>>
h2Links == <<h2Conns, h2Closed, h2Task>>

H2Init ==
    /\ h2Entries = [i \in {} |-> 0] /\ h2Next = 1
    /\ h2Conns = {} /\ h2Closed = {} /\ h2Task = [i \in H2Ids |-> "none"]
    /\ h2Gate = ""
    /\ h2Pc = [r \in H2Requests |-> "ready"]
    /\ h2Stage = [r \in H2Requests |-> "first"]
    /\ h2At = [r \in H2Requests |-> 0]
    /\ h2Hand = [r \in H2Requests |-> {}]
    /\ h2Gauge = 0 /\ h2Clock = 1 /\ h2Ops = 0 /\ h2Faults = 0

H2Fault == h2Faults < H2MaxFaults /\ h2Faults' = h2Faults + 1
H2Goto(r, pc) == h2Pc' = [h2Pc EXCEPT ![r] = pc]
H2At(r, pc) == h2Pc[r] = pc /\ h2Hand[r] = {}
H2Set(r, stage) == h2Stage' = [h2Stage EXCEPT ![r] = stage]
H2Leave(r) == h2Gate' = IF h2Gate = r THEN "" ELSE h2Gate
\* a section of the state mutex, whose removals the caller applies next
H2State(r, out) ==
    h2Entries' = out.es /\ h2Hand' = [h2Hand EXCEPT ![r] = out.gone]

-----------------------------------------------------------------------------
\* apply_removal: the connection leaves the table and its task is stopped
H2Remove(i) ==
    /\ h2Conns' = h2Conns \ {i}
    /\ h2Task' = [h2Task EXCEPT ![i] = IF i \in h2Conns THEN "over" ELSE @]

H2Apply(r) ==
    /\ \E i \in h2Hand[r] :
          H2Remove(i) /\ h2Hand' = [h2Hand EXCEPT ![r] = @ \ {i}]
    /\ UNCHANGED <<h2Entries, h2Next, h2Closed, h2Gate, h2Pc, h2Stage, h2At, h2Gauge,
                   h2Clock, h2Ops, h2Faults>>

H2Start(r) ==
    /\ H2At(r, "ready") /\ h2Ops < H2MaxOps /\ h2Ops' = h2Ops + 1
    /\ H2Goto(r, "prune") /\ H2Set(r, "first")
    /\ UNCHANGED <<h2Entries, h2Next, h2Links, h2Gate, h2At, h2Hand, h2Gauge, h2Clock,
                   h2Faults>>

H2PruneIdle(r) ==
    /\ H2At(r, "prune") /\ H2Goto(r, "acquire")
    /\ H2State(r, BsPruneIdle(h2Entries))
    /\ UNCHANGED <<h2Next, h2Links, h2Gate, h2Stage, h2At, h2Gauge, h2Clock, h2Ops,
                   h2Faults>>

\* acquire_existing: a stream is taken in the state
H2Acquire(r) ==
    /\ H2At(r, "acquire") /\ BsCandidates(h2Entries, "o", H2Streams) # {}
    /\ LET i == BsBest(h2Entries, "o", H2Streams) IN
       /\ h2Entries' = BsUse(h2Entries, i, h2Clock)
       /\ h2At' = [h2At EXCEPT ![r] = i]
    /\ H2Goto(r, "look")
    /\ UNCHANGED <<h2Next, h2Links, h2Gate, h2Stage, h2Hand, h2Gauge, h2Clock, h2Ops,
                   h2Faults>>

\* or there is none: on to the gate, to connecting, or to CapacityBusy
H2NoneFree(r) ==
    /\ H2At(r, "acquire") /\ BsCandidates(h2Entries, "o", H2Streams) = {}
    /\ H2Goto(r, [first |-> "gate", gated |-> "connect", new |-> "ready"][h2Stage[r]])
    /\ IF h2Stage[r] = "new" THEN H2Leave(r) ELSE UNCHANGED h2Gate
    /\ UNCHANGED <<h2Entries, h2Next, h2Links, h2Stage, h2At, h2Hand, h2Gauge, h2Clock,
                   h2Ops, h2Faults>>

\* the connection's sender is cloned from the table
H2Look(r) ==
    /\ H2At(r, "look") /\ h2At[r] \in h2Conns
    /\ H2Goto(r, "check")
    /\ UNCHANGED <<h2Entries, h2Next, h2Links, h2Gate, h2Stage, h2At, h2Hand, h2Gauge,
                   h2Clock, h2Ops, h2Faults>>

\* and is open: the stream is lent and counted
H2Lend(r) ==
    /\ H2At(r, "check") /\ h2At[r] \notin h2Closed
    /\ H2Goto(r, "lent") /\ H2Leave(r)
    /\ h2Gauge' = (h2Gauge + 1) % H2Word
    /\ UNCHANGED <<h2Entries, h2Next, h2Links, h2Stage, h2At, h2Hand, h2Clock, h2Ops,
                   h2Faults>>

\* it is not in the table: the entry is disconnected and the search goes on
H2Missing(r) ==
    /\ H2At(r, "look") /\ h2At[r] \notin h2Conns
    /\ H2State(r, BsDisconnected(h2Entries, h2At[r]))
    /\ H2Goto(r, "acquire") /\ h2At' = [h2At EXCEPT ![r] = 0]
    /\ UNCHANGED <<h2Next, h2Links, h2Gate, h2Stage, h2Gauge, h2Clock, h2Ops, h2Faults>>

\* its sender is closed: mark_draining, then release
H2FindClosed(r) ==
    /\ H2At(r, "check") /\ h2At[r] \in h2Closed
    /\ H2State(r, BsMarkGoaway(h2Entries, h2At[r]))
    /\ H2Goto(r, "release")
    /\ UNCHANGED <<h2Next, h2Links, h2Gate, h2Stage, h2At, h2Gauge, h2Clock, h2Ops,
                   h2Faults>>

\* release: the counter goes down whether or not the stream was counted
H2Release(r, next) ==
    /\ H2State(r, BsRelease(h2Entries, h2At[r], h2Clock))
    /\ h2Gauge' = (h2Gauge - 1) % H2Word
    /\ h2Clock' = h2Clock + 1
    /\ H2Goto(r, next) /\ h2At' = [h2At EXCEPT ![r] = 0]

H2ReleaseClosed(r) ==
    /\ H2At(r, "release") /\ H2Release(r, "acquire")
    /\ UNCHANGED <<h2Next, h2Links, h2Gate, h2Stage, h2Ops, h2Faults>>

\* the lease is dropped with the response, or after a failed request that
\* found the sender closed
H2Drop(r) ==
    /\ H2At(r, "lent") /\ H2Release(r, "ready")
    /\ UNCHANGED <<h2Next, h2Links, h2Gate, h2Stage, h2Ops, h2Faults>>

H2RequestFails(r) ==
    /\ H2At(r, "lent") /\ h2At[r] \in h2Conns \cap h2Closed
    /\ h2Entries # BsMarkGoaway(h2Entries, h2At[r]).es
    /\ H2State(r, BsMarkGoaway(h2Entries, h2At[r]))
    /\ UNCHANGED <<h2Next, h2Links, h2Gate, h2Pc, h2Stage, h2At, h2Gauge, h2Clock, h2Ops,
                   h2Faults>>

-----------------------------------------------------------------------------
\* The new connection: behind the gate, with the handshake in between.

H2ConnectGate(r) ==
    /\ H2At(r, "gate") /\ h2Gate = "" /\ h2Gate' = r
    /\ H2Goto(r, "prune") /\ H2Set(r, "gated")
    /\ UNCHANGED <<h2Entries, h2Next, h2Links, h2At, h2Hand, h2Gauge, h2Clock, h2Ops,
                   h2Faults>>

H2Connected(r) ==
    /\ H2At(r, "connect") /\ H2Goto(r, "register")
    /\ UNCHANGED <<h2Entries, h2Next, h2Links, h2Gate, h2Stage, h2At, h2Hand, h2Gauge,
                   h2Clock, h2Ops, h2Faults>>

H2ConnectFails(r) ==
    /\ H2At(r, "connect") /\ H2Goto(r, "ready") /\ H2Leave(r)
    /\ UNCHANGED <<h2Entries, h2Next, h2Links, h2Stage, h2At, h2Hand, h2Gauge, h2Clock,
                   h2Ops, h2Faults>>

H2Register(r) ==
    /\ H2At(r, "register")
    /\ LET room == BsPrepare(h2Entries, "o", H2Max, H2Max) IN
       IF room.ok
       THEN /\ h2Entries' = BsAdd(BsWithout(h2Entries, room.gone), h2Next, "o", h2Clock)
            /\ h2Hand' = [h2Hand EXCEPT ![r] = room.gone]
            /\ h2At' = [h2At EXCEPT ![r] = h2Next] /\ h2Next' = h2Next + 1
            /\ h2Clock' = h2Clock + 1
            /\ H2Goto(r, "insert") /\ UNCHANGED h2Gate
       ELSE /\ H2Goto(r, "ready") /\ H2Leave(r)
            /\ UNCHANGED <<h2Entries, h2Hand, h2At, h2Next, h2Clock>>
    /\ UNCHANGED <<h2Links, h2Stage, h2Gauge, h2Ops, h2Faults>>

\* the connection enters the table and its task starts
H2Insert(r) ==
    /\ H2At(r, "insert")
    /\ h2Conns' = h2Conns \cup {h2At[r]}
    /\ h2Task' = [h2Task EXCEPT ![h2At[r]] = "running"]
    /\ h2At' = [h2At EXCEPT ![r] = 0]
    /\ H2Goto(r, "acquire") /\ H2Set(r, "new")
    /\ UNCHANGED <<h2Entries, h2Next, h2Closed, h2Gate, h2Hand, h2Gauge, h2Clock, h2Ops,
                   h2Faults>>

-----------------------------------------------------------------------------
\* The end of a connection. Its sender closes before or after its task
\* reports; a clean end observes the GOAWAY, and either way the entry goes.
\* The table follows the state in the same step: once its entry is gone
\* nothing reaches the connection.

H2End(i, how) ==
    /\ h2Task[i] = "running" /\ H2Fault
    /\ h2Task' = [h2Task EXCEPT ![i] = how]
    /\ UNCHANGED <<h2Entries, h2Next, h2Conns, h2Closed, h2Gate, h2Pc, h2Stage, h2At,
                   h2Hand, h2Gauge, h2Clock, h2Ops>>

H2SenderCloses(i) ==
    /\ h2Task[i] \notin {"none", "running"} /\ i \notin h2Closed
    /\ h2Closed' = h2Closed \cup {i}
    /\ UNCHANGED <<h2Entries, h2Next, h2Conns, h2Task, h2Gate, h2Pc, h2Stage, h2At,
                   h2Hand, h2Gauge, h2Clock, h2Ops, h2Faults>>

H2ObserveGoaway(i) ==
    /\ h2Task[i] = "goaway"
    /\ LET out == BsMarkGoaway(h2Entries, i) IN
       /\ h2Entries' = IF i \in h2Conns THEN out.es ELSE h2Entries
       /\ h2Conns' = IF i \in h2Conns THEN h2Conns \ out.gone ELSE h2Conns
    /\ h2Task' = [h2Task EXCEPT ![i] = "failed"]
    /\ UNCHANGED <<h2Next, h2Closed, h2Gate, h2Pc, h2Stage, h2At, h2Hand, h2Gauge,
                   h2Clock, h2Ops, h2Faults>>

H2ConnectionFinished(i) ==
    /\ h2Task[i] = "failed"
    /\ LET out == BsDisconnected(h2Entries, i) IN
       h2Entries' = out.es /\ h2Conns' = h2Conns \ out.gone
    /\ h2Task' = [h2Task EXCEPT ![i] = "over"]
    /\ UNCHANGED <<h2Next, h2Closed, h2Gate, h2Pc, h2Stage, h2At, h2Hand, h2Gauge,
                   h2Clock, h2Ops, h2Faults>>

\* the route stops or is replaced
H2Invalidate(r) ==
    /\ H2At(r, "ready") /\ H2Fault
    /\ H2State(r, BsInvalidatePolicy(h2Entries))
    /\ UNCHANGED <<h2Next, h2Links, h2Gate, h2Pc, h2Stage, h2At, h2Gauge, h2Clock, h2Ops>>

H2Expire(i) ==
    /\ H2Fault /\ BsMayExpire(h2Entries, i)
    /\ h2Entries' = BsExpire(h2Entries, i)
    /\ UNCHANGED <<h2Next, h2Links, h2Gate, h2Pc, h2Stage, h2At, h2Hand, h2Gauge, h2Clock,
                   h2Ops>>

H2NextOf(r) ==
    \/ H2Apply(r) \/ H2Start(r) \/ H2PruneIdle(r) \/ H2Acquire(r) \/ H2NoneFree(r)
    \/ H2Look(r) \/ H2Lend(r) \/ H2Missing(r) \/ H2FindClosed(r)
    \/ H2ReleaseClosed(r) \/ H2Drop(r)
    \/ H2RequestFails(r) \/ H2ConnectGate(r) \/ H2Connected(r) \/ H2ConnectFails(r)
    \/ H2Register(r) \/ H2Insert(r) \/ H2Invalidate(r)

H2Next ==
    \/ \E r \in H2Requests : H2NextOf(r)
    \/ \E i \in H2Ids :
          \/ H2End(i, "goaway") \/ H2End(i, "failed") \/ H2SenderCloses(i)
          \/ H2ObserveGoaway(i) \/ H2ConnectionFinished(i)
    \/ \E i \in DOMAIN h2Entries : H2Expire(i)

H2Spec == H2Init /\ [][H2Next]_h2Vars

-----------------------------------------------------------------------------
\* The streams the pool counts on a connection are those of requests that
\* hold it or are about to: whatever closes, drains or invalidates a
\* connection in between, none is counted forever, which would keep the
\* connection from ever being removed, and none is released twice.
H2ActiveExact ==
    \A i \in DOMAIN h2Entries :
       h2Entries[i].active =
          Cardinality({r \in H2Requests :
             h2At[r] = i /\ h2Pc[r] \in {"look", "check", "release", "lent"}})

\* The active streams the metrics report are those of the requests in
\* flight.
H2StreamsCounted ==
    h2Gauge = Cardinality({r \in H2Requests : h2Pc[r] = "lent"})
-----------------------------------------------------------------------------
\* the HTTP/1 pool alone
H1Alone == H1Init /\ H2Init /\ [][H1Next /\ UNCHANGED h2Vars]_<<h1Vars, h2Vars>>
=============================================================================
