-------------------------- MODULE BackendPoolState --------------------------
(***************************************************************************)
(* linklake-server/http_backend_pool.rs: the pure state machine both HTTP  *)
(* back-end pools are built on. A pool is a function from connection ids   *)
(* to entries [origin, active, last, draining, expired]: the streams in    *)
(* use, the time of the last use, whether the connection drains, and       *)
(* whether it has been idle for the idle timeout. An operation gives the   *)
(* new entries, and where the code returns removals, the set of ids.       *)
(***************************************************************************)
EXTENDS Naturals, FiniteSets, Functions

BsEntry(origin, now) ==
    [origin |-> origin, active |-> 0, last |-> now, draining |-> FALSE,
     expired |-> FALSE]

BsWithout(es, gone) == [i \in DOMAIN es \ gone |-> es[i]]

BsAvailable(e, capacity) == ~e.draining /\ e.active < capacity
BsIdle(es) == {i \in DOMAIN es : es[i].active = 0}
BsOf(es, origin) == {i \in DOMAIN es : es[i].origin = origin}

\* the least used first, then the most recently used, then the lowest id
BsBefore(es, i, j) ==
    \/ es[i].active < es[j].active
    \/ es[i].active = es[j].active /\ es[i].last > es[j].last
    \/ es[i].active = es[j].active /\ es[i].last = es[j].last /\ i <= j

BsCandidates(es, origin, capacity) ==
    {i \in BsOf(es, origin) : BsAvailable(es[i], capacity)}

BsBest(es, origin, capacity) ==
    LET c == BsCandidates(es, origin, capacity) IN
    CHOOSE i \in c : \A j \in c : BsBefore(es, i, j)

BsUse(es, i, now) ==
    [es EXCEPT ![i].active = @ + 1, ![i].last = now, ![i].expired = FALSE]

BsOlder(es, i, j) == es[i].last < es[j].last \/ (es[i].last = es[j].last /\ i <= j)

\* the n entries of idle that were used the longest ago
BsOldest(es, idle, n) ==
    CHOOSE t \in SUBSET idle :
       Cardinality(t) = n /\ \A i \in t, j \in idle \ t : BsOlder(es, i, j)

BsOver(count, limit) == IF count >= limit THEN count - limit + 1 ELSE 0

\* prepare_registration: idle entries make room, those of the origin first
BsOriginRoom(es, origin, perOrigin) ==
    BsOver(Cardinality(BsOf(es, origin)), perOrigin)
BsPrepare(es, origin, max, perOrigin) ==
    LET own == BsIdle(es) \cap BsOf(es, origin)
        n == BsOriginRoom(es, origin, perOrigin)
    IN IF Cardinality(own) < n THEN [ok |-> FALSE, gone |-> {}]
       ELSE LET first == BsOldest(es, own, n)
                rest == BsWithout(es, first)
                m == BsOver(Cardinality(DOMAIN rest), max)
            IN IF Cardinality(BsIdle(rest)) < m THEN [ok |-> FALSE, gone |-> first]
               ELSE [ok |-> TRUE, gone |-> first \cup BsOldest(rest, BsIdle(rest), m)]

BsAdd(es, id, origin, now) ==
    [i \in DOMAIN es \cup {id} |-> IF i = id THEN BsEntry(origin, now) ELSE es[i]]

\* one stream ends: a draining connection goes with its last one
BsRelease(es, i, now) ==
    IF i \notin DOMAIN es \/ es[i].active = 0 THEN [es |-> es, gone |-> {}]
    ELSE LET used == [es EXCEPT ![i].active = @ - 1, ![i].last = now]
         IN IF used[i].draining /\ used[i].active = 0
            THEN [es |-> BsWithout(used, {i}), gone |-> {i}]
            ELSE [es |-> used, gone |-> {}]

BsMarkGoaway(es, i) ==
    IF i \notin DOMAIN es THEN [es |-> es, gone |-> {}]
    ELSE IF es[i].active = 0 THEN [es |-> BsWithout(es, {i}), gone |-> {i}]
    ELSE [es |-> [es EXCEPT ![i].draining = TRUE], gone |-> {}]

BsDisconnected(es, i) ==
    [es |-> BsWithout(es, {i}), gone |-> {i} \cap DOMAIN es]

BsInvalidatePolicy(es) == [es |-> BsWithout(es, DOMAIN es), gone |-> DOMAIN es]

BsExpired(es) == {i \in BsIdle(es) : es[i].expired}
BsPruneIdle(es) == [es |-> BsWithout(es, BsExpired(es)), gone |-> BsExpired(es)]

\* time passes: the idle timeout of an entry is over, and so is that of the
\* entries used before it
BsMayExpire(es, i) ==
    /\ i \in BsIdle(es) /\ ~es[i].expired
    /\ \A j \in BsIdle(es) : es[j].last < es[i].last => es[j].expired
BsExpire(es, i) == [es EXCEPT ![i].expired = TRUE]

=============================================================================
