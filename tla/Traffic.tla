------------------------------ MODULE Traffic -------------------------------
(***************************************************************************)
(* Forwarded traffic: its accounting (Tu) and its limits (Tc).             *)
(***************************************************************************)
EXTENDS Sequences, FiniteSets, FiniteSetsExt, Integers, SequencesExt

(***************************************************************************)
(* Accounting of forwarded bytes: every connection has a meter in memory,  *)
(* meters are checkpointed as events into a local durable spool, the spool *)
(* is uploaded to the ledger (the same SQLite file, or PostgreSQL, where   *)
(* the leader alone adds the events to the daily totals), and a shutdown   *)
(* closes the admission and drains the spool.  The local commit and the    *)
(* upload may take effect although they report an error.                   *)
(* Sources: traffic_usage_meter.rs, traffic_usage_spool.rs,                *)
(* traffic_control.rs, traffic_control_postgres.rs, lifecycle.rs, and      *)
(* finish_traffic_accounting of main.rs.                                   *)
(***************************************************************************)
CONSTANTS
    TuMeters,      \* connections that may be opened
    TuCheckpoint,  \* CHECKPOINT_BYTES
    TuQuota,       \* daily_quota_bytes of the policy
    TuMaxBytes,    \* bound on the bytes forwarded
    TuMaxFaults    \* bound on errors, crashes and changes of leadership

ASSUME TuAssumption ==
    {TuCheckpoint, TuQuota} \subseteq Nat \ {0} /\ {TuMaxBytes, TuMaxFaults} \subseteq Nat

VARIABLES
    tuPhase,     \* LifecyclePhase
    tuPg,        \* the ledger is PostgreSQL
    tuLead, tuMember,
    tuM,         \* meters: [st, bytes, staged]
    tuEvents,    \* bytes of each usage event created, by its UUID (index)
    tuSpool,     \* events in traffic_usage_spool
    tuLedger,    \* events in the usage event table
    tuApplied,   \* events added to the daily usage
    tuDaily,     \* the daily usage
    tuFault, tuClosing, tuActive,
    tuPump,      \* the worker, an admission and the shutdown: [pc, todo, batch]
    tuStop,      \* finish_traffic_accounting
    tuForwarded, \* bytes forwarded since ever
    tuLost,      \* of these, gone with a meter whose checkpoints failed
    tuGone,      \* of these, gone with a process that was killed
    tuSeen,      \* bytes forwarded when the last admission began
    tuAdmit,     \* its decision
    tuFaults

tuVars == <<tuPhase, tuPg, tuLead, tuMember, tuM, tuEvents, tuSpool, tuLedger,
            tuApplied, tuDaily, tuFault, tuClosing, tuActive, tuPump, tuStop,
            tuForwarded, tuLost, tuGone, tuSeen, tuAdmit, tuFaults>>

TuNoMeter == [st |-> "none", bytes |-> 0, staged |-> 0]
TuIdle == [pc |-> "idle", todo |-> {}, batch |-> {}, stale |-> FALSE]
TuPumpers == {"worker", "admission", "shutdown"}

TuInit ==
    /\ tuPhase = "starting"
    /\ tuPg \in BOOLEAN /\ tuLead = TRUE /\ tuMember = TRUE
    /\ tuM = [m \in TuMeters |-> TuNoMeter]
    /\ tuEvents = <<>> /\ tuSpool = {} /\ tuLedger = {} /\ tuApplied = {}
    /\ tuDaily = 0 /\ tuFault = FALSE /\ tuClosing = FALSE /\ tuActive = 0
    /\ tuPump = [p \in TuPumpers |-> TuIdle]
    /\ tuStop = "run" /\ tuForwarded = 0 /\ tuLost = 0 /\ tuGone = 0
    /\ tuSeen = 0 /\ tuAdmit = "none" /\ tuFaults = 0

TuFailing == tuFaults < TuMaxFaults /\ tuFaults' = tuFaults + 1

\* bytes of a set of events
TuBytes(events, ids) == MapThenSumSet(LAMBDA i : events[i], ids)

-----------------------------------------------------------------------------
(* lifecycle.rs                                                            *)

TuMarkReady == tuPhase = "starting" /\ tuPhase' = "ready"
TuBeginDrain == tuPhase \in {"ready", "draining"} /\ tuPhase' = "draining"
TuResume == tuPhase = "draining" /\ tuPhase' = "ready"
TuAcceptsNewWork == tuPhase = "ready"
TuAcceptsPublicWork == TuAcceptsNewWork /\ (tuPg => tuLead)

TuLifecycle ==
    /\ TuMarkReady \/ TuBeginDrain \/ TuResume
    /\ UNCHANGED <<tuGone, tuPg, tuLead, tuMember, tuM, tuEvents, tuSpool, tuLedger,
                   tuApplied, tuDaily, tuFault, tuClosing, tuActive, tuPump, tuStop,
                   tuForwarded, tuLost, tuSeen, tuAdmit, tuFaults>>

-----------------------------------------------------------------------------
(* Meters.                                                                 *)

TuForwarding == ~tuFault /\ ~tuClosing

\* register_meter: not counted once the admission is closing
TuNewMeter(m) ==
    /\ tuM[m].st = "none" /\ tuPhase # "starting" /\ tuStop \notin {"ok", "err"}
    /\ tuM' = [tuM EXCEPT ![m].st = IF tuClosing THEN "unregistered" ELSE "open"]
    /\ tuActive' = IF tuClosing THEN tuActive ELSE tuActive + 1
    /\ UNCHANGED <<tuGone, tuPhase, tuPg, tuLead, tuMember, tuEvents, tuSpool,
                   tuLedger, tuApplied, tuDaily, tuFault, tuClosing, tuPump, tuStop,
                   tuForwarded, tuLost, tuSeen, tuAdmit, tuFaults>>

\* mutant: a failed event is forgotten and its bytes staged under a new UUID
TuStageAnew(x) ==
    IF x.bytes = 0 THEN x
    ELSE [x EXCEPT !.events = Append(@, x.bytes), !.staged = Len(x.events) + 1]

\* flush_locked, first half: an event that failed keeps its UUID and bytes
TuStage(x) ==
    IF x.staged # 0 \/ x.bytes = 0 THEN x
    ELSE [x EXCEPT !.events = Append(@, x.bytes), !.staged = Len(x.events) + 1]

\* enqueue: INSERT OR IGNORE and commit, or an error before or after it
TuEnqueue(x, outcome) ==
    IF x.staged = 0 THEN x
    ELSE CASE outcome = "ok" ->
                [x EXCEPT !.spool = @ \cup {x.staged}, !.staged = 0,
                          !.bytes = x.bytes - x.events[x.staged]]
           [] outcome = "unknown" ->
                [x EXCEPT !.spool = @ \cup {x.staged}, !.failed = TRUE]
           [] outcome = "lost" -> [x EXCEPT !.failed = TRUE]

\* flush_locked: at most two rounds, the staged event and what came after it
TuFlush(x, outcome) ==
    LET once == TuEnqueue(TuStage(x), IF outcome = "second" THEN "ok" ELSE outcome)
    IN IF once.failed \/ once.bytes = 0 THEN once
       ELSE TuEnqueue(TuStage(once), IF outcome = "second" THEN "lost" ELSE "ok")

\* a checkpoint of meter m, its bytes counted before by add
TuCheckpointed(m, bytes, outcome, st) ==
    LET x == [bytes |-> bytes, staged |-> tuM[m].staged, events |-> tuEvents,
              spool |-> tuSpool, failed |-> FALSE]
        y == TuFlush(x, outcome) IN
    /\ y.failed => TuFailing
    /\ ~y.failed => outcome = "ok" /\ UNCHANGED tuFaults
    /\ tuM' = [tuM EXCEPT ![m] = [st |-> st, bytes |-> y.bytes, staged |-> y.staged]]
    /\ tuEvents' = y.events /\ tuSpool' = y.spool
    /\ tuFault' = (tuFault \/ y.failed)

TuOutcomes == {"ok", "unknown", "lost", "second"}

\* poll_read, poll_write: ensure_open, then the transfer and add
TuEnsureOpen(m) ==
    /\ tuM[m].st = "open" /\ TuForwarding /\ tuForwarded < TuMaxBytes
    /\ tuM' = [tuM EXCEPT ![m].st = "io"]
    /\ UNCHANGED <<tuGone, tuPhase, tuPg, tuLead, tuMember, tuEvents, tuSpool,
                   tuLedger, tuApplied, tuDaily, tuFault, tuClosing, tuActive,
                   tuPump, tuStop, tuForwarded, tuLost, tuSeen, tuAdmit, tuFaults>>

TuAdd(m, outcome) ==
    /\ tuM[m].st = "io"
    /\ tuForwarded' = tuForwarded + 1
    /\ IF tuM[m].bytes + 1 >= TuCheckpoint
       THEN TuCheckpointed(m, tuM[m].bytes + 1, outcome, "open")
       ELSE /\ outcome = "ok"
            /\ tuM' = [tuM EXCEPT ![m].bytes = @ + 1, ![m].st = "open"]
            /\ UNCHANGED <<tuEvents, tuSpool, tuFault, tuFaults>>
    /\ UNCHANGED <<tuGone, tuPhase, tuPg, tuLead, tuMember, tuLedger, tuApplied,
                   tuDaily, tuClosing, tuActive, tuPump, tuStop, tuLost, tuSeen,
                   tuAdmit>>

\* the last owner lets the meter go: no checkpoint_active reaches it any more
TuRelease(m) ==
    /\ tuM[m].st = "open" /\ \A p \in TuPumpers : m \notin tuPump[p].todo
    /\ tuM' = [tuM EXCEPT ![m].st = "dropping"]
    /\ UNCHANGED <<tuGone, tuPhase, tuPg, tuLead, tuMember, tuEvents, tuSpool,
                   tuLedger, tuApplied, tuDaily, tuFault, tuClosing, tuActive,
                   tuPump, tuStop, tuForwarded, tuLost, tuSeen, tuAdmit, tuFaults>>

\* drop: the last checkpoint, and only then finish_meter
TuDrop(m, outcome) ==
    /\ tuM[m].st = "dropping"
    /\ TuCheckpointed(m, tuM[m].bytes, outcome, "dropped")
    /\ UNCHANGED <<tuGone, tuPhase, tuPg, tuLead, tuMember, tuLedger, tuApplied,
                   tuDaily, tuClosing, tuActive, tuPump, tuStop, tuForwarded,
                   tuLost, tuSeen, tuAdmit>>

\* what a checkpoint that never succeeded still held is gone with the meter
TuHeld(m) ==
    tuM[m].bytes - (IF tuM[m].staged \in tuSpool \cup tuLedger
                    THEN tuEvents[tuM[m].staged] ELSE 0)

TuFinishMeter(m) ==
    /\ tuM[m].st \in {"dropped", "unregistered"} /\ tuStop \notin {"ok", "err"}
    /\ tuActive' = IF tuM[m].st = "dropped" THEN tuActive - 1 ELSE tuActive
    /\ tuLost' = tuLost + TuHeld(m)
    /\ tuM' = [tuM EXCEPT ![m] = TuNoMeter]
    /\ UNCHANGED <<tuGone, tuPhase, tuPg, tuLead, tuMember, tuEvents, tuSpool,
                   tuLedger, tuApplied, tuDaily, tuFault, tuClosing, tuPump, tuStop,
                   tuForwarded, tuSeen, tuAdmit, tuFaults>>

-----------------------------------------------------------------------------
(* The upload: pump, run by the worker and by an admission.                *)

\* the registry: weak references that can still be upgraded
TuOpenMeters == {m \in TuMeters : tuM[m].st \in {"open", "io"}}
TuPc(p, pc) == tuPump' = [tuPump EXCEPT ![p].pc = pc]
TuAbort(p) == tuPump' = [tuPump EXCEPT ![p] = TuIdle]

TuStartPump(p) ==
    tuPump' = [tuPump EXCEPT ![p] = [pc |-> "checkpoint", todo |-> TuOpenMeters,
                                     batch |-> {}, stale |-> @.stale]]

\* run: a tick, or drain after stop was sent
TuTick ==
    /\ tuPump["worker"].pc = "idle" /\ tuPhase # "starting"
    /\ tuStop \in {"run", "waiting", "last", "lastlate"} \/ (tuStop \in {"drain", "drainlate"} /\ tuSpool # {})
    /\ ~tuFault \/ tuStop \in {"drain", "drainlate"}
    /\ TuStartPump("worker")
    /\ UNCHANGED <<tuGone, tuPhase, tuPg, tuLead, tuMember, tuM, tuEvents, tuSpool,
                   tuLedger, tuApplied, tuDaily, tuFault, tuClosing, tuActive,
                   tuStop, tuForwarded, tuLost, tuSeen, tuAdmit, tuFaults>>

\* checkpoint_active, one meter at a time, then batch; an error ends the pump
TuPumpCheckpoint(p, outcome) ==
    /\ tuPump[p].pc = "checkpoint"
    /\ \/ /\ tuPump[p].todo = {} /\ outcome = "ok"
          /\ tuPump' = [tuPump EXCEPT ![p] = IF p = "shutdown" THEN TuIdle
                ELSE [pc |-> "upload", todo |-> {}, batch |-> tuSpool, stale |-> @.stale]]
          /\ UNCHANGED <<tuM, tuEvents, tuSpool, tuFault, tuFaults>>
       \/ \E m \in tuPump[p].todo :
             /\ TuCheckpointed(m, tuM[m].bytes, outcome, tuM[m].st)
             /\ IF tuFaults' # tuFaults THEN TuAbort(p)
                ELSE tuPump' = [tuPump EXCEPT ![p].todo = @ \ {m}]
    /\ UNCHANGED <<tuGone, tuPhase, tuPg, tuLead, tuMember, tuLedger, tuApplied,
                   tuDaily, tuClosing, tuActive, tuStop, tuForwarded, tuLost,
                   tuSeen, tuAdmit>>

\* record_usage_event: inserted once, added to the daily usage when inserted
TuRecordEvent(e) ==
    /\ tuLedger' = tuLedger \cup {e} /\ tuApplied' = tuApplied \cup {e}
    /\ tuDaily' = IF e \in tuLedger THEN tuDaily ELSE tuDaily + tuEvents[e]

\* enqueue_usage_event on PostgreSQL: a member inserts, the leader applies later
TuInsertEvent(e) ==
    tuMember /\ tuLedger' = tuLedger \cup {e} /\ UNCHANGED <<tuApplied, tuDaily>>

\* the event is stored, and acknowledged unless the answer was lost
TuUpload(p) ==
    /\ tuPump[p].pc = "upload" /\ tuPump[p].batch # {}
    /\ LET e == Min(tuPump[p].batch) IN
       \/ /\ IF tuPg THEN TuInsertEvent(e) ELSE TuRecordEvent(e)
          /\ \/ TuPc(p, "ack") /\ UNCHANGED tuFaults
             \/ TuAbort(p) /\ TuFailing
       \/ /\ IF tuPg /\ ~tuMember THEN UNCHANGED tuFaults ELSE TuFailing
          /\ TuAbort(p)
          /\ UNCHANGED <<tuLedger, tuApplied, tuDaily>>
    /\ UNCHANGED <<tuGone, tuPhase, tuPg, tuLead, tuMember, tuM, tuEvents, tuSpool,
                   tuFault, tuClosing, tuActive, tuStop, tuForwarded, tuLost,
                   tuSeen, tuAdmit>>

TuAcknowledge(p) ==
    /\ tuPump[p].pc = "ack"
    /\ LET e == Min(tuPump[p].batch) IN
       /\ tuSpool' = tuSpool \ {e}
       /\ tuPump' = [tuPump EXCEPT ![p].pc = "upload", ![p].batch = @ \ {e}]
    /\ UNCHANGED <<tuGone, tuPhase, tuPg, tuLead, tuMember, tuM, tuEvents, tuLedger,
                   tuApplied, tuDaily, tuFault, tuClosing, tuActive, tuStop,
                   tuForwarded, tuLost, tuSeen, tuAdmit, tuFaults>>

\* drain_pending_usage and apply_event: the leader adds what is not applied
TuApplyEvents ==
    IF tuPg /\ tuLead
    THEN tuApplied' = tuLedger /\ tuDaily' = tuDaily + TuBytes(tuEvents, tuLedger \ tuApplied)
    ELSE UNCHANGED <<tuApplied, tuDaily>>

TuPumpEnd(p) ==
    /\ tuPump[p].pc = "upload" /\ tuPump[p].batch = {}
    /\ \/ TuApplyEvents /\ UNCHANGED tuFaults
       \/ tuPg /\ tuLead /\ TuFailing /\ UNCHANGED <<tuApplied, tuDaily>>
    /\ IF p = "worker" \/ tuFaults' # tuFaults THEN TuAbort(p) ELSE TuPc(p, "pumped")
    /\ UNCHANGED <<tuGone, tuPhase, tuPg, tuLead, tuMember, tuM, tuEvents, tuSpool,
                   tuLedger, tuFault, tuClosing, tuActive, tuStop, tuForwarded,
                   tuLost, tuSeen, tuAdmit>>

-----------------------------------------------------------------------------
(* authorize_traffic.                                                      *)

\* bytes a meter being dropped still holds are out of the admission's reach
TuOutOfReach == {m \in TuMeters : tuM[m].st = "dropping"}

\* lock_admission, ensure_forwarding and checkpoint_active
TuAuthorize ==
    /\ tuPump["admission"].pc = "idle" /\ TuAcceptsPublicWork /\ TuForwarding
    /\ tuPump' = [tuPump EXCEPT !["admission"] =
          [pc |-> "checkpoint", todo |-> TuOpenMeters, batch |-> {}, stale |-> FALSE]]
    /\ tuSeen' = tuForwarded - MapThenSumSet(TuHeld, TuOutOfReach) - tuLost - tuGone
    /\ tuAdmit' = "none"
    /\ UNCHANGED <<tuGone, tuPhase, tuPg, tuLead, tuMember, tuM, tuEvents, tuSpool,
                   tuLedger, tuApplied, tuDaily, tuFault, tuClosing, tuActive,
                   tuStop, tuForwarded, tuLost, tuFaults>>

TuPumpAgain ==
    /\ tuPump["admission"].pc = "pumped" /\ tuSpool # {}
    /\ TuStartPump("admission")
    /\ UNCHANGED <<tuGone, tuPhase, tuPg, tuLead, tuMember, tuM, tuEvents, tuSpool,
                   tuLedger, tuApplied, tuDaily, tuFault, tuClosing, tuActive,
                   tuStop, tuForwarded, tuLost, tuSeen, tuAdmit, tuFaults>>

\* used_today_bytes: on PostgreSQL the daily usage and the pending events
TuUsed == tuDaily + (IF tuPg THEN TuBytes(tuEvents, tuLedger \ tuApplied) ELSE 0)

TuDecide ==
    /\ tuPump["admission"].pc = "pumped" /\ tuSpool = {}
    /\ tuAdmit' = IF ~TuForwarding \/ ~TuAcceptsPublicWork \/ tuPump["admission"].stale
                     \/ TuUsed >= TuQuota
                  THEN "refused" ELSE "allowed"
    /\ TuAbort("admission")
    /\ UNCHANGED <<tuGone, tuPhase, tuPg, tuLead, tuMember, tuM, tuEvents, tuSpool,
                   tuLedger, tuApplied, tuDaily, tuFault, tuClosing, tuActive,
                   tuStop, tuForwarded, tuLost, tuSeen, tuFaults>>

-----------------------------------------------------------------------------
(* Shutdown, crash and membership.                                         *)

TuCloseAdmission ==
    /\ tuStop = "run" /\ tuPhase # "starting"
    /\ tuStop' = "waiting" /\ tuPhase' = "stopping" /\ tuClosing' = TRUE
    /\ UNCHANGED <<tuGone, tuPg, tuLead, tuMember, tuM, tuEvents, tuSpool, tuLedger,
                   tuApplied, tuDaily, tuFault, tuActive, tuPump, tuForwarded,
                   tuLost, tuSeen, tuAdmit, tuFaults>>

\* the meters have finished or 30 seconds passed, then checkpoint_active
TuMetersFinished ==
    /\ tuStop = "waiting"
    /\ tuStop' = IF tuActive = 0 THEN "last" ELSE "lastlate"
    /\ TuStartPump("shutdown")
    /\ UNCHANGED <<tuGone, tuPhase, tuPg, tuLead, tuMember, tuM, tuEvents, tuSpool,
                   tuLedger, tuApplied, tuDaily, tuFault, tuClosing, tuActive,
                   tuForwarded, tuLost, tuSeen, tuAdmit, tuFaults>>

TuSendStop ==
    /\ tuStop \in {"last", "lastlate"} /\ tuPump["shutdown"].pc # "checkpoint"
    /\ tuStop' = IF tuStop = "last" THEN "drain" ELSE "drainlate"
    /\ UNCHANGED <<tuGone, tuPhase, tuPg, tuLead, tuMember, tuM, tuEvents, tuSpool,
                   tuLedger, tuApplied, tuDaily, tuFault, tuClosing, tuActive,
                   tuPump, tuForwarded, tuLost, tuSeen, tuAdmit, tuFaults>>

\* drain returns, healthy or not, or its deadline passes
TuFinishAccounting ==
    /\ tuStop \in {"drain", "drainlate"} /\ tuPump["worker"].pc = "idle"
    /\ tuPump' = [p \in TuPumpers |-> TuIdle]
    /\ tuStop' = IF tuStop = "drain" /\ tuSpool = {} /\ ~tuFault THEN "ok" ELSE "err"
    /\ UNCHANGED <<tuGone, tuPhase, tuPg, tuLead, tuMember, tuM, tuEvents, tuSpool,
                   tuLedger, tuApplied, tuDaily, tuFault, tuClosing, tuActive,
                   tuForwarded, tuLost, tuSeen, tuAdmit, tuFaults>>

\* the process dies or starts again; only what was committed is left
TuCrash ==
    /\ TuFailing
    /\ tuPhase' = "starting" /\ tuStop' = "run" /\ tuFault' = FALSE /\ tuClosing' = FALSE
    /\ tuM' = [m \in TuMeters |-> TuNoMeter] /\ tuActive' = 0
    /\ tuPump' = [p \in TuPumpers |-> TuIdle]
    /\ tuGone' = tuGone + tuLost + MapThenSumSet(TuHeld, TuMeters)
    /\ tuLost' = 0 /\ tuSeen' = 0 /\ tuAdmit' = "none"
    /\ UNCHANGED <<tuPg, tuLead, tuMember, tuEvents, tuSpool, tuLedger, tuApplied, tuDaily,
                   tuForwarded>>

\* another node becomes leader or is no longer one, the membership expires
TuLeadership ==
    /\ tuPg /\ TuFailing
    /\ \/ tuLead' \in BOOLEAN /\ tuMember' = TRUE
       \/ tuLead' = FALSE /\ tuMember' = FALSE
    /\ tuPump' = [tuPump EXCEPT !["admission"].stale = (tuPump["admission"].pc # "idle")]
    /\ UNCHANGED <<tuGone, tuPhase, tuPg, tuM, tuEvents, tuSpool, tuLedger,
                   tuApplied, tuDaily, tuFault, tuClosing, tuActive, tuStop,
                   tuForwarded, tuLost, tuSeen, tuAdmit>>

TuNext ==
    \/ TuLifecycle \/ TuTick \/ TuAuthorize \/ TuPumpAgain \/ TuDecide
    \/ TuCloseAdmission \/ TuFinishAccounting \/ TuCrash \/ TuLeadership
    \/ TuMetersFinished \/ TuSendStop
    \/ \E m \in TuMeters : TuNewMeter(m) \/ TuEnsureOpen(m) \/ TuRelease(m) \/ TuFinishMeter(m)
    \/ \E m \in TuMeters, o \in TuOutcomes : TuAdd(m, o) \/ TuDrop(m, o)
    \/ \E p \in TuPumpers : TuUpload(p) \/ TuAcknowledge(p) \/ TuPumpEnd(p)
    \/ \E p \in TuPumpers, o \in TuOutcomes : TuPumpCheckpoint(p, o)

TuSpec == TuInit /\ [][TuNext]_tuVars

-----------------------------------------------------------------------------
\* Every forwarded byte is accounted for exactly once: it is in one event
\* that is in the spool or in the ledger, or in a meter that still holds it,
\* or it was lost with a meter whose checkpoint failed, which leaves the
\* spool faulted, or with a killed process; a meter never holds more than one
\* checkpoint's worth, so a kill costs no more than that per connection.  The
\* daily usage is what the applied events add up to.  Errors with unknown
\* outcome, retries and crashes do not count bytes twice.
TuConservation ==
    /\ tuForwarded = TuBytes(tuEvents, tuSpool \cup tuLedger)
                     + MapThenSumSet(TuHeld, TuMeters) + tuLost + tuGone
    /\ tuLost > 0 => tuFault
    /\ \A m \in TuMeters : TuHeld(m) <= TuCheckpoint
    /\ tuDaily = TuBytes(tuEvents, tuApplied)

\* A shutdown that reports success has every forwarded byte in the ledger but
\* those an earlier kill cost, although meters are dropped by their
\* connections while it waits.
TuCleanShutdown ==
    tuStop = "ok" => tuForwarded = TuBytes(tuEvents, tuLedger) + tuGone

\* A connection is admitted under a daily quota only when the bytes forwarded
\* before its admission began, those of other open connections included, are
\* below the quota (only a meter in its drop may be missed).
TuQuotaSeesTraffic == tuAdmit = "allowed" => tuSeen < TuQuota

\* The books are right at any time, at a clean shutdown, and when a quota is
\* compared with them.
TuAccountsHold == TuConservation /\ TuCleanShutdown /\ TuQuotaSeesTraffic

(***************************************************************************)
(* The traffic control of one policy: its settings, the decision about a   *)
(* new connection and the window of connections of the last minute, which  *)
(* is a queue in memory with SQLite and rows per second with PostgreSQL.   *)
(* The clock the decisions read may be set back.                           *)
(* Sources: traffic_control.rs, traffic_control_postgres.rs,               *)
(* traffic_control_store.rs and the handlers of main.rs.                   *)
(***************************************************************************)
CONSTANTS
    TcSettings,   \* requested settings, see TcValid for the fields
    TcSources,    \* source addresses
    TcWindow,     \* length of the rate window, 60 seconds
    TcMinute, TcDay,  \* seconds in a minute, minutes in a day, scaled down
    TcMaxTime, TcMaxBack, TcMaxOps, TcQuota

ASSUME TcAssumption ==
    /\ {TcWindow, TcMinute, TcDay} \subseteq Nat \ {0}
    /\ {TcMaxTime, TcMaxBack, TcMaxOps, TcQuota} \subseteq Nat

VARIABLES
    tcPg, tcLead,
    tcManaged,   \* a Fleet source manages the policy
    tcRow,       \* the stored settings, or none
    tcUsed,      \* bytes used today
    tcNow,       \* the clock
    tcTimes,     \* times of the connections in the window
    tcAges,      \* real age of each connection admitted under these settings
    tcCleared,   \* real age of each time the queue in memory was emptied
    tcBack, tcOps

tcVars == <<tcPg, tcLead, tcManaged, tcRow, tcUsed, tcNow, tcTimes, tcAges, tcCleared,
            tcBack, tcOps>>

TcNone == [enabled |-> FALSE, denied |-> {}, allowed |-> {}, rate |-> 0, days |-> {},
           start |-> -1, end |-> -1]

TcInit ==
    /\ tcPg \in BOOLEAN /\ tcLead = TRUE /\ tcManaged = FALSE
    /\ tcRow = TcNone /\ tcUsed = 0 /\ tcNow = 0 /\ tcTimes = <<>> /\ tcAges = <<>>
    /\ tcCleared = <<>> /\ tcBack = 0 /\ tcOps = 0

\* validate: -1 is an absent minute, 0 an absent rate
TcValid(s) ==
    /\ s.days \subseteq 0..6
    /\ (s.start = -1) <=> (s.end = -1)
    /\ s.start < TcDay /\ s.end < TcDay

TcOp == tcOps < TcMaxOps /\ tcOps' = tcOps + 1

\* the guard of the PostgreSQL transactions: leader, and no Fleet source
TcFence == tcPg => tcLead
TcUnmanaged == ~tcManaged

TcNewCount == tcTimes' = <<>> /\ tcAges' = <<>> /\ tcCleared' = <<>>

\* upsert, transaction_put: a change of the settings starts a new window
TcUpsert(s) ==
    /\ TcOp /\ TcValid(s) /\ TcFence /\ TcUnmanaged
    /\ tcRow' = s /\ TcNewCount
    /\ UNCHANGED <<tcPg, tcLead, tcManaged, tcUsed, tcNow, tcBack>>

\* delete, transaction_delete: the day's usage stays
TcDelete ==
    /\ TcOp /\ TcFence /\ TcUnmanaged
    /\ tcRow' = TcNone /\ TcNewCount
    /\ UNCHANGED <<tcPg, tcLead, tcManaged, tcUsed, tcNow, tcBack>>

\* schedule_allows
TcScheduleAllows(s, now) ==
    LET weekday == ((now \div (TcMinute * TcDay)) + 3) % 7
        minute == (now % (TcMinute * TcDay)) \div TcMinute IN
    /\ s.days = {} \/ weekday \in s.days
    /\ \/ s.start = -1 \/ s.start = s.end
       \/ s.start < s.end /\ s.start <= minute /\ minute < s.end
       \/ s.end < s.start /\ (minute >= s.start \/ minute < s.end)

TcSourceDenied(s, source) ==
    source \in s.denied \/ (s.allowed # {} /\ source \notin s.allowed)

\* admission_decision; the rate is decided afterwards
TcDecision(s, source) ==
    CASE ~s.enabled -> "allowed"
      [] TcSourceDenied(s, source) -> "source_denied"
      [] ~TcScheduleAllows(s, tcNow) -> "outside_schedule"
      [] tcUsed >= TcQuota -> "quota_exceeded"
      [] OTHER -> "allowed"

TcExpired(t) == t + TcWindow <= tcNow

\* authorize pops expired times from the front, reserve_connection deletes
\* every expired second and keeps those the clock has not reached yet
TcPruned ==
    IF tcPg THEN SelectSeq(tcTimes, LAMBDA t : ~TcExpired(t))
    ELSE LET live == {i \in 1..Len(tcTimes) : ~TcExpired(tcTimes[i])} IN
         IF live = {} THEN <<>>
         ELSE SubSeq(tcTimes, CHOOSE i \in live : \A j \in live : i <= j, Len(tcTimes))

TcAuthorize(source) ==
    /\ TcOp /\ TcFence
    /\ LET limited == tcRow.enabled /\ tcRow.rate # 0 IN
       IF TcDecision(tcRow, source) # "allowed" \/ ~limited
       THEN UNCHANGED <<tcTimes, tcAges>>
       ELSE IF Len(TcPruned) >= tcRow.rate
            THEN tcTimes' = TcPruned /\ UNCHANGED tcAges
            ELSE tcTimes' = Append(TcPruned, tcNow) /\ tcAges' = Append(tcAges, 0)
    /\ UNCHANGED <<tcPg, tcLead, tcManaged, tcRow, tcUsed, tcNow, tcCleared, tcBack>>

\* the queue in memory is emptied, the settings are the same
TcClear ==
    /\ tcTimes' = <<>> /\ tcCleared' = Append(tcCleared, 0)
    /\ UNCHANGED tcAges

\* a Fleet bundle with settings for the policy
TcFleetApply(s) ==
    /\ TcOp /\ TcValid(s) /\ TcFence
    /\ tcManaged' = TRUE /\ tcRow' = s /\ TcNewCount
    /\ UNCHANGED <<tcPg, tcLead, tcUsed, tcNow, tcBack>>

\* mutant: every bundle empties the shared windows too
TcFleetApplyOthersAll ==
    /\ TcOp /\ TcFence
    /\ IF tcPg THEN tcTimes' = <<>> /\ UNCHANGED <<tcAges, tcCleared>> ELSE TcClear
    /\ UNCHANGED <<tcPg, tcLead, tcManaged, tcRow, tcUsed, tcNow, tcBack>>

\* a Fleet bundle that leaves the policy alone: reset_runtime_state empties
\* every window with SQLite and none with PostgreSQL
TcFleetApplyOthers ==
    /\ TcOp /\ TcFence
    /\ IF tcPg THEN UNCHANGED <<tcTimes, tcAges, tcCleared>> ELSE TcClear
    /\ UNCHANGED <<tcPg, tcLead, tcManaged, tcRow, tcUsed, tcNow, tcBack>>

TcOlder(ages) ==
    SelectSeq([i \in 1..Len(ages) |-> ages[i] + 1], LAMBDA a : a < TcWindow)

\* a second passes for the connections, the clock advances or is set back
TcTick ==
    /\ tcNow < TcMaxTime
    /\ \/ tcNow' = tcNow + 1 /\ UNCHANGED tcBack
       \/ tcBack < TcMaxBack /\ tcNow > 0 /\ tcBack' = tcBack + 1 /\ tcNow' = tcNow - 1
    /\ tcAges' = TcOlder(tcAges) /\ tcCleared' = TcOlder(tcCleared)
    /\ UNCHANGED <<tcPg, tcLead, tcManaged, tcRow, tcUsed, tcTimes, tcOps>>

TcTraffic ==
    /\ tcUsed < TcQuota /\ tcUsed' = tcUsed + 1
    /\ UNCHANGED <<tcPg, tcLead, tcManaged, tcRow, tcNow, tcTimes, tcAges, tcCleared,
                   tcBack, tcOps>>

\* SQLite keeps the window in memory; PostgreSQL keeps it over a change of
\* leader
TcRestart ==
    /\ TcOp
    /\ IF tcPg THEN tcLead' = ~tcLead /\ UNCHANGED <<tcTimes, tcAges, tcCleared>>
       ELSE UNCHANGED tcLead /\ TcClear
    /\ UNCHANGED <<tcPg, tcManaged, tcRow, tcUsed, tcNow, tcBack>>

TcNext ==
    \/ TcDelete \/ TcTick \/ TcTraffic \/ TcRestart \/ TcFleetApplyOthers
    \/ \E s \in TcSettings : TcUpsert(s) \/ TcFleetApply(s)
    \/ \E a \in TcSources : TcAuthorize(a)

TcSpec == TcInit /\ [][TcNext]_tcVars

-----------------------------------------------------------------------------
\* Within any minute of real time PostgreSQL admits no more connections than
\* max_connections_per_minute, over changes of leader, Fleet bundles for other
\* policies and a clock that is set back; only new settings start a new count
\* (traffic_control_postgres.rs, reset_runtime_state).  SQLite, whose window
\* is in memory, may admit as many again for every restart and every applied
\* Fleet bundle of that minute, and no more.
TcRateHolds ==
    tcRow.rate # 0 => Len(tcAges) <= tcRow.rate * (1 + Len(tcCleared))
=============================================================================
