--------------------------- MODULE ManagedConfig ---------------------------
(***************************************************************************)
(* The configuration a server manages for one client: the policies of the  *)
(* server, the control request that reports the client's state and answers *)
(* with the configuration, the supervisor of linklake-client that persists *)
(* it and reconciles its agents, and the managed file with its backup.     *)
(* A configuration is its set of agent specifications <<kind, port,        *)
(* target>>; its revision, a digest of the content, is the set itself.     *)
(***************************************************************************)
EXTENDS Naturals, FiniteSets

CONSTANTS
    McSpecs,      \* specifications policies may have
    McLocal,      \* the client's own tunnels, for the local mode
    McModes,      \* configuration modes the client may be in
    McMaxEdits,   \* bound on policy edits
    McMaxFaults   \* bound on failing steps, timeouts, kills and damaged files

ASSUME McAssumption ==
    McLocal \subseteq McSpecs /\ McMaxEdits \in Nat /\ McMaxFaults \in Nat

VARIABLES
    mcMode,      \* "managed", or "local" for Local and ReportOnly
    mcPolicy,    \* policies of the client in the server's catalogues
    mcRow,       \* config_sync_status and applied_config_revision
    mcCalls,     \* control connections the server serves
    mcUp,        \* the client process runs
    mcPc,        \* progress of the supervisor
    mcWait,      \* connection whose answer the supervisor awaits, 0 for none
    mcWant,      \* configuration received
    mcAgents,    \* specifications of the running agent tasks
    mcApplied,   \* applied_revision
    mcStatus,    \* sync_status
    mcFile,      \* content of the managed file
    mcBackup,    \* content of its backup
    mcSafe,      \* history: a configuration was persisted, and no damage hit
                 \* the file while there was no valid backup
    mcEdits, mcFaults

mcVars == <<mcMode, mcPolicy, mcRow, mcCalls, mcUp, mcPc, mcWait, mcWant,
            mcAgents, mcApplied, mcStatus, mcFile, mcBackup, mcSafe, mcEdits,
            mcFaults>>
mcServer == <<mcPolicy, mcRow, mcCalls, mcEdits>>
mcFiles == <<mcFile, mcBackup, mcSafe>>
mcClient == <<mcUp, mcPc, mcWait, mcWant, mcAgents, mcApplied, mcStatus>>

McNone == {<<"none", 0, "">>}
McBad == {<<"bad", 0, "">>}
McCalls == 1..2

McKey(s) == <<s[1], s[2]>>
McOfKind(k) == {s \in mcPolicy : s[1] = k}

\* validate_managed_config: the revision is that of the content and no
\* public port is used twice
McValid(cfg) ==
    /\ cfg \notin {McNone, McBad}
    /\ \A s, t \in cfg : s[2] = t[2] => s = t

McFault == mcFaults < McMaxFaults /\ mcFaults' = mcFaults + 1
McFree == [pc |-> "free", rev |-> McNone, status |-> "unknown", seen |-> {}]

McInit ==
    /\ mcMode \in McModes
    /\ mcPolicy = McLocal
    /\ mcRow = [status |-> "unknown", rev |-> McNone]
    /\ mcCalls = [c \in McCalls |-> McFree]
    /\ mcUp = FALSE /\ mcPc = "idle" /\ mcWait = 0 /\ mcWant = {}
    /\ mcAgents = {} /\ mcApplied = McNone /\ mcStatus = "unknown"
    /\ mcFile = McNone /\ mcBackup = McNone /\ mcSafe = FALSE
    /\ mcEdits = 0 /\ mcFaults = 0

\* a policy is created on a free public port, changed, or deleted
McEdit(s) ==
    /\ mcEdits < McMaxEdits /\ mcEdits' = mcEdits + 1
    /\ \/ s \in mcPolicy /\ mcPolicy' = mcPolicy \ {s}
       \/ /\ s \notin mcPolicy
          /\ \A t \in mcPolicy : t[2] = s[2] => t[1] = s[1]
          /\ mcPolicy' = {t \in mcPolicy : t[2] # s[2]} \cup {s}
    /\ UNCHANGED <<mcMode, mcRow, mcCalls, mcFaults, mcFiles, mcClient>>

-----------------------------------------------------------------------------
\* The server side of one request: send_managed_config.

McCall(c, pc) == mcCalls[c].pc = pc

McAuthenticate(c) ==
    /\ McCall(c, "authenticate")
    /\ \/ mcCalls' = [mcCalls EXCEPT ![c].pc = "tunnels"] /\ UNCHANGED mcFaults
       \/ McFault /\ mcCalls' = [mcCalls EXCEPT ![c].pc = "refuse"]
    /\ UNCHANGED <<mcMode, mcPolicy, mcRow, mcEdits, mcFiles, mcClient>>

\* managed_config_for_client reads one catalogue after the other
McReadTunnels(c) ==
    /\ McCall(c, "tunnels")
    /\ mcCalls' = [mcCalls EXCEPT ![c].pc = "proxies",
                                  ![c].seen = McOfKind("tcp")]
    /\ UNCHANGED <<mcMode, mcPolicy, mcRow, mcEdits, mcFiles, mcClient, mcFaults>>

McReadProxies(c) ==
    /\ McCall(c, "proxies")
    /\ mcCalls' = [mcCalls EXCEPT ![c].pc = "row",
                                  ![c].seen = @ \cup McOfKind("proxy")]
    /\ UNCHANGED <<mcMode, mcPolicy, mcRow, mcEdits, mcFiles, mcClient, mcFaults>>

McEffective(call) ==
    IF call.rev = call.seen \/ call.status = "apply_failed"
    THEN call.status ELSE "conflict"

\* update_config_sync; the answer is sent even when it fails
McRecord(c) ==
    /\ McCall(c, "row")
    /\ mcCalls' = [mcCalls EXCEPT ![c].pc = "reply"]
    /\ \/ /\ mcRow' = [status |-> McEffective(mcCalls[c]), rev |-> mcCalls[c].rev]
          /\ UNCHANGED mcFaults
       \/ McFault /\ UNCHANGED mcRow
    /\ UNCHANGED <<mcMode, mcPolicy, mcEdits, mcFiles, mcClient>>

\* the answer reaches the supervisor unless it gave up on the connection
McAnswer(c) ==
    /\ McCall(c, "reply") \/ McCall(c, "refuse")
    /\ mcCalls' = [mcCalls EXCEPT ![c] = McFree]
    /\ IF mcWait = c
       THEN /\ mcWait' = 0
            /\ mcPc' = IF McCall(c, "reply") THEN "received" ELSE "idle"
            /\ mcWant' = IF McCall(c, "reply") THEN mcCalls[c].seen ELSE mcWant
       ELSE UNCHANGED <<mcWait, mcPc, mcWant>>
    /\ UNCHANGED <<mcMode, mcPolicy, mcRow, mcEdits, mcFiles, mcFaults,
                   mcUp, mcAgents, mcApplied, mcStatus>>

McServe(c) ==
    \/ McAuthenticate(c) \/ McReadTunnels(c) \/ McReadProxies(c)
    \/ McRecord(c) \/ McAnswer(c)

-----------------------------------------------------------------------------
\* The supervisor: run_supervised_agents.

McAt(pc) == mcUp /\ mcPc = pc

\* spawn_agent_task for every specification whose key has no agent
McSpawned(kept, want) == {s \in want : \A a \in kept : McKey(a) # McKey(s)}

\* mutant: a running agent is kept by its key alone
McReconcileByKey(agents, want) ==
    LET kept == {a \in agents : \E s \in want : McKey(s) = McKey(a)}
    IN  kept \cup McSpawned(kept, want)

\* reconcile_agents: changed and removed agents are aborted, missing ones
\* are spawned
McReconcile(agents, want) ==
    LET kept == {a \in agents : \E s \in want : McKey(s) = McKey(a) /\ s = a}
    IN  kept \cup McSpawned(kept, want)

\* the agents of local_managed_config
McLocalAgents == McReconcile({}, McLocal)

McStart ==
    /\ ~mcUp /\ mcUp' = TRUE
    /\ IF mcMode = "local"
       THEN mcAgents' = McLocalAgents /\ UNCHANGED <<mcApplied, mcStatus>>
       ELSE IF McValid(mcFile)
       THEN /\ mcAgents' = McReconcile({}, mcFile)
            /\ mcApplied' = mcFile /\ mcStatus' = "synchronized"
       ELSE /\ mcStatus' = IF mcFile = McBad THEN "apply_failed" ELSE "unknown"
            /\ UNCHANGED <<mcAgents, mcApplied>>
    /\ UNCHANGED <<mcMode, mcServer, mcFiles, mcFaults, mcPc, mcWait, mcWant>>

McPoll ==
    /\ McAt("idle")
    /\ \E c \in McCalls :
          /\ McCall(c, "free") /\ \A d \in McCalls : d < c => ~McCall(d, "free")
          /\ mcCalls' = [mcCalls EXCEPT ![c] = [pc |-> "authenticate",
                            rev |-> mcApplied, status |-> mcStatus, seen |-> {}]]
          /\ mcWait' = c
    /\ mcPc' = "waiting"
    /\ UNCHANGED <<mcMode, mcPolicy, mcRow, mcEdits, mcFiles, mcFaults, mcUp,
                   mcWant, mcAgents, mcApplied, mcStatus>>

\* the answer takes longer than CONTROL_HEARTBEAT_TIMEOUT or the connection
\* breaks; the server may still be working on the request
McTimeout ==
    /\ McAt("waiting") /\ McFault
    /\ mcPc' = "idle" /\ mcWait' = 0
    /\ UNCHANGED <<mcMode, mcServer, mcFiles, mcUp, mcWant, mcAgents, mcApplied,
                   mcStatus>>

McTickEnds(status) == mcStatus' = status /\ mcPc' = "idle" /\ mcWant' = {}
McFails == McTickEnds("apply_failed")

\* managed_file_matches
McFileMatches == McValid(mcFile) /\ mcFile = mcWant

McDecideManaged ==
    IF mcApplied = mcWant /\ McFileMatches
    THEN McTickEnds("synchronized")
    ELSE IF McValid(mcWant) THEN mcPc' = "write" /\ UNCHANGED <<mcStatus, mcWant>>
    ELSE McFails

\* managed_shapes_equal
McShapesEqual == McLocal = mcWant

McDecideLocal ==
    /\ mcApplied' = IF McShapesEqual THEN mcWant ELSE McNone
    /\ McTickEnds(IF McShapesEqual THEN "synchronized" ELSE "conflict")

McDecide ==
    /\ McAt("received")
    /\ IF mcMode = "managed" THEN McDecideManaged /\ UNCHANGED mcApplied
                             ELSE McDecideLocal
    /\ UNCHANGED <<mcMode, mcServer, mcFiles, mcFaults, mcUp, mcWait, mcAgents>>

-----------------------------------------------------------------------------
\* persist_managed_config, one step per file operation, then the agents.

McPersist(step) ==
    /\ step
    /\ UNCHANGED <<mcMode, mcServer, mcUp, mcWait, mcSafe>>

\* the temporary file is written and synced
McWrite == McPersist(
    /\ McAt("write")
    /\ \/ mcPc' = "retire" /\ UNCHANGED <<mcStatus, mcWant, mcFaults>>
       \/ McFault /\ McFails
    /\ UNCHANGED <<mcFile, mcBackup, mcAgents, mcApplied>>)

\* mutant: the current file becomes the backup whatever it holds
McRetireUnchecked == McPersist(
    /\ McAt("retire")
    /\ IF mcFile # McNone
       THEN mcBackup' = McNone /\ mcPc' = "keep" /\ UNCHANGED mcFile
       ELSE mcPc' = "install" /\ UNCHANGED <<mcFile, mcBackup>>
    /\ UNCHANGED <<mcWant, mcAgents, mcApplied, mcStatus, mcFaults>>)

\* a valid file makes room for itself in the backup's place, an invalid one
\* is removed
McRetire == McPersist(
    /\ McAt("retire")
    /\ \/ /\ IF McValid(mcFile)
             THEN mcBackup' = McNone /\ mcPc' = "keep" /\ UNCHANGED mcFile
             ELSE mcFile' = McNone /\ mcPc' = "install" /\ UNCHANGED mcBackup
          /\ UNCHANGED <<mcWant, mcStatus, mcFaults>>
       \/ McFault /\ McFails /\ UNCHANGED <<mcFile, mcBackup>>
    /\ UNCHANGED <<mcAgents, mcApplied>>)

McKeep == McPersist(
    /\ McAt("keep")
    /\ \/ /\ mcBackup' = mcFile /\ mcFile' = McNone /\ mcPc' = "install"
          /\ UNCHANGED <<mcWant, mcStatus, mcFaults>>
       \/ McFault /\ McFails /\ UNCHANGED <<mcFile, mcBackup>>
    /\ UNCHANGED <<mcAgents, mcApplied>>)

McInstall == McPersist(
    /\ McAt("install")
    /\ \/ /\ mcFile' = mcWant /\ mcPc' = "copy"
          /\ UNCHANGED <<mcBackup, mcStatus, mcWant, mcFaults>>
       \/ /\ McFault /\ McFails
          /\ IF mcBackup = McNone THEN UNCHANGED <<mcFile, mcBackup>>
             ELSE mcFile' = mcBackup /\ mcBackup' = McNone
    /\ UNCHANGED <<mcAgents, mcApplied>>)

McCopyBackup ==
    /\ McAt("copy")
    /\ \/ /\ mcBackup' = IF mcBackup = McNone THEN mcFile ELSE mcBackup
          /\ mcPc' = "reconcile" /\ mcSafe' = TRUE
          /\ UNCHANGED <<mcStatus, mcWant, mcFaults>>
       \/ /\ mcBackup = McNone /\ McFault /\ McFails
          /\ mcBackup' \in {McNone, McBad}
          /\ UNCHANGED mcSafe
    /\ UNCHANGED <<mcMode, mcServer, mcUp, mcWait, mcFile, mcAgents, mcApplied>>

McApply == McPersist(
    /\ McAt("reconcile")
    /\ mcAgents' = McReconcile(mcAgents, mcWant)
    /\ mcApplied' = mcWant /\ McTickEnds("synchronized")
    /\ UNCHANGED <<mcFile, mcBackup, mcFaults>>)

-----------------------------------------------------------------------------
McDown ==
    /\ mcUp' = FALSE /\ mcPc' = "idle" /\ mcWait' = 0
    /\ mcAgents' = {} /\ mcApplied' = McNone /\ mcStatus' = "unknown"
    /\ mcWant' = {}
    /\ UNCHANGED <<mcMode, mcServer, mcFile, mcSafe>>

\* a requested shutdown or restart is seen between two polls
McStop == McAt("idle") /\ McFault /\ McDown /\ UNCHANGED mcBackup

\* a kill at any step; it can leave half a copy as the backup
McKill ==
    /\ mcUp /\ McFault /\ McDown
    /\ IF mcPc = "copy" /\ mcBackup = McNone THEN mcBackup' \in {McNone, McBad}
                                             ELSE UNCHANGED mcBackup

\* the managed file is edited by hand or damaged
McDamage ==
    /\ McValid(mcFile) /\ mcPc \in {"idle", "waiting"}
    /\ McFault
    /\ mcFile' = McBad
    /\ mcSafe' = (mcSafe /\ McValid(mcBackup))
    /\ UNCHANGED <<mcMode, mcServer, mcClient, mcBackup>>

McSupervise ==
    \/ McPoll \/ McDecide
    \/ McWrite \/ McRetire \/ McKeep \/ McInstall \/ McCopyBackup \/ McApply

McNext ==
    \/ \E s \in McSpecs : McEdit(s)
    \/ \E c \in McCalls : McServe(c)
    \/ McStart \/ McSupervise
    \/ McTimeout \/ McStop \/ McKill \/ McDamage

\* the service manager starts the client again, its supervisor polls on an
\* interval, and the server's tasks run
McSpec == McInit /\ [][McNext]_mcVars /\ WF_mcVars(McStart)
          /\ WF_mcVars(McSupervise) /\ \A c \in McCalls : WF_mcVars(McServe(c))

-----------------------------------------------------------------------------
\* Once a configuration was persisted, a valid one stays in the managed file
\* or in its backup at every point of a later persist, through failing steps,
\* kills between the renames and a damaged file.
McValidCopyRemains == mcSafe => McValid(mcFile) \/ McValid(mcBackup)

\* When policies stop changing and faults stop, the client ends up running
\* exactly the server's policies and the server ends up recording it so; a
\* client with a local configuration keeps its own tunnels and the server
\* ends up recording whether they are the policies.
McConverges ==
    <>[](/\ mcAgents = IF mcMode = "managed" THEN mcPolicy ELSE McLocal
         /\ mcRow = IF mcMode = "managed" \/ mcPolicy = McLocal
                    THEN [status |-> "synchronized", rev |-> mcPolicy]
                    ELSE [status |-> "conflict", rev |-> McNone])

=============================================================================
