------------------------------ MODULE MCStores ------------------------------
(***************************************************************************)
(* The components that keep what must survive: traffic accounting and      *)
(* control, backup and restore, the move to PostgreSQL, the catalogs of    *)
(* policies, Fleet bundles and their exchange, certificates, and the       *)
(* operations a job lease covers.                                          *)
(* They share no variable: an initial state picks the one that moves       *)
(* (focus), and every property speaks of one.                              *)
(***************************************************************************)
EXTENDS JobExecution, Traffic, DataRecovery,
        StorageMigration, FleetBundles, Certificates, PolicyCatalog

CONSTANTS p1, p2, o1, o2, m1

VARIABLE focus

\* two operations of one process
MCSameProcess == [o \in {o1, o2} |-> p1]

\* a deny list with a rate, and an allow list with days and hours that wrap
MCControls ==
    {[enabled |-> TRUE, denied |-> {"x"}, allowed |-> {}, rate |-> 2, days |-> {},
      start |-> -1, end |-> -1],
     [enabled |-> TRUE, denied |-> {}, allowed |-> {"y"}, rate |-> 1,
      days |-> {3, 4}, start |-> 1, end |-> 0]}

\* a complete source, one with work in flight, with a port group, with a row
\* that names nothing, with a plugin, and with certificate material
MCRow(t, i, f) == [table |-> t, id |-> i, ref |-> f]
MCBase == {MCRow("clients", "c", ""), MCRow("policies", "p", "c"),
           MCRow("ha_members", "n", "")}
MCSources ==
    {MCBase, MCBase \cup {MCRow("update_tasks", "t", "running")},
     MCBase \cup {MCRow("dns01_records", "d", "")},
     MCBase \cup {[table |-> "port_groups", id |-> "g", ref |-> "c", ports |-> 2],
                  MCRow("port_mappings", "m1", "g"), MCRow("port_mappings", "m2", "g")},
     MCBase \cup {MCRow("policies", "q", "gone")},
     MCBase \cup {MCRow("plugins", "x", "")},
     MCBase \cup {MCRow("certificate_materials", "h", "p")}}

\* three generations of one server and a rival of the second; another
\* server's bundle takes a port of the first
MCResource(r, k, p, v, c, f) ==
    [res |-> r, kind |-> k, port |-> p, val |-> v, ctl |-> c, ref |-> f]
MCBundle(s, g, v, x) == [src |-> s, gen |-> g, rev |-> v, res |-> x]
MCBundles ==
    {MCBundle("s", 1, "a", {MCResource("r1", "tcp", 1, 1, 1, ""),
                            MCResource("r2", "socks5", 2, 1, 0, "k")}),
     MCBundle("s", 2, "b", {MCResource("r1", "tcp", 2, 2, 0, ""),
                            MCResource("r2", "socks5", 1, 2, 2, "k")}),
     MCBundle("s", 3, "c", {MCResource("r2", "socks5", 2, 1, 0, "k")}),
     MCBundle("s", 2, "d", {MCResource("r1", "tcp", 1, 1, 0, "")}),
     MCBundle("u", 1, "e", {MCResource("r3", "port_group", 1, 1, 0, "")})}
MCLocals == {[id |-> "l1", kind |-> "socks5", port |-> 2],
             [id |-> "l2", kind |-> "tcp", port |-> 1]}

\* policies that compete for two ports, a hostname and a name, of all kinds
MCPolicy(k, p) == [kind |-> k, port |-> p, name |-> "a"]
MCSpecs ==
    {MCPolicy("tcp", 1), MCPolicy("tcp", 2), MCPolicy("udp", 1),
     MCPolicy("socks5", 1), MCPolicy("socks5", 2), MCPolicy("http_proxy", 2),
     MCPolicy("group", 1), MCPolicy("http", 1), MCPolicy("sni", 1),
     MCPolicy("secret", 0)}

MCvars == <<vars, tuVars, tcVars, rsVars, smVars, fbVars, fsVars, acVars,
            cfVars, ceVars, pcVars, focus>>

MCJe(A) ==
    /\ focus = "jobs" /\ A
    /\ UNCHANGED <<tuVars, tcVars, rsVars, smVars, fbVars, fsVars, acVars,
                   cfVars, ceVars, pcVars, focus>>
MCTu(A) ==
    /\ focus = "usage" /\ A
    /\ UNCHANGED <<vars, tcVars, rsVars, smVars, fbVars, fsVars, acVars,
                   cfVars, ceVars, pcVars, focus>>
MCTc(A) ==
    /\ focus = "control" /\ A
    /\ UNCHANGED <<vars, tuVars, rsVars, smVars, fbVars, fsVars, acVars,
                   cfVars, ceVars, pcVars, focus>>
MCRs(A) ==
    /\ focus = "restore" /\ A
    /\ UNCHANGED <<vars, tuVars, tcVars, smVars, fbVars, fsVars, acVars,
                   cfVars, ceVars, pcVars, focus>>
MCSm(A) ==
    /\ focus = "migration" /\ A
    /\ UNCHANGED <<vars, tuVars, tcVars, rsVars, fbVars, fsVars, acVars,
                   cfVars, ceVars, pcVars, focus>>
MCFb(A) ==
    /\ focus = "bundles" /\ A
    /\ UNCHANGED <<vars, tuVars, tcVars, rsVars, smVars, fsVars, acVars,
                   cfVars, ceVars, pcVars, focus>>
MCFs(A) ==
    /\ focus = "sync" /\ A
    /\ UNCHANGED <<vars, tuVars, tcVars, rsVars, smVars, fbVars, acVars,
                   cfVars, ceVars, pcVars, focus>>
MCAc(A) ==
    /\ focus = "challenges" /\ A
    /\ UNCHANGED <<vars, tuVars, tcVars, rsVars, smVars, fbVars, fsVars,
                   cfVars, ceVars, pcVars, focus>>
MCCf(A) ==
    /\ focus = "files" /\ A
    /\ UNCHANGED <<vars, tuVars, tcVars, rsVars, smVars, fbVars, fsVars,
                   acVars, ceVars, pcVars, focus>>
MCCe(A) ==
    /\ focus = "certificates" /\ A
    /\ UNCHANGED <<vars, tuVars, tcVars, rsVars, smVars, fbVars, fsVars,
                   acVars, cfVars, pcVars, focus>>
MCPc(A) ==
    /\ focus = "catalogs" /\ A
    /\ UNCHANGED <<vars, tuVars, tcVars, rsVars, smVars, fbVars, fsVars,
                   acVars, cfVars, ceVars, focus>>

MCInit ==
    /\ focus \in {"jobs", "usage", "control", "restore", "migration",
                  "bundles", "sync", "challenges", "files", "certificates", "catalogs"}
    /\ Init /\ TuInit /\ TcInit /\ RsInit /\ SmInit
    /\ FbInit /\ FsInit /\ AcInit /\ CfInit /\ CeInit
    /\ PcInit
    /\ focus # "usage" => tuPg
    /\ focus # "control" => tcPg
    /\ focus # "restore" => rsDir.schema = RsCurrent /\ rsDir.wal = 0
    /\ focus # "migration" => smSrc = MCBase
    /\ focus # "bundles" => fbPg
    /\ focus # "challenges" => acKind = "local"
    /\ focus # "certificates" => 
          cePg /\ ceRoute[CeExisting].on /\ ceTls[CeExisting].id = ""

MCNext ==
    \/ MCJe(Next) \/ MCTu(TuNext) \/ MCTc(TcNext) \/ MCRs(RsNext) \/ MCSm(SmNext)
    \/ MCFb(FbNext) \/ MCFs(FsNext) \/ MCAc(AcNext) \/ MCCf(CfNext) \/ MCCe(CeNext)
    \/ MCPc(PcNext)

MCSpec == MCInit /\ [][MCNext]_MCvars

\* Traffic is accounted and admitted as configured: the books hold every byte
\* once, and no minute admits more connections than its limit, over restarts,
\* retries and changes of leader (traffic_usage_spool.rs, traffic_control*.rs).
MCTrafficHolds == TuAccountsHold /\ TcRateHolds

\* A certificate the catalog records can be loaded from the files after any
\* kill, and one it calls active is the one a settled leader presents
\* (certificate_manager.rs, certificate_catalog*.rs).
MCCertificatesHold == CfRecordedIsLoadable /\ CeActiveIsServed
=============================================================================
