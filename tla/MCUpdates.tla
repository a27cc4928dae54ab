------------------------------ MODULE MCUpdates ------------------------------
(***************************************************************************)
(* The five update components side by side.  They share no variable, so an *)
(* initial state picks the one that moves (focus) and the others keep      *)
(* their initial values: every behaviour is a behaviour of one component,  *)
(* and every property speaks of one.                                       *)
(***************************************************************************)
EXTENDS RemoteUpdate, SelfUpdate, UpdateStaging

VARIABLE focus

MCvars == <<ruVars, suVars, mgVars, rfVars, usVars, focus>>

\* releases: as they should be, published again with another executable,
\* with a package the manifest does not sign, signed by a development key,
\* and with two executables in the archive
MCGood(v) ==
    [ver |-> v, draft |-> FALSE, marked |-> FALSE, complete |-> TRUE,
     canonical |-> TRUE, key |-> "prod", signedBy |-> "prod", minUpdater |-> 1,
     manifestVer |-> v, copies |-> 1, checksum |-> v, github |-> v,
     signed |-> v, served |-> v, binaries |-> 1, manifests |-> 1,
     archiveVer |-> v]
MCBuilt(r, digest) ==
    [r EXCEPT !.checksum = digest, !.github = digest, !.served = digest]
MCFeeds ==
    {{MCGood(2), MCGood(3)},
     {[MCBuilt(MCGood(2), 7) EXCEPT !.signed = 7], MCBuilt(MCGood(3), 8)},
     {[MCGood(2) EXCEPT !.binaries = 2],
      [MCBuilt(MCGood(3), 9) EXCEPT !.key = "dev", !.signedBy = "dev", !.signed = 9]}}
MCKeys ==
    [prod |-> [purpose |-> "production", notBefore |-> 0, notAfter |-> 9],
     dev |-> [purpose |-> "development", notBefore |-> 0, notAfter |-> 0]]

MCRu(A) == focus = "remote" /\ A /\ UNCHANGED <<suVars, mgVars, rfVars, usVars, focus>>
MCSu(A) == focus = "self" /\ A /\ UNCHANGED <<ruVars, mgVars, rfVars, usVars, focus>>
MCMg(A) == focus = "manager" /\ A /\ UNCHANGED <<ruVars, suVars, rfVars, usVars, focus>>
MCRf(A) == focus = "receipts" /\ A /\ UNCHANGED <<ruVars, suVars, mgVars, usVars, focus>>
MCUs(A) == focus = "staging" /\ A /\ UNCHANGED <<ruVars, suVars, mgVars, rfVars, focus>>

MCInit ==
    /\ focus \in {"remote", "self", "manager", "receipts", "staging"}
    /\ RuInit /\ SuInit /\ MgInit /\ RfInit /\ UsInit
    /\ focus # "remote" => ruPg = FALSE
    /\ focus # "self" => suProduct = "client" /\ suAuto /\ suSvc = 0
    /\ focus # "staging" => usFeed = {MCGood(2), MCGood(3)}

MCNext == MCRu(RuNext) \/ MCSu(SuNext) \/ MCMg(MgNext) \/ MCRf(RfNext) \/ MCUs(UsNext)

MCSpec ==
    /\ MCInit /\ [][MCNext]_MCvars
    /\ WF_MCvars(MCRu(RuTime)) /\ WF_MCvars(MCRu(RuServerSweep))
    /\ WF_MCvars(MCRu(RuWorker)) /\ WF_MCvars(MCRu(RuLeaderBack))
    /\ WF_MCvars(MCSu(SuHelperStep)) /\ WF_MCvars(MCSu(SuPublishReadiness))
    /\ WF_MCvars(MCSu(SuOperatorRecovers))

-----------------------------------------------------------------------------
\* An installation stays usable through failures, kills and reboots: the
\* server can open its database, what a candidate wrote is kept where the
\* service waits for recovery, and the Manager is never lost.
MCInstallationWhole ==
    SuBinaryOpensDatabase /\ SuCandidateWritesKept /\ MgManagerNeverLost

=============================================================================
