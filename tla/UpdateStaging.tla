---------------------------- MODULE UpdateStaging ----------------------------
(***************************************************************************)
(* linklake-update: how a release becomes a staged executable and a plan.  *)
(* A command selects a release, verifies the signed manifest and the       *)
(* downloaded package, extracts it into a temporary directory, renames it  *)
(* to staging/<version> and later schedules it.  The lock is dropped       *)
(* between the download and the scheduling, so two commands (a person's    *)
(* and the remote worker's) interleave, and either may die.  A rollback    *)
(* schedules the newest backup of another executable, which carries no     *)
(* signature of its own.                                                   *)
(*                                                                         *)
(* A release is a record: its version, what GitHub says of it and serves,  *)
(* and what its manifest signs.  A package and the executable in it are    *)
(* one number, the digest.                                                 *)
(***************************************************************************)
EXTENDS Naturals, FiniteSets, FiniteSetsExt

CONSTANTS
    UsActors,     \* the commands that may run
    UsFeeds,      \* the sets of releases the repository may offer
    UsKeys,       \* trusted keys: name -> [purpose, notBefore, notAfter]
    UsPre,        \* versions that are prereleases
    UsPolicy,     \* signature policy: "production" or "development"
    UsUpdater,    \* version of the running updater
    UsFirst,      \* version installed at the start
    UsMaxOps,     \* bound on the installations
    UsMaxFaults   \* bound on deaths and tampered downloads

\* feeds are finite lists of releases, so any part of one has a newest
ASSUME UsAssumption ==
    /\ \A feed \in UsFeeds : \A rs \in SUBSET feed :
          rs # {} => \E r \in rs : \A q \in rs : q.ver <= r.ver
    /\ UsPolicy \in {"production", "development"}
    /\ UsMaxOps \in Nat /\ UsMaxFaults \in Nat /\ UsFirst \in Nat
    /\ "none" \notin UsActors

VARIABLES
    usInstalled,  \* installed version
    usBin,        \* installed executable
    usFeed,       \* releases offered now
    usLock,       \* holder of update.lock, "none" when free
    usP,          \* each command: [pc, r, cur, got]
    usDir,        \* staging/<version>: digest of its executable, 0 for none
    usPartial,    \* versions with a leftover .partial directory
    usActive,     \* [to, sha, local] of the plan under active.json, to = 0 for none
    usBackups,    \* executables replaced so far: [ver, bin, at]
    usOps, usFaults

usVars == <<usInstalled, usBin, usFeed, usLock, usP, usDir, usPartial, usActive,
            usBackups, usOps, usFaults>>

UsReleases == UNION UsFeeds
UsVersions == {r.ver : r \in UsReleases}
UsNoRelease == CHOOSE r \in UsReleases : TRUE
UsRest == [pc |-> "idle", r |-> UsNoRelease, cur |-> 0, got |-> 0]
UsNoPlan == [to |-> 0, sha |-> 0, local |-> FALSE]

UsInit ==
    /\ usInstalled = UsFirst /\ usBin = 0
    /\ usFeed \in UsFeeds
    /\ usLock = "none"
    /\ usP = [a \in UsActors |-> UsRest]
    /\ usDir = [v \in UsVersions |-> 0]
    /\ usPartial = {} /\ usActive = UsNoPlan /\ usBackups = {}
    /\ usOps = 0 /\ usFaults = 0

-----------------------------------------------------------------------------
UsResolve(chan, cur) ==
    IF chan # "auto" THEN chan ELSE IF cur \in UsPre THEN "prerelease" ELSE "stable"

\* select_release_for_target: complete releases of the channel
UsCompatible(feed, chan, cur) ==
    {r \in feed : /\ ~r.draft /\ r.complete
                  /\ UsResolve(chan, cur) = "prerelease"
                       \/ (~r.marked /\ r.ver \notin UsPre)}

UsNewest(rs) == CHOOSE r \in rs : \A q \in rs : q.ver <= r.ver

UsNetworkUpdateAllowed(cur, ver, allowDowngrade) ==
    /\ ver # cur
    /\ ver > cur \/ (allowDowngrade /\ UsPolicy = "development")

\* verify_signed_manifest_bytes_with_trust
UsVerifyManifest(r) ==
    /\ r.canonical /\ r.key \in DOMAIN UsKeys
    /\ LET k == UsKeys[r.key] IN
       /\ k.purpose = "production"
            \/ (UsPolicy = "development" /\ k.purpose = "development")
       /\ r.signedBy = r.key
       /\ k.notBefore <= r.ver /\ (k.notAfter # 0 => r.ver <= k.notAfter)
    /\ r.minUpdater <= UsUpdater

\* matching_signed_asset: one asset for this component, target and name
UsMatchingAsset(r) == r.manifestVer = r.ver /\ r.copies = 1

\* mutant: the manifest's digest is not compared
UsVerifyPackageUnsigned(r, got) == got = r.checksum /\ got = r.github

\* verify_downloaded_package: checksum file, GitHub and manifest all agree
UsVerifyPackage(r, got) == got = r.checksum /\ got = r.github /\ got = r.signed

\* extract_zip_entries, extract_tar_entries: one executable, one manifest
UsEntries(r) == r.binaries = 1 /\ r.manifests = 1

\* extract_and_validate up to the rename
UsExtracts(r) == UsEntries(r) /\ r.archiveVer = r.ver

-----------------------------------------------------------------------------
UsStep(a, pc) == usP' = [usP EXCEPT ![a].pc = pc]
UsGiveUp(a) ==
    /\ usP' = [usP EXCEPT ![a] = UsRest]
    /\ usLock' = IF usLock = a THEN "none" ELSE usLock
UsFault == usFaults < UsMaxFaults /\ usFaults' = usFaults + 1

\* current_installation: 0 when the executable does not tell its version
UsReads(cur) ==
    \/ cur = usInstalled /\ UNCHANGED usFaults
    \/ cur = 0 /\ UsFault

\* download: take the lock, refuse beside an active update, choose a release
UsSelect(a, chan, allowDowngrade, cur) ==
    LET rs == UsCompatible(usFeed, chan, IF cur = 0 THEN UsUpdater ELSE cur)
        r == UsNewest(rs) IN
    /\ usP[a].pc = "idle" /\ usLock = "none"
    /\ usActive.to = 0
    /\ rs # {}
    /\ cur # 0 => UsNetworkUpdateAllowed(cur, r.ver, allowDowngrade)
    /\ UsReads(cur)
    /\ usLock' = a
    /\ usP' = [usP EXCEPT ![a] = [pc |-> "selected", r |-> r, cur |-> cur, got |-> 0]]
    /\ UNCHANGED <<usInstalled, usBin, usFeed, usDir, usPartial, usActive, usBackups, usOps>>

\* fetch_and_verify_signed_manifest
UsManifest(a) ==
    /\ usP[a].pc = "selected"
    /\ IF UsVerifyManifest(usP[a].r) /\ UsMatchingAsset(usP[a].r)
       THEN UsStep(a, "trusted") /\ UNCHANGED usLock
       ELSE UsGiveUp(a)
    /\ UNCHANGED <<usInstalled, usBin, usFeed, usDir, usPartial, usActive, usBackups, usOps,
                   usFaults>>

\* download_asset compares what it receives with GitHub's digest; the bytes
\* served may have changed since the release was listed
UsDownload(a) ==
    /\ usP[a].pc = "trusted"
    /\ \/ /\ IF UsVerifyPackage(usP[a].r, usP[a].r.served)
             THEN /\ usP' = [usP EXCEPT ![a].pc = "downloaded",
                                        ![a].got = usP[a].r.served]
                  /\ UNCHANGED usLock
             ELSE UsGiveUp(a)
          /\ UNCHANGED usFaults
       \/ UsFault /\ UsGiveUp(a)
    /\ UNCHANGED <<usInstalled, usBin, usFeed, usDir, usPartial, usActive, usBackups,
                   usOps>>

\* extract_and_validate: partial directories of dead commands are removed
UsExtract(a) ==
    LET r == usP[a].r IN
    /\ usP[a].pc = "downloaded"
    /\ IF UsExtracts(r)
       THEN /\ usPartial' = usPartial \cup {r.ver}
            /\ UsStep(a, "extracted") /\ UNCHANGED usLock
       ELSE usPartial' = usPartial \ {r.ver} /\ UsGiveUp(a)
    /\ UNCHANGED <<usInstalled, usBin, usFeed, usDir, usActive, usBackups, usOps, usFaults>>

\* the old staging directory goes, the new one is renamed into place
UsRemoveStaged(a) ==
    /\ usP[a].pc = "extracted"
    /\ usDir' = [usDir EXCEPT ![usP[a].r.ver] = 0]
    /\ UsStep(a, "cleared")
    /\ UNCHANGED <<usInstalled, usBin, usFeed, usLock, usPartial, usActive, usBackups, usOps,
                   usFaults>>

UsRenameStaged(a) ==
    /\ usP[a].pc = "cleared"
    /\ usDir' = [usDir EXCEPT ![usP[a].r.ver] = usP[a].got]
    /\ usPartial' = usPartial \ {usP[a].r.ver}
    /\ UsStep(a, "staged") /\ usLock' = "none"
    /\ UNCHANGED <<usInstalled, usBin, usFeed, usActive, usBackups, usOps, usFaults>>

\* rollback_staged: the newest backup of another executable, read without the lock
UsPrepareRollback(a, cur) ==
    \E b \in usBackups :
       /\ usP[a].pc = "idle" /\ UsReads(cur)
       /\ b.bin # usBin /\ \A c \in usBackups : c.bin # usBin => c.at <= b.at
       /\ usP' = [usP EXCEPT ![a] = [pc |-> "prepared", r |-> [ver |-> b.ver], cur |-> cur,
                                     got |-> b.bin]]
       /\ UNCHANGED <<usInstalled, usBin, usFeed, usLock, usDir, usPartial, usActive,
                      usBackups, usOps>>

\* mutant: the staged executable's digest is not computed again
UsSameDigestTrusted(a) == TRUE

\* the staged executable is still the one this command verified; a backup
\* is never written again
UsSameDigest(a) == usP[a].pc = "staged" => usDir[usP[a].r.ver] = usP[a].got

\* schedule_update under the lock taken again: the installation must be the
\* one the command saw and the executable the one it verified
UsSchedule(a, cur) ==
    /\ usP[a].pc \in {"staged", "prepared"} /\ usLock = "none" /\ UsReads(cur)
    /\ IF usActive.to = 0 /\ (cur # 0 => usP[a].cur = cur) /\ UsSameDigest(a)
       THEN usActive' = [to |-> usP[a].r.ver, sha |-> usP[a].got,
                         local |-> usP[a].pc = "prepared"]
       ELSE UNCHANGED usActive
    /\ usP' = [usP EXCEPT ![a] = UsRest]
    /\ UNCHANGED <<usInstalled, usBin, usFeed, usLock, usDir, usPartial, usBackups, usOps>>

\* the helper (module SelfUpdate) backs the installed executable up and
\* installs the plan's, whose digest it compares once more
UsInstall ==
    /\ usActive.to # 0 /\ usOps < UsMaxOps
    /\ ~usActive.local => usDir[usActive.to] = usActive.sha
    /\ usInstalled' = usActive.to /\ usBin' = usActive.sha
    /\ usBackups' = usBackups \cup {[ver |-> usInstalled, bin |-> usBin, at |-> usOps]}
    /\ usActive' = UsNoPlan /\ usOps' = usOps + 1
    /\ UNCHANGED <<usFeed, usLock, usP, usDir, usPartial, usFaults>>

UsPublish ==
    /\ usFeed' \in UsFeeds /\ usFeed' # usFeed
    /\ UNCHANGED <<usInstalled, usBin, usLock, usP, usDir, usPartial, usActive, usBackups,
                   usOps, usFaults>>

UsDies(a) ==
    /\ usP[a].pc # "idle" /\ UsFault /\ UsGiveUp(a)
    /\ UNCHANGED <<usInstalled, usBin, usFeed, usDir, usPartial, usActive, usBackups,
                   usOps>>

UsNext ==
    \/ \E a \in UsActors :
          \/ \E cur \in {usInstalled, 0} :
                \/ \E chan \in {"auto", "stable", "prerelease"}, down \in BOOLEAN :
                      UsSelect(a, chan, down, cur)
                \/ UsPrepareRollback(a, cur) \/ UsSchedule(a, cur)
          \/ UsManifest(a) \/ UsDownload(a) \/ UsExtract(a) \/ UsRemoveStaged(a)
          \/ UsRenameStaged(a) \/ UsDies(a)
    \/ UsInstall \/ UsPublish

UsSpec == UsInit /\ [][UsNext]_usVars

-----------------------------------------------------------------------------
\* an executable that a key valid for its version and allowed by the policy signed
UsSigned(ver, bin) ==
    \E r \in UsReleases :
        /\ r.ver = ver /\ r.signed = bin
        /\ r.key = r.signedBy /\ r.key \in DOMAIN UsKeys
        /\ UsKeys[r.key].purpose \in {"production", UsPolicy}
        /\ UsKeys[r.key].notBefore <= r.ver
        /\ UsKeys[r.key].notAfter # 0 => r.ver <= UsKeys[r.key].notAfter

\* A plan of a release installs what was signed, and finds in the staging
\* directory the very executable its command verified, although another
\* command may have replaced it between the two critical sections.  Rollbacks
\* install backups without a signature, yet whatever is installed or planned
\* was signed, unless it is what was installed first.
UsPlanIsSigned ==
    /\ usActive.to # 0 =>
          IF usActive.local
          THEN UsSigned(usActive.to, usActive.sha) \/ (usActive.to = UsFirst /\ usActive.sha = 0)
          ELSE UsSigned(usActive.to, usActive.sha) /\ usDir[usActive.to] = usActive.sha
    /\ UsSigned(usInstalled, usBin) \/ (usInstalled = UsFirst /\ usBin = 0)

=============================================================================
