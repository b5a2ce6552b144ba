--------------------------------- MODULE Updater ---------------------------------
(***************************************************************************)
(* kubePeep update: internal/updater.  The release is downloaded, checked     *)
(* against its SHA-256, staged beside the executable and asked for its        *)
(* version; on Unix it then replaces the executable, is asked again, and a     *)
(* backup is restored if it does not answer; on Windows a detached helper      *)
(* does the same once the updater has exited, comparing hashes first.          *)
(* A lock file keeps updates apart; a crash leaves it behind.                  *)
(***************************************************************************)
EXTENDS Integers

CONSTANTS
    Updaters, Versions

ASSUME UpdaterAssumption == Versions \subseteq Nat \ {0}

VARIABLES
    windows,     \* which replacement the platform has
    installed,   \* the version at the executable's path
    updateLock,  \* .kubePeep.update.lock exists
    update       \* the updaters, and on Windows their helpers

updateVars == <<installed, updateLock, update>>

UpdateInit ==
    /\ windows \in BOOLEAN
    /\ installed = 1
    /\ updateLock = FALSE
    /\ update = [u \in Updaters |->
                   [pc |-> "idle", target |-> 0, before |-> 0, backup |-> 0, result |-> "none"]]

\* Update ends: the lock file goes with it.
Ends(u, result) ==
    /\ update' = [update EXCEPT ![u].pc = "done", ![u].result = result, ![u].backup = 0]
    /\ updateLock' = FALSE

\* normalizeVersion, releaseAsset and the exclusive lock file.
BeginUpdate(u, v) ==
    /\ update[u].pc = "idle" /\ v # installed
    /\ IF updateLock
       THEN /\ update' = [update EXCEPT ![u].pc = "done", ![u].result = "concurrent"]
            /\ UNCHANGED updateLock
       ELSE /\ update' = [update EXCEPT ![u].pc = "locked", ![u].target = v, ![u].before = installed]
            /\ updateLock' = TRUE
    /\ UNCHANGED installed

\* The checksums, the archive, its hash, the binary in it.
Download(u) ==
    /\ update[u].pc = "locked"
    /\ update' = [update EXCEPT ![u].pc = "fetched"]
    /\ UNCHANGED <<installed, updateLock>>

\* stageCandidate, and commandVerifier on the candidate.
Stage(u) ==
    /\ update[u].pc = "fetched"
    /\ update' = [update EXCEPT ![u].pc = "staged"]
    /\ UNCHANGED <<installed, updateLock>>

\* installPlatform on Windows: the helper is launched, and keeps the lock file.
Schedule(u) ==
    /\ update[u].pc = "staged" /\ windows
    /\ update' = [update EXCEPT ![u].pc = "scheduled"]
    /\ UNCHANGED <<installed, updateLock>>

\* Any of it fails: what was staged is removed.
UpdateFails(u) ==
    /\ update[u].pc \in {"locked", "fetched", "staged", "scheduled"}
    /\ Ends(u, "failed")
    /\ UNCHANGED installed

\* installPlatform on Unix: copyBackup, then the rename.
CopyBackup(u) ==
    /\ update[u].pc = "staged" /\ update[u].backup = 0 /\ ~windows
    /\ update' = [update EXCEPT ![u].backup = installed]
    /\ UNCHANGED <<installed, updateLock>>

Replace(u) ==
    /\ update[u].pc = "staged" /\ update[u].backup # 0
    /\ installed' = update[u].target
    /\ update' = [update EXCEPT ![u].pc = "replaced"]
    /\ UNCHANGED updateLock

\* The Windows helper, once the updater is gone: both files must be those
\* that were hashed; File.Replace keeps the old one as the backup.
HelperReplace(u) ==
    /\ update[u].pc = "scheduled"
    /\ IF installed = update[u].before
       THEN /\ installed' = update[u].target
            /\ update' = [update EXCEPT ![u].pc = "replaced", ![u].backup = installed]
            /\ UNCHANGED updateLock
       ELSE Ends(u, "failed") /\ UNCHANGED installed

\* The replacement reports its version: the backup is removed.
VerifyReplacement(u) ==
    /\ update[u].pc = "replaced"
    /\ Ends(u, "updated")
    /\ UNCHANGED installed

\* It does not, or the update is cancelled: the backup is removed first.
RollBackLate(u) ==
    /\ update[u].pc = "replaced"
    /\ Ends(u, "rolled back")
    /\ UNCHANGED installed

\* It does not, or the update is cancelled: the backup is renamed back.
RollBack(u) ==
    /\ update[u].pc = "replaced"
    /\ installed' = update[u].backup
    /\ Ends(u, "rolled back")

\* The rename back fails, or the replacement answers but its backup cannot be
\* removed: an error is reported and the replacement stays.
ReplacementStays(u) ==
    /\ update[u].pc = "replaced"
    /\ Ends(u, "stays")
    /\ UNCHANGED installed

\* The updater is killed: the lock file and its other files stay.
CrashUpdate(u) ==
    /\ update[u].pc \notin {"idle", "done"}
    /\ update' = [update EXCEPT ![u].pc = "done", ![u].result = "crashed"]
    /\ UNCHANGED <<installed, updateLock>>

UpdateStep(u) == \/ Download(u) \/ Stage(u) \/ Schedule(u) \/ CopyBackup(u) \/ Replace(u) \/ HelperReplace(u)
                 \/ VerifyReplacement(u)

UpdateFault(u) == UpdateFails(u) \/ RollBack(u) \/ ReplacementStays(u) \/ CrashUpdate(u)

Updating == \E u \in Updaters : update[u].pc \notin {"idle", "done"}

-----------------------------------------------------------------------------
(* Properties *)

\* All or nothing: an update that reports success leaves its version in place,
\* and one that fails, is refused or is rolled back leaves what was there when
\* it began, also when two updates and their helpers race.
AllOrNothing ==
    [][\A u \in Updaters :
         update'[u].result # update[u].result =>
            CASE update'[u].result = "updated" -> installed' = update[u].target
              [] update'[u].result \in {"failed", "rolled back"} -> installed' = update[u].before
              [] OTHER -> installed' = installed]_updateVars
=============================================================================
