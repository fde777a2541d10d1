------------------------------- MODULE Restore -------------------------------
(***************************************************************************)
(* `npm run db:restore` (src/scripts/sqlite-maintenance.mjs): one run of   *)
(* the command over the data directory of ControllerProcess.  It looks at  *)
(* the controller's lock once, holds none of its own, and puts the backup  *)
(* in place by renaming; it may be killed between any two steps.  Backup   *)
(* files are only ever read.                                               *)
(***************************************************************************)
EXTENDS ControllerProcess

VARIABLES
  rpc,      \* where the restore is
  staged,   \* the copy of the backup next to the live name
  aside     \* what it has renamed to .pre-restore

restoreVars == <<rpc, staged, aside>>

RestoreTypeOK ==
  /\ rpc \in {"absent", "check", "probe", "clear", "exclusive", "copy", "verify",
              "putAside", "putWalAside", "putShmAside", "install", "done", "failed"}
  /\ staged \in {None, "partial", "backup"}
  /\ aside \in Databases \cup {None}

RestoreInit == rpc = "absent" /\ staged = None /\ aside = None

-----------------------------------------------------------------------------
Restores(from, to) == rpc = from /\ rpc' = to

BeginRestore ==
  /\ Restores("absent", "check")
  /\ UNCHANGED <<staged, aside>> /\ UNCHANGED controllerVars

\* Mutant of CheckStopped: nobody asks whether the holder lives.
CheckWritten ==
  /\ \/ lock = None /\ Restores("check", "exclusive")
     \/ lock # None /\ lock.whole /\ Restores("check", "clear")
     \/ lock # None /\ Restores("check", "failed")
  /\ UNCHANGED <<staged, aside>> /\ UNCHANGED controllerVars

\* assertControllerStopped: no lock file, or that of a dead process, which
\* is renamed; one that is not written yet is refused.
CheckStopped ==
  /\ \/ lock = None /\ Restores("check", "exclusive")
     \/ lock # None /\ lock.whole /\ ~LiveController(lock.by) /\ Restores("check", "clear")
     \/ lock # None /\ Restores("check", "failed")
  /\ UNCHANGED <<staged, aside>> /\ UNCHANGED controllerVars

\* rename(lockPath): the file that is there now; none is an error.
ClearStaleLock ==
  /\ \/ lock # None /\ Restores("clear", "exclusive")
     \/ lock = None /\ Restores("clear", "failed")
  /\ LockRemoved
  /\ UNCHANGED <<staged, aside>> /\ UNCHANGED <<pc, seen, live, conn, crashes>>

\* The backup is verified, then BEGIN EXCLUSIVE and ROLLBACK on the live
\* database: it fails for a missing one or one in a transaction, and an open
\* one that is idle does not stop it.
ProbeExclusive ==
  /\ \/ live # None /\ Restores("exclusive", "copy")
     \/ (live = None \/ Users # {}) /\ Restores("exclusive", "failed")
  /\ UNCHANGED <<staged, aside>> /\ UNCHANGED controllerVars

\* Mutant of CopyBackup: the backup is copied over the live name.
CopyOverLive ==
  /\ Restores("copy", "verify")
  /\ live' = "partial"
  /\ UNCHANGED <<staged, aside>> /\ UNCHANGED <<lock, pc, seen, stolen, conn, crashes>>

\* copyFile, which takes its time, and verifyDatabase(staged).
CopyBackup ==
  /\ Restores("copy", "verify")
  /\ staged' = "partial"
  /\ UNCHANGED aside /\ UNCHANGED controllerVars

VerifyCopy ==
  /\ Restores("verify", "putAside")
  /\ staged' = "backup"
  /\ UNCHANGED aside /\ UNCHANGED controllerVars

\* Mutant of PutAside: the live database is removed.
RemoveLive ==
  /\ Restores("putAside", "putWalAside")
  /\ live' = None
  /\ UNCHANGED <<staged, aside>> /\ UNCHANGED <<lock, pc, seen, stolen, conn, crashes>>

\* rename(databasePath, rollback).
PutAside ==
  /\ Restores("putAside", "putWalAside")
  /\ aside' = live
  /\ live' = None
  /\ UNCHANGED staged /\ UNCHANGED <<lock, pc, seen, stolen, conn, crashes>>

\* The renames of the database's -wal and -shm, whose content is not modelled;
\* a missing one is no error.
PutCompanionAside ==
  /\ \/ Restores("putWalAside", "putShmAside")
     \/ Restores("putShmAside", "install")
  /\ UNCHANGED <<staged, aside>> /\ UNCHANGED controllerVars

\* rename(staged, databasePath) replaces whatever has the name by now.
Install ==
  /\ Restores("install", "done")
  /\ live' = staged
  /\ staged' = None
  /\ UNCHANGED aside /\ UNCHANGED <<lock, pc, seen, stolen, conn, crashes>>

RestoreCrash ==
  /\ rpc \notin {"absent", "done", "failed"}
  /\ crashes < MaxCrashes
  /\ crashes' = crashes + 1
  /\ rpc' = "failed"
  /\ UNCHANGED <<staged, aside>> /\ UNCHANGED <<lock, pc, seen, stolen, live, conn>>

RestoreStep ==
  \/ CheckStopped \/ ClearStaleLock \/ ProbeExclusive \/ CopyBackup
  \/ VerifyCopy \/ PutAside \/ PutCompanionAside \/ Install
=============================================================================
