-------------------------------- MODULE Host --------------------------------
(***************************************************************************)
(* One project on its host: launchers that start and stop controllers, the *)
(* controllers themselves, and a restore of the database, over the files   *)
(* they share (controller.lock, lifecycle.lock, runtime.json and the       *)
(* database).  Controllers are started by launchers only.                  *)
(***************************************************************************)
EXTENDS Launcher, Restore

hostVars == <<controllerVars, launcherVars, restoreVars>>

HostInit == ControllerInit /\ LauncherInit /\ RestoreInit

ControllerRuns(p) == ControllerStep(p) /\ UNCHANGED <<launcherVars, restoreVars>>
LauncherRuns(l) == LauncherStep(l) /\ UNCHANGED restoreVars
RestoreRuns == RestoreStep /\ UNCHANGED launcherVars

\* What happens to a process, or begins, without anybody having to.
Happens ==
  \/ \E p \in Controllers : Crash(p) /\ UNCHANGED <<launcherVars, restoreVars>>
  \/ \E l \in Launchers : (Invoke(l) \/ LauncherCrash(l)) /\ UNCHANGED restoreVars
  \/ (BeginRestore \/ RestoreCrash) /\ UNCHANGED launcherVars

HostNext ==
  \/ \E p \in Controllers : ControllerRuns(p)
  \/ \E l \in Launchers : LauncherRuns(l)
  \/ RestoreRuns
  \/ Happens

HostSpec == HostInit /\ [][HostNext]_hostVars

\* The system schedules every process, and the 1200 attempts of a launcher
\* that waits run out.
GivesUp(l) == GiveUp(l) /\ UNCHANGED restoreVars
FairHostSpec ==
  /\ HostSpec
  /\ \A p \in Controllers : WF_hostVars(ControllerRuns(p))
  /\ \A l \in Launchers : WF_hostVars(LauncherRuns(l)) /\ SF_hostVars(GivesUp(l))
  /\ WF_hostVars(RestoreRuns)

HostTypeOK == ControllerTypeOK /\ LauncherTypeOK /\ RestoreTypeOK

-----------------------------------------------------------------------------
Holders == {p \in Controllers : Holds(p)}
Insiders == {l \in Launchers : lpc[l] \in Inside}

\* Unless a lock file was removed from under its live holder, at most one
\* command is between taking and releasing the lifecycle lock.
LifecycleIsExclusive ==
  ~stolen => \A k, l \in Insiders : k = l

\* The controllers implement the ownership of the data directory: from
\* acquireControllerLock's return to the end of release() a controller is
\* the only one, crashes, signals and restores included, unless a lock file
\* was removed from under its live holder.
Ownership == INSTANCE DirectoryOwnership
  WITH Processes <- Controllers, owners <- Holders, void <- stolen
ImplementsOwnership == Ownership!Spec

\* A controller that serves the port is the one runtime.json names, or its
\* launcher is about to write the name: else `up` would report a conflict
\* and `stop` refuse for as long as it runs.  A killed launcher can leave
\* one without a record.
ServingIsRecorded ==
  (~stolen /\ crashes = 0) =>
    \A p \in Serving :
      \/ runtime = p
      \/ \E l \in Launchers : lpc[l] = "record" /\ child[l] = p

\* The database a restore replaces is never lost, wherever the restore or a
\* controller is killed: it has its own name or the one it was put aside to.
PriorSurvives == "prior" \in {live, aside}

\* When the restore's look at controller.lock lets it go on, no controller
\* has the database open: the lock is given up after the database, and a
\* dead holder's connection is gone.
CheckMeansStopped ==
  [][rpc = "check" /\ rpc' \in {"clear", "exclusive"} /\ ~stolen => Users = {}]_hostVars

\* Every command comes to an end and every started controller comes to
\* serve or ends: an abandoned or half-written lock, a child that never
\* answers or never exits, a race for a stale lock only make commands fail.
EverybodySettles ==
  <>[](/\ \A l \in Launchers : ~LiveLauncher(l)
       /\ \A p \in Controllers : pc[p] \in {"absent", "serve", "dead"})

\* OPERATIONS.md lets the owner restore "after `accomplish stop` confirms"
\* that the controller has stopped: a `stop` that succeeds leaves none that
\* has the database open.
StopConfirmsStopped ==
  \A l \in Launchers :
    command[l] = "stop" /\ lpc[l] = "unlock" /\ outcome[l] = "done" => Users = {}
=============================================================================
