------------------------------ MODULE Launcher ------------------------------
(***************************************************************************)
(* `accomplish up` and `accomplish stop` for one project                   *)
(* (src/scripts/accomplish-lib.mjs): the lifecycle lock, runtime.json, the *)
(* health probe, and the controller processes these commands start and     *)
(* signal.  A launcher is one invocation of the command.                   *)
(***************************************************************************)
EXTENDS ControllerProcess

CONSTANT Launchers  \* invocations that may ever run

ASSUME LaunchersAssumption == None \notin Launchers \cup Files(Launchers)

VARIABLES
  lifecycle,  \* lifecycle.lock
  runtime,    \* the controller runtime.json records, or None
  lpc,        \* where each launcher is
  command,    \* what it was called for
  lseen,      \* the holder it has read from lifecycle.lock
  child,      \* the controller it has spawned or will signal
  outcome     \* what it has to report

launcherVars == <<lifecycle, runtime, lpc, command, lseen, child, outcome>>

Waiting == {"wait", "test", "clear", "write"}
\* Between withOwnedLock's acquisition and the end of its release.
Inside == {"status", "spawn", "record", "await", "kill", "awaitExit", "forget", "unlock"}

LauncherTypeOK ==
  /\ lifecycle \in Files(Launchers) \cup {None}
  /\ runtime \in Controllers \cup {None}
  /\ lpc \in [Launchers -> {"absent", "ended"} \cup Waiting \cup Inside]
  /\ command \in [Launchers -> {"up", "stop"}]
  /\ lseen \in [Launchers -> Launchers \cup {None}]
  /\ child \in [Launchers -> Controllers \cup {None}]
  /\ outcome \in [Launchers -> {"none", "done", "error"}]

LiveLauncher(l) == lpc[l] \in Waiting \cup Inside

\* probeHealth: the controller on the port, or no answer, which a busy one
\* gives too when its second is over.
Healths == Serving \cup {None}

LauncherInit ==
  /\ lifecycle = None
  /\ runtime = None
  /\ lpc = [l \in Launchers |-> "absent"]
  /\ command \in [Launchers -> {"up", "stop"}]
  /\ lseen = [l \in Launchers |-> None]
  /\ child = [l \in Launchers |-> None]
  /\ outcome = [l \in Launchers |-> "none"]

-----------------------------------------------------------------------------
Goes(l, from, to) == lpc[l] = from /\ lpc' = [lpc EXCEPT ![l] = to]

\* The command has its result and goes on to release the lifecycle lock.
Concludes(l, result) ==
  /\ lpc' = [lpc EXCEPT ![l] = "unlock"]
  /\ outcome' = [outcome EXCEPT ![l] = result]

Ends(l, result) ==
  /\ lpc' = [lpc EXCEPT ![l] = "ended"]
  /\ outcome' = [outcome EXCEPT ![l] = result]
  /\ lseen' = [lseen EXCEPT ![l] = None]
  /\ child' = [child EXCEPT ![l] = None]

Invoke(l) ==
  /\ Goes(l, "absent", "wait")
  /\ UNCHANGED <<lifecycle, runtime, command, lseen, child, outcome>>
  /\ UNCHANGED controllerVars

\* Mutant of TryLock: the file is opened with "w".
TryLockAnyway(l) ==
  /\ Goes(l, "wait", "write")
  /\ lifecycle' = [by |-> l, whole |-> FALSE]
  /\ UNCHANGED <<runtime, command, lseen, child, outcome>>
  /\ UNCHANGED controllerVars

\* acquireOwnedLock: create the file, or read the one that is there.  One
\* that does not parse yet is waited for.
TryLock(l) ==
  /\ lpc[l] = "wait"
  /\ \/ /\ lifecycle = None
        /\ lifecycle' = [by |-> l, whole |-> FALSE]
        /\ lpc' = [lpc EXCEPT ![l] = "write"]
        /\ UNCHANGED lseen
     \/ /\ lifecycle # None /\ lifecycle.whole
        /\ lpc' = [lpc EXCEPT ![l] = "test"]
        /\ lseen' = [lseen EXCEPT ![l] = lifecycle.by]
        /\ UNCHANGED lifecycle
  /\ UNCHANGED <<runtime, command, child, outcome>>
  /\ UNCHANGED controllerVars

\* Mutant of GiveUp: a lock that does not parse is waited for without end.
GiveUpOnHolder(l) ==
  /\ lpc[l] = "wait" /\ lifecycle # None /\ lifecycle.whole
  /\ Ends(l, "error")
  /\ UNCHANGED <<lifecycle, runtime, command>>
  /\ UNCHANGED controllerVars

\* 1200 attempts, 25 ms apart.
GiveUp(l) ==
  /\ lpc[l] = "wait" /\ lifecycle # None
  /\ Ends(l, "error")
  /\ UNCHANGED <<lifecycle, runtime, command>>
  /\ UNCHANGED controllerVars

\* processIsAlive of the recorded id, which may belong to another by now.
TestHolder(l) ==
  /\ lpc[l] = "test"
  /\ \/ /\ ~LiveLauncher(lseen[l])
        /\ lpc' = [lpc EXCEPT ![l] = "clear"]
     \/ lpc' = [lpc EXCEPT ![l] = "wait"]
  /\ lseen' = [lseen EXCEPT ![l] = None]
  /\ UNCHANGED <<lifecycle, runtime, command, child, outcome>>
  /\ UNCHANGED controllerVars

\* unlink(path): the file that is there now.
ClearLock(l) ==
  /\ Goes(l, "clear", "wait")
  /\ lifecycle' = None
  /\ stolen' = (stolen \/ (lifecycle # None /\ LiveLauncher(lifecycle.by)))
  /\ UNCHANGED <<runtime, command, lseen, child, outcome>>
  /\ UNCHANGED <<lock, pc, seen, live, conn, crashes>>

WriteLock(l) ==
  /\ Goes(l, "write", "status")
  /\ lifecycle' = IF lifecycle = [by |-> l, whole |-> FALSE]
                  THEN [by |-> l, whole |-> TRUE] ELSE lifecycle
  /\ UNCHANGED <<runtime, command, lseen, child, outcome>>
  /\ UNCHANGED controllerVars

-----------------------------------------------------------------------------
\* projectStatus and what `up` does about it: nothing when it is running;
\* an unknown answer or a recorded process that does not answer is an error;
\* a record of a dead process is removed first.
StatusOfUp(l) ==
  /\ lpc[l] = "status" /\ command[l] = "up"
  /\ \E health \in Healths :
       \/ /\ health # None
          /\ Concludes(l, IF health = runtime THEN "done" ELSE "error")
          /\ UNCHANGED runtime
       \/ /\ health = None /\ runtime # None
          /\ Concludes(l, "error")
          /\ UNCHANGED runtime
       \/ /\ health = None
          /\ runtime # None => ~LiveController(runtime)
          /\ lpc' = [lpc EXCEPT ![l] = "spawn"]
          /\ runtime' = None
          /\ UNCHANGED outcome
  /\ UNCHANGED <<lifecycle, command, lseen, child>>
  /\ UNCHANGED controllerVars

\* spawn, or an installation without a built server.
Spawn(l) ==
  /\ lpc[l] = "spawn"
  /\ \/ \E p \in Controllers :
          /\ StartController(p)
          /\ child' = [child EXCEPT ![l] = p]
          /\ lpc' = [lpc EXCEPT ![l] = "record"]
          /\ UNCHANGED outcome
     \/ /\ Concludes(l, "error")
        /\ UNCHANGED child
        /\ UNCHANGED controllerVars
  /\ UNCHANGED <<lifecycle, runtime, command, lseen>>

\* writeJsonAtomic(runtimePath).
RecordChild(l) ==
  /\ Goes(l, "record", "await")
  /\ runtime' = child[l]
  /\ UNCHANGED <<lifecycle, command, lseen, child, outcome>>
  /\ UNCHANGED controllerVars

\* waitForMatchingHealth.
Healthy(l) ==
  /\ lpc[l] = "await"
  /\ child[l] \in Serving
  /\ Concludes(l, "done")
  /\ UNCHANGED <<lifecycle, runtime, command, lseen, child>>
  /\ UNCHANGED controllerVars

\* Mutant of Unhealthy: the child is left alone.
UnhealthyLeavesChild(l) ==
  /\ Goes(l, "await", "forget")
  /\ outcome' = [outcome EXCEPT ![l] = "error"]
  /\ UNCHANGED controllerVars
  /\ UNCHANGED <<lifecycle, runtime, command, lseen, child>>

\* Another controller answers, the child has ended, or 20 s are over: the
\* child is told to end, and nobody waits until it has.
Unhealthy(l) ==
  /\ Goes(l, "await", "forget")
  /\ outcome' = [outcome EXCEPT ![l] = "error"]
  /\ IF LiveController(child[l])
     THEN Signalled(child[l]) /\ UNCHANGED crashes
     ELSE UNCHANGED controllerVars
  /\ UNCHANGED <<lifecycle, runtime, command, lseen, child>>

-----------------------------------------------------------------------------
\* projectStatus and what `stop` does about it.
StatusOfStop(l) ==
  /\ lpc[l] = "status" /\ command[l] = "stop"
  /\ \E health \in Healths :
       \/ /\ health # None /\ health = runtime
          /\ lpc' = [lpc EXCEPT ![l] = "kill"]
          /\ child' = [child EXCEPT ![l] = runtime]
          /\ UNCHANGED outcome
       \/ /\ health # None /\ health # runtime
          /\ Concludes(l, "error")
          /\ UNCHANGED child
       \/ /\ health = None /\ runtime = None
          /\ Concludes(l, "done")
          /\ UNCHANGED child
       \/ /\ health = None /\ runtime # None
          /\ \/ Concludes(l, "error")
             \/ /\ ~LiveController(runtime)
                /\ lpc' = [lpc EXCEPT ![l] = "forget"]
                /\ outcome' = [outcome EXCEPT ![l] = "done"]
          /\ UNCHANGED child
  /\ UNCHANGED <<lifecycle, runtime, command, lseen>>
  /\ UNCHANGED controllerVars

\* process.kill(pid, "SIGTERM") throws when there is no such process.
KillController(l) ==
  /\ lpc[l] = "kill"
  /\ \/ /\ Signalled(child[l])
        /\ lpc' = [lpc EXCEPT ![l] = "awaitExit"]
        /\ UNCHANGED outcome
        /\ UNCHANGED crashes
     \/ /\ ~LiveController(child[l])
        /\ Concludes(l, "error")
        /\ UNCHANGED controllerVars
  /\ UNCHANGED <<lifecycle, runtime, command, lseen, child>>

\* waitForProcessExit: after 15 s the command fails, and the record stays.
AwaitExit(l) ==
  /\ lpc[l] = "awaitExit"
  /\ \/ /\ ~LiveController(child[l])
        /\ lpc' = [lpc EXCEPT ![l] = "forget"]
        /\ outcome' = [outcome EXCEPT ![l] = "done"]
     \/ /\ LiveController(child[l])
        /\ Concludes(l, "error")
  /\ UNCHANGED <<lifecycle, runtime, command, lseen, child>>
  /\ UNCHANGED controllerVars

\* rm(runtimePath, { force: true }), whatever it records by now.
Forget(l) ==
  /\ Goes(l, "forget", "unlock")
  /\ runtime' = None
  /\ UNCHANGED <<lifecycle, command, lseen, child, outcome>>
  /\ UNCHANGED controllerVars

\* The release unlinks whatever file has the name by now.
Unlock(l) ==
  /\ lpc[l] = "unlock"
  /\ lifecycle' = None
  /\ stolen' = (stolen \/ (lifecycle # None /\ lifecycle.by # l /\ LiveLauncher(lifecycle.by)))
  /\ Ends(l, outcome[l])
  /\ UNCHANGED <<runtime, command>>
  /\ UNCHANGED <<lock, pc, seen, live, conn, crashes>>

\* Ctrl-C on the command, or a kill: the files stay.
LauncherCrash(l) ==
  /\ LiveLauncher(l)
  /\ crashes < MaxCrashes
  /\ crashes' = crashes + 1
  /\ Ends(l, "error")
  /\ UNCHANGED <<lifecycle, runtime, command>>
  /\ UNCHANGED <<lock, pc, seen, stolen, live, conn>>

LauncherStep(l) ==
  \/ TryLock(l) \/ GiveUp(l) \/ TestHolder(l) \/ ClearLock(l) \/ WriteLock(l)
  \/ StatusOfUp(l) \/ Spawn(l) \/ RecordChild(l) \/ Healthy(l) \/ Unhealthy(l)
  \/ StatusOfStop(l) \/ KillController(l) \/ AwaitExit(l) \/ Forget(l) \/ Unlock(l)
=============================================================================
