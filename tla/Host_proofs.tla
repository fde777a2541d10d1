---------------------------- MODULE Host_proofs ----------------------------
(***************************************************************************)
(* Theorems about Host, for any number of controllers, launchers and       *)
(* crashes.                                                                *)
(***************************************************************************)
EXTENDS Host, TLAPS

\* The file of a holder that has lost nothing is its own, and written.
LockIsHolders ==
  ~stolen => \A p \in Controllers :
    /\ Holds(p) => lock = [by |-> p, whole |-> TRUE]
    /\ pc[p] = "write" => lock = [by |-> p, whole |-> FALSE]

\* The database is open only between the lock's taking and its release.
UsersHold == \A p \in Controllers : conn[p] # None => Holds(p)

ControllerInv == ControllerTypeOK /\ LockIsHolders /\ UsersHold

\* The same for the lifecycle lock.
LifecycleIsHolders ==
  ~stolen => \A l \in Launchers :
    /\ lpc[l] \in Inside => lifecycle = [by |-> l, whole |-> TRUE]
    /\ lpc[l] = "write" => lifecycle = [by |-> l, whole |-> FALSE]

\* A launcher that signals or records a controller has one.
ChildIsKnown ==
  \A l \in Launchers :
    lpc[l] \in {"record", "await", "kill", "awaitExit"} => child[l] \in Controllers

LauncherInv == LauncherTypeOK /\ LifecycleIsHolders /\ ChildIsKnown

\* Where the prior database and the copy are at each step of the restore.
PriorAt ==
  /\ rpc \notin {"putWalAside", "putShmAside", "install", "done", "failed"} => live = "prior"
  /\ rpc \in {"putWalAside", "putShmAside", "install", "done"} => aside = "prior"
  /\ rpc = "failed" => "prior" \in {live, aside}
  /\ rpc \in {"putAside", "putWalAside", "putShmAside", "install"} => staged = "backup"

RestoreInv == RestoreTypeOK /\ PriorAt

HostInv == ControllerInv /\ LauncherInv /\ RestoreInv

-----------------------------------------------------------------------------
(* The controllers *)

\* Everything that may happen to a controller.
Moves(p) ==
  \/ ControllerStep(p)
  \/ StartController(p)
  \/ Signalled(p) /\ UNCHANGED crashes
  \/ Crash(p)

\* Lock files: each is one, and knows who made it and whether it is written.
LEMMA ControllerFiles ==
  /\ None \notin Files(Controllers)
  /\ \A p \in Controllers, b \in BOOLEAN :
       LET f == [by |-> p, whole |-> b]
       IN f \in Files(Controllers) /\ f.by = p /\ f.whole = b
BY ControllersAssumption DEF Files

LEMMA ControllerMoves ==
  ASSUME ControllerInv, NEW p \in Controllers, Moves(p)
  PROVE  ControllerInv' /\ (stolen => stolen')
<1> USE DEF ControllerInv, ControllerTypeOK, UsersHold, Holds, Running, Acquiring, Alive, At
<1>1. \/ UNCHANGED <<lock, stolen>>
      \/ Create(p) \/ TakeOver(p) \/ Write(p) \/ Unlink(p)
  BY DEF Moves, ControllerStep, StartController, Inspect, Probe, OpenDatabase, OpenFails,
     Initialized, Listen, Close, Release, Signalled, Crash
<1>2. lock' \in Files(Controllers) \cup {None} /\ stolen' \in BOOLEAN /\ (stolen => stolen')
  <2>1. [by |-> p, whole |-> FALSE] \in Files(Controllers) /\ [by |-> p, whole |-> TRUE] \in Files(Controllers)
    BY DEF Files
  <2>2. CASE Create(p)
    BY <2>1, <2>2 DEF Create
  <2>3. CASE TakeOver(p) \/ Unlink(p)
    BY <2>3 DEF TakeOver, LockRemoved, Unlink
  <2>4. CASE Write(p)
    BY <2>1, <2>4 DEF Write
  <2> QED BY <1>1, <2>2, <2>3, <2>4
<1>3. /\ pc' \in [Controllers -> {"absent", "dead"} \cup Alive]
      /\ seen' \in [Controllers -> Controllers \cup {None}]
      /\ conn' \in [Controllers -> Databases \cup {None}]
      /\ live' \in Databases \cup {None}
      /\ crashes' \in 0..MaxCrashes
      /\ UsersHold'
  <2>1. CASE StartController(p)
    BY <2>1 DEF StartController
  <2>2. CASE Create(p)
    BY <2>2 DEF Create
  <2>3. CASE Inspect(p)
    <3>1. seen' \in [Controllers -> Controllers \cup {None}]
      BY <2>3 DEF Inspect, Dies, Files
    <3> QED BY <2>3, <3>1 DEF Inspect, Dies
  <2>4. CASE Probe(p)
    BY <2>4 DEF Probe, Dies
  <2>5. CASE TakeOver(p)
    BY <2>5 DEF TakeOver
  <2>6. CASE Write(p)
    BY <2>6 DEF Write
  <2>7. CASE OpenDatabase(p)
    BY <2>7 DEF OpenDatabase, Databases
  <2>8. CASE OpenFails(p)
    BY <2>8 DEF OpenFails, Dies
  <2>9. CASE Initialized(p)
    BY <2>9 DEF Initialized
  <2>10. CASE Listen(p)
    BY <2>10 DEF Listen
  <2>11. CASE Close(p)
    BY <2>11 DEF Close
  <2>12. CASE Release(p)
    BY <2>12 DEF Release, Dies
  <2>13. CASE Unlink(p)
    BY <2>13 DEF Unlink, Dies
  <2>14. CASE Signalled(p) /\ UNCHANGED crashes
    BY <2>14 DEF Signalled, Dies, LiveController, Unhandled
  <2>15. CASE Crash(p)
    BY <2>15, CrashAssumption DEF Crash, Dies, LiveController
  <2> QED
    BY <2>1, <2>2, <2>3, <2>4, <2>5, <2>6, <2>7, <2>8, <2>9, <2>10, <2>11, <2>12, <2>13, <2>14, <2>15 DEF Moves, ControllerStep
<1>4. LockIsHolders'
  <2> SUFFICES ASSUME ~stolen', NEW q \in Controllers
               PROVE  /\ Holds(q)' => lock' = [by |-> q, whole |-> TRUE]
                      /\ pc'[q] = "write" => lock' = [by |-> q, whole |-> FALSE]
    BY DEF LockIsHolders
  <2>0. /\ ~stolen
        /\ Holds(q) => lock = [by |-> q, whole |-> TRUE]
        /\ pc[q] = "write" => lock = [by |-> q, whole |-> FALSE]
    BY <1>2 DEF LockIsHolders
  <2>00. Holds(q) \/ pc[q] = "write" => lock # None /\ lock.by = q /\ LiveController(q)
    <3>1. ASSUME NEW b \in BOOLEAN, lock = [by |-> q, whole |-> b]
          PROVE  lock # None /\ lock.by = q
      <4>1. lock \in Files(Controllers) /\ lock.by = q
        BY <3>1 DEF Files
      <4> QED BY <4>1, ControllersAssumption
    <3>2. Holds(q) => LiveController(q)
      BY DEF LiveController
    <3>3. pc[q] = "write" => LiveController(q)
      BY DEF LiveController
    <3> QED BY <2>0, <3>1, <3>2, <3>3
  <2>1. CASE StartController(p)
    BY <2>1, <2>0, ControllerFiles DEF StartController
  <2>2. CASE Create(p)
    <3>1. CASE lock = None
      <4>1. ~Holds(q) /\ pc[q] # "write"
        BY <2>00, <3>1
      <4> QED BY <2>2, <3>1, <4>1 DEF Create
    <3>2. CASE lock # None
      BY <2>2, <2>0, <3>2 DEF Create
    <3> QED BY <3>1, <3>2
  <2>3. CASE Inspect(p)
    BY <2>3, <2>0, ControllerFiles DEF Inspect, Dies
  <2>4. CASE Probe(p)
    BY <2>4, <2>0, ControllerFiles DEF Probe, Dies
  <2>5. CASE TakeOver(p)
    <3>1. ~Holds(q) /\ pc[q] # "write"
      BY <2>5, <2>00 DEF TakeOver, LockRemoved
    <3> QED BY <2>5, <3>1 DEF TakeOver
  <2>6. CASE Write(p)
    <3>1. q # p => ~Holds(q) /\ pc[q] # "write"
      <4>1. pc[p] = "write" /\ lock = [by |-> p, whole |-> FALSE]
        BY <2>6, <2>0 DEF Write, LockIsHolders
      <4> QED BY <2>00, <4>1
    <3>2. lock' = [by |-> p, whole |-> TRUE]
      BY <2>6, <2>0 DEF Write, LockIsHolders
    <3>3. /\ pc'[p] = "open"
          /\ q # p => pc'[q] = pc[q]
      BY <2>6 DEF Write
    <3> QED BY <3>1, <3>2, <3>3
  <2>7. CASE OpenDatabase(p)
    BY <2>7, <2>0, ControllerFiles DEF OpenDatabase, Databases
  <2>8. CASE OpenFails(p)
    BY <2>8, <2>0, ControllerFiles DEF OpenFails, Dies
  <2>9. CASE Initialized(p)
    BY <2>9, <2>0, ControllerFiles DEF Initialized
  <2>10. CASE Listen(p)
    BY <2>10, <2>0, ControllerFiles DEF Listen
  <2>11. CASE Close(p)
    BY <2>11, <2>0, ControllerFiles DEF Close
  <2>12. CASE Release(p)
    BY <2>12, <2>0, ControllerFiles DEF Release, Dies
  <2>13. CASE Unlink(p)
    <3>1. q # p => ~Holds(q) /\ pc[q] # "write"
      BY <2>13, <2>00 DEF Unlink
    <3> QED BY <2>13, <3>1 DEF Unlink, Dies
  <2>14. CASE Signalled(p) /\ UNCHANGED crashes
    BY <2>14, <2>0, ControllerFiles DEF Signalled, Dies, LiveController, Unhandled
  <2>15. CASE Crash(p)
    BY <2>15, <2>0, ControllerFiles DEF Crash, Dies, LiveController
  <2> QED
    BY <2>1, <2>2, <2>3, <2>4, <2>5, <2>6, <2>7, <2>8, <2>9, <2>10, <2>11, <2>12, <2>13, <2>14, <2>15 DEF Moves, ControllerStep
<1> QED
  BY <1>2, <1>3, <1>4

-----------------------------------------------------------------------------
(* The launchers *)

\* Everything that may happen to a launcher.
Acts(l) == Invoke(l) \/ LauncherStep(l) \/ LauncherCrash(l)

\* What an act of a launcher does to the controllers: it starts or signals
\* one, or touches none.
LEMMA ActsMove ==
  ASSUME NEW l \in Launchers, Acts(l), ChildIsKnown, stolen \in BOOLEAN
  PROVE  \/ \E p \in Controllers : Moves(p)
         \/ /\ UNCHANGED <<lock, pc, seen, live, conn>>
            /\ stolen' \in {stolen, TRUE}
            /\ UNCHANGED crashes \/ LauncherCrash(l)
<1>1. CASE Spawn(l)
  BY <1>1 DEF Spawn, Moves, controllerVars
<1>2. CASE Unhealthy(l)
  <2>1. CASE LiveController(child[l])
    <3>1. child[l] \in Controllers
      BY <1>2 DEF Unhealthy, Goes, ChildIsKnown
    <3> QED BY <1>2, <2>1, <3>1 DEF Unhealthy, Moves
  <2>2. CASE ~LiveController(child[l])
    BY <1>2, <2>2 DEF Unhealthy, controllerVars
  <2> QED BY <2>1, <2>2
<1>3. CASE KillController(l)
  BY <1>3 DEF KillController, Moves, controllerVars, ChildIsKnown
<1>4. CASE Unlock(l)
  BY <1>4 DEF Unlock
<1>5. CASE ClearLock(l)
  BY <1>5 DEF ClearLock
<1> QED
  BY <1>1, <1>2, <1>3, <1>4, <1>5 DEF Acts, LauncherStep, Invoke, TryLock, GiveUp, TestHolder,
     WriteLock, StatusOfUp, RecordChild, Healthy, StatusOfStop, AwaitExit, Forget,
     LauncherCrash, controllerVars

LEMMA LauncherFiles ==
  \A l \in Launchers, b \in BOOLEAN :
    [by |-> l, whole |-> b] \in Files(Launchers)
BY DEF Files

LEMMA LauncherActs ==
  ASSUME ControllerTypeOK, LauncherInv, NEW l \in Launchers, Acts(l)
  PROVE  LauncherInv'
<1> USE DEF LauncherInv, LauncherTypeOK, ChildIsKnown, Waiting, Inside
<1>1. /\ lifecycle' \in Files(Launchers) \cup {None}
      /\ runtime' \in Controllers \cup {None}
  <2>1. runtime' \in {runtime, None} \/ (lpc[l] = "record" /\ runtime' = child[l])
    BY DEF Acts, LauncherStep, Invoke, TryLock, GiveUp, TestHolder, ClearLock, WriteLock,
       StatusOfUp, Spawn, RecordChild, Goes, Healthy, Unhealthy, StatusOfStop, KillController,
       AwaitExit, Forget, Unlock, LauncherCrash
  <2>2. \/ lifecycle' \in {lifecycle, None}
        \/ \E b \in BOOLEAN : lifecycle' = [by |-> l, whole |-> b]
    BY DEF Acts, LauncherStep, Invoke, TryLock, GiveUp, TestHolder, ClearLock, WriteLock,
       StatusOfUp, Spawn, RecordChild, Healthy, Unhealthy, StatusOfStop, KillController,
       AwaitExit, Forget, Unlock, LauncherCrash
  <2> QED BY <2>1, <2>2, LauncherFiles
<1>2. /\ lpc' \in [Launchers -> {"absent", "ended"} \cup Waiting \cup Inside]
      /\ command' \in [Launchers -> {"up", "stop"}]
      /\ lseen' \in [Launchers -> Launchers \cup {None}]
      /\ child' \in [Launchers -> Controllers \cup {None}]
      /\ outcome' \in [Launchers -> {"none", "done", "error"}]
      /\ ChildIsKnown'
  <2>1. CASE Invoke(l)
    BY <2>1 DEF Invoke, Goes
  <2>2. CASE TryLock(l)
    <3>1. lifecycle # None => lifecycle.by \in Launchers
      BY DEF Files
    <3>2. lseen' \in [Launchers -> Launchers \cup {None}]
      BY <2>2, <3>1 DEF TryLock
    <3> QED BY <2>2, <3>2 DEF TryLock
  <2>3. CASE GiveUp(l)
    BY <2>3 DEF GiveUp, Ends
  <2>4. CASE TestHolder(l)
    BY <2>4 DEF TestHolder
  <2>5. CASE ClearLock(l)
    BY <2>5 DEF ClearLock, Goes
  <2>6. CASE WriteLock(l)
    BY <2>6 DEF WriteLock, Goes
  <2>7. CASE StatusOfUp(l)
    BY <2>7 DEF StatusOfUp, Concludes
  <2>8. CASE Spawn(l)
    BY <2>8 DEF Spawn, Concludes
  <2>9. CASE RecordChild(l)
    BY <2>9 DEF RecordChild, Goes
  <2>10. CASE Healthy(l)
    BY <2>10 DEF Healthy, Concludes
  <2>11. CASE Unhealthy(l)
    BY <2>11 DEF Unhealthy, Goes
  <2>12. CASE StatusOfStop(l)
    BY <2>12 DEF StatusOfStop, Concludes, Healths, Serving
  <2>13. CASE KillController(l)
    BY <2>13 DEF KillController, Concludes
  <2>14. CASE AwaitExit(l)
    BY <2>14 DEF AwaitExit, Concludes
  <2>15. CASE Forget(l)
    BY <2>15 DEF Forget, Goes
  <2>16. CASE Unlock(l)
    BY <2>16 DEF Unlock, Ends
  <2>17. CASE LauncherCrash(l)
    BY <2>17 DEF LauncherCrash, Ends
  <2> QED
    BY <2>1, <2>2, <2>3, <2>4, <2>5, <2>6, <2>7, <2>8, <2>9, <2>10, <2>11, <2>12, <2>13, <2>14, <2>15, <2>16, <2>17 DEF Acts, LauncherStep
<1>3. LifecycleIsHolders'
  <2> SUFFICES ASSUME ~stolen', NEW k \in Launchers
               PROVE  /\ lpc'[k] \in Inside => lifecycle' = [by |-> k, whole |-> TRUE]
                      /\ lpc'[k] = "write" => lifecycle' = [by |-> k, whole |-> FALSE]
    BY DEF LifecycleIsHolders
  <2>0. ~stolen
    BY DEF ControllerTypeOK, Acts, LauncherStep, Invoke, TryLock, GiveUp, TestHolder, ClearLock,
       WriteLock, StatusOfUp, Spawn, RecordChild, Healthy, Unhealthy, StatusOfStop,
       KillController, AwaitExit, Forget, Unlock, LauncherCrash, controllerVars,
       StartController, Signalled
  <2>1. /\ lpc[k] \in Inside => lifecycle = [by |-> k, whole |-> TRUE]
        /\ lpc[k] = "write" => lifecycle = [by |-> k, whole |-> FALSE]
    BY <2>0 DEF LifecycleIsHolders
  <2>2. lpc[k] \in Inside \cup {"write"} =>
          lifecycle # None /\ lifecycle.by = k /\ LiveLauncher(k)
    <3>1. ASSUME NEW b \in BOOLEAN, lifecycle = [by |-> k, whole |-> b]
          PROVE  lifecycle # None /\ lifecycle.by = k
      <4>1. lifecycle \in Files(Launchers) /\ lifecycle.by = k
        BY <3>1 DEF Files
      <4> QED BY <4>1, LaunchersAssumption
    <3>2. lpc[k] \in Inside \cup {"write"} => LiveLauncher(k)
      BY DEF LiveLauncher
    <3> QED BY <2>1, <3>1, <3>2
  <2>3. CASE TryLock(l)
    <3>1. CASE lifecycle = None
      <4>1. lpc[k] \notin Inside \cup {"write"}
        BY <2>2, <3>1
      <4> QED BY <2>3, <3>1, <4>1 DEF TryLock
    <3>2. CASE lifecycle # None
      BY <2>3, <2>1, <3>2 DEF TryLock
    <3> QED BY <3>1, <3>2
  <2>4. CASE ClearLock(l)
    <3>1. lpc[k] \notin Inside \cup {"write"}
      BY <2>4, <2>2 DEF ClearLock
    <3> QED BY <2>4, <3>1 DEF ClearLock, Goes
  <2>5. CASE WriteLock(l)
    <3>1. lpc[l] = "write" /\ lifecycle = [by |-> l, whole |-> FALSE]
      BY <2>5, <2>0 DEF WriteLock, Goes, LifecycleIsHolders
    <3>2. k # l => lpc[k] \notin Inside \cup {"write"}
      BY <2>2, <3>1
    <3>3. lifecycle' = [by |-> l, whole |-> TRUE]
      BY <2>5, <3>1 DEF WriteLock
    <3>4. lpc'[l] = "status" /\ (k # l => lpc'[k] = lpc[k])
      BY <2>5 DEF WriteLock, Goes
    <3> QED BY <3>2, <3>3, <3>4
  <2>6. CASE Unlock(l)
    <3>1. k # l => lpc[k] \notin Inside \cup {"write"}
      BY <2>6, <2>2 DEF Unlock
    <3> QED BY <2>6, <3>1 DEF Unlock, Ends
  <2>7. ASSUME UNCHANGED lifecycle,
               \A i \in Launchers : i # l => lpc'[i] = lpc[i],
               lpc'[l] # "write",
               lpc'[l] \in Inside => lpc[l] \in Inside
        PROVE  /\ lpc'[k] \in Inside => lifecycle' = [by |-> k, whole |-> TRUE]
               /\ lpc'[k] = "write" => lifecycle' = [by |-> k, whole |-> FALSE]
    <3>1. lifecycle' = lifecycle
      BY <2>7
    <3>2. CASE k = l
      BY <2>1, <2>7, <3>1, <3>2
    <3>3. CASE k # l
      BY <2>1, <2>7, <3>1, <3>3
    <3> QED BY <3>2, <3>3
  <2>8. CASE Invoke(l) \/ GiveUp(l) \/ TestHolder(l) \/ LauncherCrash(l)
    BY <2>7, <2>8 DEF Invoke, GiveUp, TestHolder, LauncherCrash, Goes, Ends
  <2>9. CASE StatusOfUp(l) \/ Spawn(l) \/ RecordChild(l) \/ Healthy(l) \/ Unhealthy(l)
    BY <2>7, <2>9 DEF StatusOfUp, Spawn, RecordChild, Healthy, Unhealthy, Goes, Concludes
  <2>10. CASE StatusOfStop(l) \/ KillController(l) \/ AwaitExit(l) \/ Forget(l)
    BY <2>7, <2>10 DEF StatusOfStop, KillController, AwaitExit, Forget, Goes, Concludes
  <2> QED
    BY <2>3, <2>4, <2>5, <2>6, <2>8, <2>9, <2>10 DEF Acts, LauncherStep
<1> QED
  BY <1>1, <1>2, <1>3

-----------------------------------------------------------------------------
(* The host *)

LEMMA HolderHasFile ==
  ASSUME ControllerInv, ~stolen, NEW q \in Controllers, Holds(q) \/ pc[q] = "write"
  PROVE  lock # None /\ lock.by = q /\ LiveController(q)
<1>1. PICK b \in BOOLEAN : lock = [by |-> q, whole |-> b]
  BY DEF ControllerInv, LockIsHolders
<1>2. lock \in Files(Controllers) /\ lock.by = q
  BY <1>1 DEF Files
<1>3. LiveController(q)
  BY DEF LiveController, Holds, Alive, Running, Acquiring
<1> QED
  BY <1>2, <1>3, ControllersAssumption

LEMMA RestoreMoves ==
  ASSUME HostInv, RestoreStep \/ BeginRestore \/ RestoreCrash
  PROVE  ControllerInv' /\ RestoreInv' /\ (stolen => stolen')
<1> USE DEF HostInv, ControllerInv, ControllerTypeOK, RestoreInv, RestoreTypeOK, PriorAt, Restores
<1>1. CASE UNCHANGED controllerVars
  <2>1. ControllerInv'
    BY <1>1 DEF controllerVars, LockIsHolders, UsersHold, Holds
  <2>2. RestoreInv'
    BY <1>1 DEF controllerVars, RestoreStep, CheckStopped, ClearStaleLock, ProbeExclusive,
       CopyBackup, VerifyCopy, PutAside, PutCompanionAside, Install, BeginRestore, RestoreCrash
  <2> QED BY <1>1, <2>1, <2>2 DEF controllerVars
<1>2. CASE ClearStaleLock
  <2>1. LockIsHolders'
    <3> SUFFICES ASSUME ~stolen', NEW q \in Controllers
                 PROVE  ~Holds(q)' /\ pc'[q] # "write"
      BY DEF LockIsHolders
    <3>1. ~stolen /\ (lock = None \/ ~LiveController(lock.by))
      BY <1>2 DEF ClearStaleLock, LockRemoved
    <3>2. ~Holds(q) /\ pc[q] # "write"
      BY <3>1, HolderHasFile
    <3> QED BY <1>2, <3>2 DEF ClearStaleLock, Holds
  <2>2. ControllerTypeOK' /\ UsersHold'
    BY <1>2 DEF ClearStaleLock, LockRemoved, UsersHold, Holds
  <2>3. RestoreInv' /\ (stolen => stolen')
    BY <1>2 DEF ClearStaleLock, LockRemoved
  <2> QED BY <2>1, <2>2, <2>3
<1>3. CASE PutAside \/ Install
  <2>1. ControllerInv' /\ (stolen => stolen')
    BY <1>3 DEF PutAside, Install, LockIsHolders, UsersHold, Holds, Databases
  <2>2. RestoreInv'
    BY <1>3 DEF PutAside, Install, Databases
  <2> QED BY <2>1, <2>2
<1>4. CASE RestoreCrash
  <2>1. ControllerInv' /\ (stolen => stolen')
    BY <1>4, CrashAssumption DEF RestoreCrash, LockIsHolders, UsersHold, Holds
  <2>2. RestoreInv'
    BY <1>4 DEF RestoreCrash
  <2> QED BY <2>1, <2>2
<1> QED
  BY <1>1, <1>2, <1>3, <1>4 DEF RestoreStep, BeginRestore, CheckStopped, ProbeExclusive,
     CopyBackup, VerifyCopy, PutCompanionAside

\* Only a controller that opens the database makes one.
LEMMA MovesKeepPrior ==
  ASSUME NEW p \in Controllers, Moves(p)
  PROVE  live' = live \/ (live = None /\ live' = "fresh")
BY DEF Moves, ControllerStep, StartController, Create, Inspect, Probe, TakeOver, Write,
   OpenDatabase, OpenFails, Initialized, Listen, Close, Release, Unlink, Signalled, Crash

LEMMA RestoreWatches ==
  ASSUME RestoreInv, UNCHANGED restoreVars, live' = live \/ (live = None /\ live' = "fresh")
  PROVE  RestoreInv'
<1>1. "prior" # None
  BY ControllersAssumption DEF Databases
<1> QED
  BY <1>1 DEF RestoreInv, RestoreTypeOK, PriorAt, restoreVars

LEMMA LaunchersWatch ==
  ASSUME LauncherInv, UNCHANGED launcherVars, stolen => stolen'
  PROVE  LauncherInv'
BY DEF LauncherInv, LauncherTypeOK, LifecycleIsHolders, ChildIsKnown, launcherVars

LEMMA ControllersWatch ==
  ASSUME ControllerInv, NEW l \in Launchers,
         UNCHANGED <<lock, pc, seen, live, conn>>, stolen' \in {stolen, TRUE},
         UNCHANGED crashes \/ LauncherCrash(l)
  PROVE  ControllerInv' /\ (stolen => stolen')
<1>1. crashes' \in 0..MaxCrashes
  BY CrashAssumption DEF ControllerInv, ControllerTypeOK, LauncherCrash
<1> QED
  BY <1>1 DEF ControllerInv, ControllerTypeOK, LockIsHolders, UsersHold, Holds

LEMMA HostStarts == HostInit => HostInv
<1> SUFFICES ASSUME HostInit PROVE HostInv
  OBVIOUS
<1>1. ControllerInv
  <2>1. ControllerTypeOK
    <3>1. crashes \in 0..MaxCrashes
      BY CrashAssumption DEF HostInit, ControllerInit
    <3> QED BY <3>1 DEF HostInit, ControllerInit, ControllerTypeOK, Databases
  <2>2. LockIsHolders
    BY DEF HostInit, ControllerInit, LockIsHolders, Holds, Running
  <2>3. UsersHold
    BY DEF HostInit, ControllerInit, UsersHold
  <2> QED BY <2>1, <2>2, <2>3 DEF ControllerInv
<1>2. LauncherInv
  BY DEF HostInit, LauncherInit, LauncherInv, LauncherTypeOK, LifecycleIsHolders,
     ChildIsKnown, Inside
<1>3. RestoreInv
  BY DEF HostInit, ControllerInit, RestoreInit, RestoreInv, RestoreTypeOK, PriorAt
<1> QED BY <1>1, <1>2, <1>3 DEF HostInv

LEMMA HostStep == HostInv /\ [HostNext]_hostVars => HostInv' /\ (stolen => stolen')
<1> SUFFICES ASSUME HostInv, [HostNext]_hostVars
             PROVE  HostInv' /\ (stolen => stolen')
  OBVIOUS
<1> USE DEF HostInv
<1>1. ASSUME NEW p \in Controllers, Moves(p), UNCHANGED <<launcherVars, restoreVars>>
      PROVE  HostInv' /\ (stolen => stolen')
  BY <1>1, ControllerMoves, MovesKeepPrior, RestoreWatches, LaunchersWatch
<1>2. ASSUME NEW l \in Launchers, Acts(l), UNCHANGED restoreVars
      PROVE  HostInv' /\ (stolen => stolen')
  <2>1. LauncherInv'
    BY <1>2, LauncherActs DEF ControllerInv
  <2>2. ControllerInv' /\ (stolen => stolen') /\ (live' = live \/ (live = None /\ live' = "fresh"))
    <3>1. CASE \E p \in Controllers : Moves(p)
      BY <3>1, ControllerMoves, MovesKeepPrior
    <3>2. CASE /\ UNCHANGED <<lock, pc, seen, live, conn>>
               /\ stolen' \in {stolen, TRUE}
               /\ UNCHANGED crashes \/ LauncherCrash(l)
      BY <3>2, ControllersWatch
    <3> QED BY <1>2, <3>1, <3>2, ActsMove DEF ControllerInv, ControllerTypeOK, LauncherInv
  <2>3. RestoreInv'
    BY <1>2, <2>2, RestoreWatches
  <2> QED BY <2>1, <2>2, <2>3
<1>3. ASSUME RestoreStep \/ BeginRestore \/ RestoreCrash, UNCHANGED launcherVars
      PROVE  HostInv' /\ (stolen => stolen')
  BY <1>3, RestoreMoves, LaunchersWatch
<1>4. CASE UNCHANGED hostVars
  <2>1. ControllerInv' /\ LauncherInv' /\ RestoreInv'
    BY <1>4 DEF hostVars, controllerVars, launcherVars, restoreVars, ControllerInv,
       ControllerTypeOK, LockIsHolders, UsersHold, Holds, LauncherInv, LauncherTypeOK,
       LifecycleIsHolders, ChildIsKnown, RestoreInv, RestoreTypeOK, PriorAt
  <2> QED BY <1>4, <2>1 DEF hostVars, controllerVars
<1> QED
  BY <1>1, <1>2, <1>3, <1>4 DEF HostNext, ControllerRuns, LauncherRuns, RestoreRuns, Happens,
     Moves, Acts

LEMMA HostInvariant == HostSpec => []HostInv
BY HostStarts, HostStep, PTL DEF HostSpec

-----------------------------------------------------------------------------
(* What follows *)

\* Every variable keeps its type.
THEOREM HostTypeCorrect == HostSpec => []HostTypeOK
<1>1. HostInv => HostTypeOK
  BY DEF HostInv, ControllerInv, LauncherInv, RestoreInv, HostTypeOK
<1> QED
  BY <1>1, HostInvariant, PTL

\* acquireOwnedLock lets one command in, as long as no lock file was removed
\* from under its live holder.
THEOREM LifecycleExclusion == HostSpec => []LifecycleIsExclusive
<1>1. HostInv => LifecycleIsExclusive
  <2> SUFFICES ASSUME HostInv, ~stolen, NEW k \in Insiders, NEW l \in Insiders
               PROVE  k = l
    BY DEF LifecycleIsExclusive
  <2>1. lifecycle = [by |-> k, whole |-> TRUE] /\ lifecycle = [by |-> l, whole |-> TRUE]
    BY DEF HostInv, LauncherInv, LifecycleIsHolders, Insiders
  <2> QED BY <2>1
<1> QED
  BY <1>1, HostInvariant, PTL

\* Wherever the restore or a controller is killed, the prior database keeps
\* one of its two names.
THEOREM PriorSurvival == HostSpec => []PriorSurvives
<1>1. HostInv => PriorSurvives
  BY DEF HostInv, RestoreInv, RestoreTypeOK, PriorAt, PriorSurvives
<1> QED
  BY <1>1, HostInvariant, PTL

\* assertControllerStopped lets the restore go on only when no controller
\* has the database open.
THEOREM CheckSound == HostSpec => CheckMeansStopped
<1>1. HostInv /\ [HostNext]_hostVars =>
        [rpc = "check" /\ rpc' \in {"clear", "exclusive"} /\ ~stolen => Users = {}]_hostVars
  <2> SUFFICES ASSUME HostInv, [HostNext]_hostVars, NEW q \in Users,
                      rpc = "check", rpc' \in {"clear", "exclusive"}, ~stolen
               PROVE  FALSE
    OBVIOUS
  <2>1. CheckStopped
    BY DEF HostNext, ControllerRuns, LauncherRuns, RestoreRuns, Happens, hostVars, restoreVars,
       RestoreStep, ClearStaleLock, ProbeExclusive, CopyBackup, VerifyCopy, PutAside, PutCompanionAside,
       Install, BeginRestore, RestoreCrash, Restores
  <2>2. lock = None \/ ~LiveController(lock.by)
    BY <2>1 DEF CheckStopped, Restores
  <2>3. q \in Controllers /\ Holds(q)
    BY DEF Users, HostInv, ControllerInv, UsersHold
  <2> QED BY <2>2, <2>3, HolderHasFile DEF HostInv
<1> QED
  BY <1>1, HostInvariant, PTL DEF HostSpec, CheckMeansStopped

-----------------------------------------------------------------------------
(* The refinement *)

\* What a controller's step does to the ownership of the directory.
LEMMA MovesOwn ==
  ASSUME ControllerInv, NEW p \in Controllers, Moves(p)
  PROVE  [Ownership!Next]_Ownership!vars
<1> USE DEF ControllerInv, ControllerTypeOK, Holders, Holds, Running, Acquiring, Alive, At
<1>1. stolen' \in {stolen, TRUE}
  BY ControllerMoves
<1>2. CASE Write(p)
  <2>1. /\ p \notin Holders /\ Holders' = Holders \cup {p} /\ UNCHANGED stolen
    BY <1>2 DEF Write
  <2>2. Holders = {} \/ stolen
    <3> SUFFICES ASSUME ~stolen, NEW q \in Holders PROVE FALSE
      OBVIOUS
    <3>1. q \in Controllers /\ Holds(q) /\ q # p
      BY <2>1
    <3>2. lock.by = q /\ lock.by = p
      BY <3>1, <1>2, HolderHasFile DEF Write
    <3> QED BY <3>1, <3>2
  <2>3. Ownership!Acquire(p)
    BY <2>1, <2>2 DEF Ownership!Acquire
  <2> QED BY <2>3 DEF Ownership!Next
<1>3. CASE p \in Holders /\ Holders' = Holders \ {p}
  <2>1. Ownership!Release(p)
    BY <1>1, <1>3 DEF Ownership!Release
  <2> QED BY <2>1 DEF Ownership!Next
<1>4. CASE Holders' = Holders
  BY <1>1, <1>4 DEF Ownership!Next, Ownership!Void, Ownership!vars
<1>5. Write(p) \/ Holders' = Holders \/ (p \in Holders /\ Holders' = Holders \ {p})
  <2>1. CASE \E x : /\ pc' = [pc EXCEPT ![p] = x]
                    /\ x \in Running <=> pc[p] \in Running
    BY <2>1
  <2>2. CASE Dies(p)
    BY <2>2 DEF Dies
  <2>3. CASE UNCHANGED pc
    BY <2>3
  <2> QED
    BY <2>1, <2>2, <2>3 DEF Moves, ControllerStep, StartController, Create, Inspect, Probe, TakeOver,
       OpenDatabase, OpenFails, Initialized, Listen, Close, Release, Unlink, Signalled, Crash
<1> QED
  BY <1>2, <1>3, <1>4, <1>5

LEMMA OthersOwn ==
  ASSUME UNCHANGED pc, stolen' \in {stolen, TRUE}
  PROVE  [Ownership!Next]_Ownership!vars
BY DEF Ownership!Next, Ownership!Void, Ownership!vars, Holders, Holds

\* The lock on the data directory implements its ownership: a controller
\* comes to hold it only when no controller does, for any number of
\* controllers, launchers, crashes and restores.
THEOREM OwnershipRefined == HostSpec => ImplementsOwnership
<1>1. HostInit => Ownership!Init
  BY DEF HostInit, ControllerInit, Ownership!Init, Holders, Holds, Running
<1>2. HostInv /\ [HostNext]_hostVars => [Ownership!Next]_Ownership!vars
  <2> SUFFICES ASSUME HostInv, [HostNext]_hostVars
               PROVE  [Ownership!Next]_Ownership!vars
    OBVIOUS
  <2>0. stolen' \in {stolen, TRUE}
    BY HostStep DEF HostInv, ControllerInv, ControllerTypeOK
  <2>1. CASE \E p \in Controllers : Moves(p)
    BY <2>1, MovesOwn DEF HostInv
  <2>2. CASE UNCHANGED pc
    BY <2>0, <2>2, OthersOwn
  <2>3. ASSUME NEW l \in Launchers, Acts(l)
        PROVE  UNCHANGED pc \/ \E p \in Controllers : Moves(p)
    BY <2>3, ActsMove DEF HostInv, LauncherInv, ControllerInv, ControllerTypeOK
  <2>4. ASSUME RestoreStep \/ BeginRestore \/ RestoreCrash
        PROVE  UNCHANGED pc
    BY <2>4 DEF RestoreStep, CheckStopped, ClearStaleLock, ProbeExclusive, CopyBackup, VerifyCopy,
       PutAside, PutCompanionAside, Install, BeginRestore, RestoreCrash, controllerVars
  <2> QED
    BY <2>1, <2>2, <2>3, <2>4 DEF HostNext, ControllerRuns, LauncherRuns, RestoreRuns, Happens,
       Moves, Acts, hostVars, controllerVars
<1> QED
  BY <1>1, <1>2, HostInvariant, PTL DEF HostSpec, ImplementsOwnership, Ownership!Spec

-----------------------------------------------------------------------------
(* The record of the running controller *)

\* On its way to serving, or there.
Up == Alive \ {"close", "release", "unlink"}

\* What runtime.json says at each step of the one command inside.
Recorded ==
  /\ \A p \in Controllers :
       pc[p] \in Up => runtime = p \/ \E l \in Launchers : lpc[l] = "record" /\ child[l] = p
  /\ \A l \in Launchers :
       /\ lpc[l] \in {"spawn", "record"} => runtime = None
       /\ lpc[l] \in {"await", "kill", "awaitExit"} => runtime = child[l]
       /\ lpc[l] = "forget" => runtime = None \/ pc[runtime] \notin Up

RecordInv == ~stolen /\ crashes = 0 => Recorded

LEMMA MovesLeave ==
  ASSUME ControllerTypeOK, NEW p \in Controllers, ControllerStep(p) \/ Signalled(p)
  PROVE  \A q \in Controllers : pc'[q] \in Up => pc[q] \in Up
BY DEF ControllerTypeOK, ControllerStep, Create, Inspect, Probe, TakeOver, Write,
   OpenDatabase, OpenFails, Initialized, Listen, Close, Release, Unlink, Signalled, At, Dies,
   Up, Alive, Acquiring, Running, Unhandled, LiveController

LEMMA MovesKeepRecord ==
  ASSUME Recorded, LauncherTypeOK, UNCHANGED launcherVars,
         \A q \in Controllers : pc'[q] \in Up => pc[q] \in Up
  PROVE  Recorded'
<1>1. \A q \in Controllers :
        pc'[q] \in Up => runtime' = q \/ \E l \in Launchers : lpc'[l] = "record" /\ child'[l] = q
  BY DEF Recorded, launcherVars
<1>2. ASSUME NEW l \in Launchers
      PROVE  /\ lpc'[l] \in {"spawn", "record"} => runtime' = None
             /\ lpc'[l] \in {"await", "kill", "awaitExit"} => runtime' = child'[l]
             /\ lpc'[l] = "forget" => runtime' = None \/ pc'[runtime'] \notin Up
  BY DEF Recorded, launcherVars, LauncherTypeOK
<1> QED BY <1>1, <1>2 DEF Recorded

LEMMA ActsKeepRecord ==
  ASSUME HostInv, Recorded, NEW l \in Launchers, LauncherStep(l) \/ Invoke(l), ~stolen
  PROVE  Recorded'
<1> DEFINE Busy == {"spawn", "record", "await", "kill", "awaitExit", "forget"}
<1> USE DEF LauncherTypeOK
<1>0. LauncherTypeOK /\ ControllerTypeOK /\ ChildIsKnown
  BY DEF HostInv, ControllerInv, LauncherInv
<1>1. lpc[l] \in Inside => \A k \in Launchers : k # l => lpc[k] \notin Busy
  <2> SUFFICES ASSUME lpc[l] \in Inside, NEW k \in Launchers, lpc[k] \in Busy
               PROVE  k = l
    OBVIOUS
  <2>1. lifecycle = [by |-> k, whole |-> TRUE] /\ lifecycle = [by |-> l, whole |-> TRUE]
    BY DEF HostInv, LauncherInv, LifecycleIsHolders, Inside
  <2> QED BY <2>1
<1>2. ASSUME UNCHANGED runtime, \A q \in Controllers : pc'[q] \in Up => pc[q] \in Up,
             \A k \in Launchers : (lpc'[k] = lpc[k] /\ child'[k] = child[k]) \/ (k = l /\ lpc[l] # "record" /\ lpc'[l] \notin Busy)
      PROVE  Recorded'
  <2>1. ASSUME NEW q \in Controllers, pc'[q] \in Up
        PROVE  runtime' = q \/ \E k \in Launchers : lpc'[k] = "record" /\ child'[k] = q
    BY <1>2, <2>1 DEF Recorded
  <2>2. ASSUME NEW k \in Launchers
        PROVE  /\ lpc'[k] \in {"spawn", "record"} => runtime' = None
               /\ lpc'[k] \in {"await", "kill", "awaitExit"} => runtime' = child'[k]
               /\ lpc'[k] = "forget" => runtime' = None \/ pc'[runtime'] \notin Up
    BY <1>2, <1>0 DEF Recorded
  <2> QED BY <2>1, <2>2 DEF Recorded
<1>3. CASE \/ Invoke(l) \/ TryLock(l) \/ GiveUp(l) \/ TestHolder(l)
           \/ ClearLock(l) \/ WriteLock(l) \/ Unlock(l)
  BY <1>3, <1>2, <1>0 DEF Invoke, TryLock, GiveUp, TestHolder, ClearLock, WriteLock, Unlock,
     Goes, Ends, controllerVars
<1>4. ASSUME lpc[l] \in Inside, lpc'[l] # "record", lpc[l] # "record",
             \A k \in Launchers : k # l => lpc'[k] = lpc[k],
             \A q \in Controllers : pc'[q] \in Up => pc[q] \in Up,
             runtime' \in Controllers => runtime' = runtime,
             runtime \in Controllers => runtime' = runtime \/ pc[runtime] \notin Up,
             lpc'[l] = "spawn" => runtime' = None,
             lpc'[l] \in {"await", "kill", "awaitExit"} => runtime' = child'[l],
             lpc'[l] = "forget" => runtime' = None \/ pc'[runtime'] \notin Up
      PROVE  Recorded'
  <2>1. ASSUME NEW q \in Controllers, pc'[q] \in Up
        PROVE  runtime' = q
    <3>1. pc[q] \in Up /\ \A k \in Launchers : lpc[k] # "record"
      BY <1>4, <2>1, <1>1
    <3> QED BY <1>4, <3>1 DEF Recorded
  <2>2. ASSUME NEW k \in Launchers
        PROVE  /\ lpc'[k] \in {"spawn", "record"} => runtime' = None
               /\ lpc'[k] \in {"await", "kill", "awaitExit"} => runtime' = child'[k]
               /\ lpc'[k] = "forget" => runtime' = None \/ pc'[runtime'] \notin Up
    <3>1. CASE k = l
      BY <1>4, <3>1
    <3>2. CASE k # l
      BY <1>4, <3>2, <1>1
    <3> QED BY <3>1, <3>2
  <2> QED BY <2>1, <2>2 DEF Recorded
<1>5. CASE StatusOfUp(l)
  <2>1. lpc[l] = "status" /\ UNCHANGED pc
    BY <1>5 DEF StatusOfUp, controllerVars
  <2>2. CASE lpc' = [lpc EXCEPT ![l] = "unlock"] /\ UNCHANGED runtime
    BY <2>1, <2>2, <1>4, <1>0 DEF Inside
  <2>3. CASE /\ lpc' = [lpc EXCEPT ![l] = "spawn"] /\ runtime' = None
             /\ runtime # None => ~LiveController(runtime)
    <3>1. None \notin Controllers
      BY ControllersAssumption
    <3> QED BY <2>1, <2>3, <3>1, <1>4, <1>0 DEF Inside, LiveController, Up
  <2> QED BY <1>5, <2>2, <2>3 DEF StatusOfUp, Concludes
<1>6. CASE Healthy(l)
  <2>1. /\ lpc[l] = "await" /\ lpc' = [lpc EXCEPT ![l] = "unlock"]
        /\ UNCHANGED <<runtime, pc>>
    BY <1>6 DEF Healthy, Concludes, controllerVars
  <2> QED BY <2>1, <1>4, <1>0 DEF Inside
<1>7. CASE StatusOfStop(l)
  <2>1. lpc[l] = "status" /\ UNCHANGED <<runtime, pc>>
    BY <1>7 DEF StatusOfStop, controllerVars
  <2>2. CASE lpc' = [lpc EXCEPT ![l] = "kill"] /\ child' = [child EXCEPT ![l] = runtime]
    BY <2>1, <2>2, <1>4, <1>0 DEF Inside
  <2>3. CASE lpc' = [lpc EXCEPT ![l] = "unlock"]
    BY <2>1, <2>3, <1>4, <1>0 DEF Inside
  <2>4. CASE lpc' = [lpc EXCEPT ![l] = "forget"] /\ ~LiveController(runtime)
    BY <2>1, <2>4, <1>4, <1>0 DEF Inside, LiveController, Up
  <2> QED BY <1>7, <2>2, <2>3, <2>4 DEF StatusOfStop, Concludes
<1>8. CASE AwaitExit(l)
  <2>1. lpc[l] = "awaitExit" /\ UNCHANGED <<runtime, pc, child>> /\ runtime = child[l]
    BY <1>8 DEF AwaitExit, controllerVars, Recorded
  <2>2. CASE lpc' = [lpc EXCEPT ![l] = "forget"] /\ ~LiveController(child[l])
    BY <2>1, <2>2, <1>4, <1>0 DEF Inside, LiveController, Up
  <2>3. CASE lpc' = [lpc EXCEPT ![l] = "unlock"]
    BY <2>1, <2>3, <1>4, <1>0 DEF Inside
  <2> QED BY <1>8, <2>2, <2>3 DEF AwaitExit, Concludes
<1>9. CASE Forget(l)
  <2>1. /\ lpc[l] = "forget" /\ lpc' = [lpc EXCEPT ![l] = "unlock"]
        /\ runtime' = None /\ UNCHANGED pc
    BY <1>9 DEF Forget, Goes, controllerVars
  <2>2. runtime = None \/ pc[runtime] \notin Up
    BY <2>1 DEF Recorded
  <2>3. None \notin Controllers
    BY ControllersAssumption
  <2> QED BY <2>1, <2>2, <2>3, <1>4, <1>0 DEF Inside
<1>10. CASE Spawn(l)
  <2>1. CASE Concludes(l, "error") /\ UNCHANGED controllerVars /\ UNCHANGED child
    BY <1>10, <2>1, <1>4, <1>0 DEF Spawn, Concludes, Inside, controllerVars
  <2>2. ASSUME NEW p \in Controllers, StartController(p),
               child' = [child EXCEPT ![l] = p], lpc' = [lpc EXCEPT ![l] = "record"]
        PROVE  Recorded'
    <3>1. /\ lpc'[l] = "record" /\ child'[l] = p /\ runtime = None /\ runtime' = None
          /\ lpc[l] = "spawn"
          /\ \A k \in Launchers : k # l => lpc'[k] = lpc[k] /\ lpc[k] \notin Busy
      BY <2>2, <1>10, <1>0, <1>1 DEF Spawn, Recorded, Inside
    <3>2. ASSUME NEW q \in Controllers, pc'[q] \in Up, q # p
          PROVE  FALSE
      <4>1. pc[q] \in Up
        BY <2>2, <3>2, <1>0 DEF StartController, At, ControllerTypeOK
      <4>2. runtime # q /\ \A k \in Launchers : lpc[k] # "record"
        BY <3>1, ControllersAssumption
      <4> QED BY <4>1, <4>2 DEF Recorded
    <3>3. ASSUME NEW k \in Launchers
          PROVE  /\ lpc'[k] \in {"spawn", "record"} => runtime' = None
                 /\ lpc'[k] \notin {"await", "kill", "awaitExit", "forget"}
      BY <3>1
    <3> QED BY <3>1, <3>2, <3>3 DEF Recorded
  <2> QED BY <1>10, <2>1, <2>2 DEF Spawn
<1>11. CASE RecordChild(l)
  <2>1. /\ lpc[l] = "record" /\ lpc'[l] = "await" /\ runtime = None
        /\ runtime' = child[l] /\ child' = child /\ pc' = pc
        /\ \A k \in Launchers : k # l => lpc'[k] = lpc[k] /\ lpc[k] \notin Busy
    BY <1>11, <1>0, <1>1 DEF RecordChild, Goes, Recorded, Inside, controllerVars
  <2>2. ASSUME NEW q \in Controllers, pc'[q] \in Up
        PROVE  runtime' = q
    <3>1. PICK k \in Launchers : lpc[k] = "record" /\ child[k] = q
      BY <2>1, <2>2, ControllersAssumption DEF Recorded
    <3>2. k = l
      BY <2>1, <3>1
    <3> QED BY <2>1, <3>1, <3>2
  <2>3. ASSUME NEW k \in Launchers
        PROVE  /\ lpc'[k] \in {"await", "kill", "awaitExit"} => runtime' = child'[k]
               /\ lpc'[k] \notin {"spawn", "record", "forget"}
    <3>1. CASE k = l
      BY <2>1, <3>1
    <3>2. CASE k # l
      BY <2>1, <3>2
    <3> QED BY <3>1, <3>2
  <2> QED BY <2>2, <2>3 DEF Recorded
<1>12. ASSUME lpc[l] \in {"await", "kill"}
       PROVE  runtime = child[l] /\ child[l] \in Controllers
  BY <1>12, <1>0 DEF Recorded, ChildIsKnown
<1>13. ASSUME lpc[l] \in {"await", "kill"}, Signalled(child[l])
       PROVE  /\ \A q \in Controllers : pc'[q] \in Up => pc[q] \in Up
              /\ pc'[runtime] \notin Up
  <2>1. \A q \in Controllers : pc'[q] \in Up => pc[q] \in Up
    BY <1>13, <1>12, <1>0, MovesLeave
  <2>2. pc'[child[l]] \notin Up
    BY <1>13, <1>12, <1>0 DEF Signalled, Dies, ControllerTypeOK, LiveController, Unhandled,
       Up, Alive, Acquiring, Running
  <2> QED BY <2>1, <2>2, <1>12, <1>13
<1>14. CASE Unhealthy(l)
  <2>1. lpc[l] = "await" /\ lpc' = [lpc EXCEPT ![l] = "forget"] /\ UNCHANGED <<runtime, child>>
    BY <1>14 DEF Unhealthy, Goes
  <2>2. (\A q \in Controllers : pc'[q] \in Up => pc[q] \in Up) /\ pc'[runtime] \notin Up
    <3>1. CASE LiveController(child[l])
      BY <1>14, <2>1, <3>1, <1>13 DEF Unhealthy
    <3>2. CASE ~LiveController(child[l])
      BY <1>14, <2>1, <3>2, <1>12 DEF Unhealthy, controllerVars, LiveController, Up
    <3> QED BY <3>1, <3>2
  <2> QED BY <2>1, <2>2, <1>4, <1>0 DEF Inside
<1>15. CASE KillController(l)
  <2>1. lpc[l] = "kill" /\ UNCHANGED <<runtime, child>>
    BY <1>15 DEF KillController
  <2>2. CASE Signalled(child[l]) /\ lpc' = [lpc EXCEPT ![l] = "awaitExit"]
    BY <2>1, <2>2, <1>12, <1>13, <1>4, <1>0 DEF Inside
  <2>3. CASE Concludes(l, "error") /\ UNCHANGED controllerVars
    BY <2>1, <2>3, <1>4, <1>0 DEF Inside, Concludes, controllerVars
  <2> QED BY <1>15, <2>2, <2>3 DEF KillController
<1> QED
  BY <1>3, <1>5, <1>6, <1>7, <1>8, <1>9, <1>10, <1>11, <1>14, <1>15 DEF LauncherStep

LEMMA RecordKept ==
  HostInv /\ RecordInv /\ [HostNext]_hostVars => RecordInv'
<1> SUFFICES ASSUME HostInv, RecordInv, [HostNext]_hostVars, ~stolen', crashes' = 0
             PROVE  Recorded'
  BY DEF RecordInv
<1>0. LauncherTypeOK /\ ControllerTypeOK
  BY DEF HostInv, ControllerInv, LauncherInv
<1>1. ~stolen
  BY HostStep
<1>2. crashes' # crashes + 1
  BY <1>0 DEF ControllerTypeOK
<1>3. ASSUME NEW p \in Controllers, ControllerStep(p), UNCHANGED launcherVars
      PROVE  crashes = 0 /\ Recorded'
  <2>1. crashes = 0
    BY <1>3 DEF ControllerStep, Create, Inspect, Probe, TakeOver, Write,
       OpenDatabase, OpenFails, Initialized, Listen, Close, Release, Unlink
  <2> QED BY <1>0, <1>1, <1>3, <2>1, MovesLeave, MovesKeepRecord DEF RecordInv
<1>4. ASSUME NEW l \in Launchers, LauncherStep(l) \/ Invoke(l)
      PROVE  Recorded'
  <2>1. crashes = 0
    BY <1>4 DEF LauncherStep, Invoke, TryLock, GiveUp, TestHolder, ClearLock, WriteLock,
       StatusOfUp, Spawn, RecordChild, Healthy, Unhealthy, StatusOfStop, KillController,
       AwaitExit, Forget, Unlock, controllerVars, StartController
  <2> QED BY <1>1, <1>4, <2>1, ActsKeepRecord DEF RecordInv
<1>5. ASSUME UNCHANGED <<pc, crashes>>, UNCHANGED launcherVars
      PROVE  Recorded'
  BY <1>0, <1>1, <1>5, MovesKeepRecord DEF RecordInv
<1>6. ASSUME RestoreStep \/ BeginRestore
      PROVE  UNCHANGED <<pc, crashes>>
  BY <1>6 DEF RestoreStep, CheckStopped, ClearStaleLock, ProbeExclusive, CopyBackup, VerifyCopy,
     PutAside, PutCompanionAside, Install, BeginRestore, controllerVars
<1>7. ~RestoreCrash /\ (\A p \in Controllers : ~Crash(p)) /\ (\A l \in Launchers : ~LauncherCrash(l))
  BY <1>2 DEF RestoreCrash, Crash, LauncherCrash
<1> QED
  BY <1>3, <1>4, <1>5, <1>6, <1>7 DEF HostNext, ControllerRuns, LauncherRuns, RestoreRuns, Happens,
     hostVars, controllerVars

\* runtime.json names the controller that serves the port, or its launcher
\* is about to write it there: unless a lock file was removed from under a
\* live holder or a process was killed, `accomplish stop` finds what runs.
THEOREM RecordKeeping == HostSpec => []ServingIsRecorded
<1>1. HostInit => RecordInv
  BY DEF HostInit, ControllerInit, LauncherInit, RecordInv, Recorded, Up, Alive, Acquiring, Running
<1>2. RecordInv => ServingIsRecorded
  BY DEF RecordInv, Recorded, ServingIsRecorded, Serving, Up, Alive, Running
<1> QED
  BY <1>1, <1>2, HostInvariant, RecordKept, PTL DEF HostSpec
=============================================================================
