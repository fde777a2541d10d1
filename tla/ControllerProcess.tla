------------------------- MODULE ControllerProcess -------------------------
(***************************************************************************)
(* The controller process from its start to its end: the lock on the data  *)
(* directory (process-lock.ts), the opening of the                         *)
(* database (database.ts, control-center.ts) and the order                 *)
(* in which index.ts takes and gives these up.                             *)
(*                                                                         *)
(* Every process id is used once.  That the system may give the id of a    *)
(* dead process to an unrelated one shows in Probe, which may take a dead  *)
(* holder for a live one.  Each system call on the lock file is a step:    *)
(* the loop of acquireControllerLock is synchronous within its process     *)
(* only.                                                                   *)
(***************************************************************************)
EXTENDS Naturals, FiniteSets

CONSTANTS
  Controllers,  \* controller processes that may ever run
  None,         \* no process, no file
  MaxCrashes    \* how many processes the model kills unasked

\* A lock file is created empty and written afterwards.
Files(S) == [by : S, whole : BOOLEAN]

\* The prior contents, those of the backup, and a database made from nothing.
Databases == {"prior", "backup", "fresh"}

ASSUME ControllersAssumption == None \notin Controllers \cup Files(Controllers) \cup Databases
ASSUME CrashAssumption == MaxCrashes \in Nat

VARIABLES
  lock,     \* controller.lock: None, or who created it and is it written
  pc,       \* where each controller is in index.ts
  seen,     \* the record each controller has read from the lock file
  stolen,   \* some lock file was removed from under its live holder
  live,     \* the database under its live name, or None
  conn,     \* the database each controller has open, or None
  crashes   \* processes killed unasked so far

controllerVars == <<lock, pc, seen, stolen, live, conn, crashes>>

Acquiring  == {"create", "inspect", "probe", "takeOver", "write"}
Running    == {"open", "initialize", "listen", "serve", "close", "release", "unlink"}
Alive      == Acquiring \cup Running
\* Before index.ts installs its handlers a signal ends the process at once.
Unhandled  == Acquiring \cup {"open", "initialize"}

ControllerTypeOK ==
  /\ lock \in Files(Controllers) \cup {None}
  /\ pc \in [Controllers -> {"absent", "dead"} \cup Alive]
  /\ seen \in [Controllers -> Controllers \cup {None}]
  /\ stolen \in BOOLEAN
  /\ live \in Databases \cup {None}
  /\ conn \in [Controllers -> Databases \cup {None}]
  /\ crashes \in 0..MaxCrashes

LiveController(p) == pc[p] \in Alive

\* acquireControllerLock has returned and release() has not.
Holds(p) == pc[p] \in Running

\* No other controller has the database open.
Users == {p \in Controllers : conn[p] # None}

\* The one that has the port.
Serving == {p \in Controllers : pc[p] = "serve"}

ControllerInit ==
  /\ lock = None
  /\ pc = [p \in Controllers |-> "absent"]
  /\ seen = [p \in Controllers |-> None]
  /\ stolen = FALSE
  /\ live = "prior"
  /\ conn = [p \in Controllers |-> None]
  /\ crashes = 0

-----------------------------------------------------------------------------
At(p, from, to) == pc[p] = from /\ pc' = [pc EXCEPT ![p] = to]

\* The end of a process: whatever files it had made stay where they are.
Dies(p) ==
  /\ pc' = [pc EXCEPT ![p] = "dead"]
  /\ seen' = [seen EXCEPT ![p] = None]
  /\ conn' = [conn EXCEPT ![p] = None]

\* Removing a lock file, whoever holds it by now.
LockRemoved ==
  /\ lock' = None
  /\ stolen' = (stolen \/ (lock # None /\ LiveController(lock.by)))

\* `npm start`, or the launcher's spawn.
StartController(p) ==
  /\ At(p, "absent", "create")
  /\ UNCHANGED <<lock, seen, stolen, live, conn, crashes>>

\* Mutant of Create: the file is opened with "w".
CreateAnyway(p) ==
  /\ At(p, "create", "write")
  /\ lock' = [by |-> p, whole |-> FALSE]
  /\ UNCHANGED <<seen, stolen, live, conn, crashes>>

\* openSync(path, "wx"): creates the file or fails because there is one.
Create(p) ==
  /\ \/ lock = None /\ At(p, "create", "write") /\ lock' = [by |-> p, whole |-> FALSE]
     \/ lock # None /\ At(p, "create", "inspect") /\ UNCHANGED lock
  /\ UNCHANGED <<seen, stolen, live, conn, crashes>>

\* readLock: a file that is gone by now counts as stale, like a malformed
\* one; the JSON parser throws on an empty one, and the start fails.
Inspect(p) ==
  /\ pc[p] = "inspect"
  /\ \/ /\ lock = None
        /\ pc' = [pc EXCEPT ![p] = "takeOver"]
        /\ UNCHANGED <<seen, conn>>
     \/ /\ lock # None /\ lock.whole
        /\ pc' = [pc EXCEPT ![p] = "probe"]
        /\ seen' = [seen EXCEPT ![p] = lock.by]
        /\ UNCHANGED conn
     \/ lock # None /\ ~lock.whole /\ Dies(p)
  /\ UNCHANGED <<lock, stolen, live, crashes>>

\* processIsLive(existing.pid): the start fails when the recorded id is that
\* of a live process, which need not be the one that wrote it.
Probe(p) ==
  /\ pc[p] = "probe"
  /\ \/ /\ ~LiveController(seen[p])
        /\ pc' = [pc EXCEPT ![p] = "takeOver"]
        /\ seen' = [seen EXCEPT ![p] = None]
        /\ UNCHANGED conn
     \/ Dies(p)
  /\ UNCHANGED <<lock, stolen, live, crashes>>

\* The file is renamed away and unlinked: the file that is there now, not
\* the one that was inspected.  A missing one is no error.
TakeOver(p) ==
  /\ At(p, "takeOver", "create")
  /\ LockRemoved
  /\ UNCHANGED <<seen, live, conn, crashes>>

\* The record goes to the file p created, under its name or not.
Write(p) ==
  /\ At(p, "write", "open")
  /\ lock' = IF lock = [by |-> p, whole |-> FALSE] THEN [by |-> p, whole |-> TRUE] ELSE lock
  /\ UNCHANGED <<seen, stolen, live, conn, crashes>>

\* new ControlCenter: openDatabase creates what is missing, and what an
\* earlier process left behind is reconciled.
OpenDatabase(p) ==
  LET opened == IF live = None THEN "fresh" ELSE live
  IN /\ At(p, "open", "initialize")
     /\ live' = opened
     /\ conn' = [conn EXCEPT ![p] = opened]
     /\ UNCHANGED <<lock, seen, stolen, crashes>>

\* A database that cannot be opened ends the process, and the lock stays.
OpenFails(p) ==
  /\ pc[p] = "open"
  /\ Dies(p)
  /\ UNCHANGED <<lock, stolen, live, crashes>>

\* initialize() has asked OMP for its version, the signal handlers are in.
Initialized(p) ==
  /\ At(p, "initialize", "listen")
  /\ UNCHANGED <<lock, seen, stolen, live, conn, crashes>>

\* server.listen: another listener on the port, ours or not, makes it fail.
Listen(p) ==
  /\ \/ Serving = {} /\ At(p, "listen", "serve")
     \/ At(p, "listen", "close")
  /\ UNCHANGED <<lock, seen, stolen, live, conn, crashes>>

\* ControlCenter.shutdown: sessions stopped, database closed.
Close(p) ==
  /\ At(p, "close", "release")
  /\ conn' = [conn EXCEPT ![p] = None]
  /\ UNCHANGED <<lock, seen, stolen, live, crashes>>

\* release(): the record is read again, and only the own one is removed.
Release(p) ==
  /\ pc[p] = "release"
  /\ \/ /\ lock = [by |-> p, whole |-> TRUE]
        /\ pc' = [pc EXCEPT ![p] = "unlink"]
        /\ UNCHANGED <<seen, conn>>
     \/ lock # [by |-> p, whole |-> TRUE] /\ Dies(p)
  /\ UNCHANGED <<lock, stolen, live, crashes>>

\* unlinkSync(path): the file that is there now.
Unlink(p) ==
  /\ pc[p] = "unlink"
  /\ Dies(p)
  /\ lock' = None
  /\ stolen' = (stolen \/ (lock # None /\ lock.by # p /\ LiveController(lock.by)))
  /\ UNCHANGED <<live, crashes>>

\* What SIGTERM or SIGINT does: an orderly end once the handlers are in,
\* nothing to one that is already on its way out.
Signalled(p) ==
  /\ LiveController(p)
  /\ \/ pc[p] \in Unhandled /\ Dies(p)
     \/ /\ pc[p] \in {"listen", "serve"}
        /\ pc' = [pc EXCEPT ![p] = "close"]
        /\ UNCHANGED <<seen, conn>>
     \/ pc[p] \in {"close", "release", "unlink"} /\ UNCHANGED <<pc, seen, conn>>
  /\ UNCHANGED <<lock, stolen, live>>

\* Killed, out of memory, power: at any point.
Crash(p) ==
  /\ LiveController(p)
  /\ crashes < MaxCrashes
  /\ crashes' = crashes + 1
  /\ Dies(p)
  /\ UNCHANGED <<lock, stolen, live>>

\* The steps a scheduled process takes by itself.
ControllerStep(p) ==
  \/ Create(p) \/ Inspect(p) \/ Probe(p) \/ TakeOver(p) \/ Write(p)
  \/ OpenDatabase(p) \/ OpenFails(p) \/ Initialized(p) \/ Listen(p)
  \/ Close(p) \/ Release(p) \/ Unlink(p)
=============================================================================
