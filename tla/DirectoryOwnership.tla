------------------------- MODULE DirectoryOwnership -------------------------
(***************************************************************************)
(* What the lock on a data directory promises, whatever files and system   *)
(* calls it is made of: a process becomes an owner only when there is no   *)
(* owner.  The promise is void once a lock has been removed from under a   *)
(* live holder, which the file protocol cannot exclude.                    *)
(***************************************************************************)
CONSTANT Processes

VARIABLES
  owners,  \* the processes that take the directory for theirs
  void     \* a live holder has lost its lock

vars == <<owners, void>>

Init == owners = {} /\ void = FALSE

Acquire(p) ==
  /\ p \notin owners
  /\ owners = {} \/ void
  /\ owners' = owners \cup {p}
  /\ UNCHANGED void

\* Given up, by release or by the end of the process.
Release(p) ==
  /\ p \in owners
  /\ owners' = owners \ {p}
  /\ void' \in {void, TRUE}

Void == void' = TRUE /\ UNCHANGED owners

Next ==
  \/ \E p \in Processes : Acquire(p) \/ Release(p)
  \/ Void

Spec == Init /\ [][Next]_vars
=============================================================================
