---------------------------- MODULE GoalLifecycle ----------------------------
(***************************************************************************)
(* The states of a goal and the transitions store.ts allows between them   *)
(* (GOAL_TRANSITIONS).  Every module about a goal extends this one.        *)
(***************************************************************************)

GoalStates == {"draft", "queued", "running", "waiting_input",
               "waiting_approval", "verifying", "blocked", "failed",
               "cancelled", "rolled_back", "complete"}

Transitions ==
  [draft            |-> {"queued", "cancelled"},
   queued           |-> {"running", "blocked", "cancelled", "failed",
                         "rolled_back"},
   running          |-> {"waiting_input", "waiting_approval", "verifying",
                         "blocked", "cancelled", "failed", "rolled_back"},
   waiting_input    |-> {"running", "blocked", "cancelled", "failed",
                         "rolled_back"},
   waiting_approval |-> {"running", "verifying", "blocked", "cancelled",
                         "failed", "rolled_back"},
   verifying        |-> {"running", "waiting_approval", "blocked",
                         "cancelled", "failed", "rolled_back", "complete"},
   blocked          |-> {"queued", "running", "cancelled", "failed",
                         "rolled_back"},
   failed           |-> {"queued", "rolled_back"},
   cancelled        |-> {"queued", "rolled_back"},
   rolled_back      |-> {},
   complete         |-> {}]

\* The states in which a goal is being worked on; a crash fails or blocks it.
ActiveStates == {"queued", "running", "waiting_input", "waiting_approval",
                 "verifying"}

\* The owner may authorize another attempt.
Retryable == {"blocked", "failed", "cancelled"}

\* The owner may abandon the attempt.
Abandonable == ActiveStates \cup Retryable
=============================================================================
