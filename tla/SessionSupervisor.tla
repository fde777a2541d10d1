-------------------------- MODULE SessionSupervisor --------------------------
(***************************************************************************)
(* The OMP sessions of one agent working on its goal: startBoundGoal and   *)
(* its awaits (control-center.ts), the live session objects with their     *)
(* serial frame queues (omp-supervisor.ts), the session rows and the       *)
(* restart reconciliation (store.ts).                                      *)
(*                                                                         *)
(* A session is an attempt of the owner to start the goal, successful or   *)
(* not.  What the controller forgets when it dies (live, byAgent, byId,    *)
(* start) is kept apart from what the database keeps (goal, row) and from  *)
(* the operating system's processes.  Frames are those that move the       *)
(* session or the goal: "turn" for any frame of a turn under way           *)
(* (agent_start, turn_start, turn_end), "tool" for host_tool_call, "end"   *)
(* for a terminal agent_end, "bad" for a line the decoder rejects; "exit"  *)
(* in a queue is the exit handler chained behind the frames.               *)
(***************************************************************************)
EXTENDS Integers, Sequences, FiniteSets, GoalLifecycle

CONSTANTS
  MaxAttempts, \* bound: attempts to start the goal
  MaxFrames,   \* bound: frames the processes write, all told
  MaxRestarts  \* bound: restarts of the controller

ASSUME BoundsAssumption ==
  MaxAttempts \in Nat \ {0} /\ MaxFrames \in Nat /\ MaxRestarts \in Nat

\* The attempts in the order in which they are made.
Sessions == 1 .. MaxAttempts

\* sessionsByAgent has no entry for the agent.
None == 0

VARIABLES
  goal,      \* goals.state
  row,       \* sessions.state; "live" stands for the six states before the end
  start,     \* how far startBoundGoal has come
  live,      \* the LiveSession objects
  byAgent,   \* sessionsByAgent.get(agent)
  byId,      \* the keys of sessionsById
  process,   \* the OMP child processes
  turn,      \* the process has a prompt and has not ended its turn
  frames,    \* frames written so far
  restarts

vars == <<goal, row, start, live, byAgent, byId, process, turn, frames, restarts>>
maps == <<byAgent, byId>>
world == <<process, turn, frames, restarts>>

\* "failing": the attempt is over once the cancelled process is gone.
\* "reopening": the prompt has reopened a goal that was being verified.
Asking == {"prompting", "reopening"}
Starting == {"loading", "making", "handshake", "failing"} \cup Asking
LiveStates == {"none", "starting", "ready", "streaming", "stopping", "exited"}
Frames == {"turn", "tool", "end", "bad"}

LiveSession ==
  [state  : LiveStates,
   ending : {"none", "expected", "crashed"}, \* expectedExit, exitDisposition
   queue  : Seq(Frames \cup {"exit"}),
   busy   : BOOLEAN,                         \* the head of the queue is awaited
   gone   : BOOLEAN,                         \* the exit event has been emitted
   waits  : SUBSET {"cancel", "rollback", "init", "protocol"}]

NoSession == [state |-> "none", ending |-> "none", queue |-> <<>>,
              busy |-> FALSE, gone |-> FALSE, waits |-> {}]

SupervisorTypeOK ==
  /\ goal \in GoalStates
  /\ row \in [Sessions -> {"none", "live", "exited", "crashed", "disconnected"}]
  /\ start \in [Sessions -> {"unused", "over"} \cup Starting]
  /\ live \in [Sessions -> LiveSession]
  /\ byAgent \in Sessions \cup {None}
  /\ byId \subseteq Sessions
  /\ process \in [Sessions -> {"none", "running", "clean", "failed"}]
  /\ turn \in [Sessions -> BOOLEAN]
  /\ frames \in Nat
  /\ restarts \in Nat

Init ==
  /\ goal = "draft"
  /\ row = [s \in Sessions |-> "none"]
  /\ start = [s \in Sessions |-> "unused"]
  /\ live = [s \in Sessions |-> NoSession]
  /\ byAgent = None
  /\ byId = {}
  /\ process = [s \in Sessions |-> "none"]
  /\ turn = [s \in Sessions |-> FALSE]
  /\ frames = 0
  /\ restarts = 0

-----------------------------------------------------------------------------
(* Stopping a session and handling its exit *)

\* The session is told to stop; call w awaits the exit of its process.
StopFor(s, w) ==
  live' = [live EXCEPT ![s].state = "stopping",
                       ![s].ending = IF @ = "none" THEN "expected" ELSE @,
                       ![s].waits = @ \cup {w}]

\* terminateLiveSession: the same, and the session counts as crashed.
TerminateFor(s, w) ==
  live' = [live EXCEPT ![s].state = "stopping",
                       ![s].ending = "crashed",
                       ![s].busy = @ \/ w = "protocol",
                       ![s].waits = @ \cup {w}]

\* Seeded fault: the status of the process is stored as it is.
RawExitRow(s) == IF live[s].ending = "crashed" THEN "crashed" ELSE process[s]

ExitRow(s) ==
  IF \/ live[s].ending = "crashed"
     \/ live[s].ending = "none" /\ process[s] = "failed"
    THEN "crashed" ELSE "exited"

\* Seeded fault: a crash leaves the goal alone.
ExitKeepsGoal(s) == goal

\* The goal after handleExit: only a crash moves it.
GoalAfterExit(s) ==
  IF goal \in ActiveStates /\ ExitRow(s) = "crashed" THEN "failed" ELSE goal

\* handleExit removes whatever entry the agent has.
Deregister(s) ==
  /\ byAgent' = None
  /\ byId' = byId \ {s}
  /\ row' = [row EXCEPT ![s] = ExitRow(s)]

FailQueued(state) == IF state = "queued" THEN "failed" ELSE state

\* What the waiting calls do to the goal once handleExit left it as g: cancel
\* settles it, rollback abandons it, a failed initialization fails it.
Outcome(waits, g) ==
  LET settled == {"complete", "cancelled", "failed", "rolled_back"}
      cancelled == IF waits \cap {"cancel", "rollback"} # {} /\ g \notin settled
                     THEN "cancelled" ELSE g
  IN  IF "rollback" \in waits /\ cancelled \in Abandonable THEN "rolled_back"
      ELSE IF "init" \in waits THEN FailQueued(cancelled)
      ELSE cancelled

-----------------------------------------------------------------------------
(* startBoundGoal *)

\* A process that survived a restart of the controller.
Unresolved == \E t \in Sessions : row[t] = "disconnected" /\ process[t] = "running"

\* The next attempt is s.
NextAttempt(s) ==
  start[s] = "unused" /\ \A t \in Sessions : t < s => start[t] # "unused"

\* The owner starts the goal.  A second start finds the session of the first,
\* and its error path fails the goal both are about.
StartBegins(s) ==
  /\ NextAttempt(s)
  /\ goal \in {"draft", "queued"}
  /\ ~Unresolved
  /\ start' = [start EXCEPT ![s] = IF byAgent = None THEN "loading" ELSE "over"]
  /\ goal' = IF byAgent = None THEN "queued" ELSE "failed"
  /\ UNCHANGED <<row, live, maps, world>>

\* The owner authorizes another attempt: the goal is queued before the prior
\* process is looked for.
Retry(s) ==
  /\ NextAttempt(s)
  /\ goal \in Retryable
  /\ byAgent = None
  /\ goal' = "queued"
  /\ start' = IF Unresolved THEN start ELSE [start EXCEPT ![s] = "loading"]
  /\ UNCHANGED <<row, live, maps, world>>

\* The command contract is loaded; the goal must still be startable.
Loaded(s) ==
  /\ start[s] = "loading"
  /\ start' = [start EXCEPT ![s] =
                 IF goal \in {"draft", "queued"} THEN "making" ELSE "over"]
  /\ UNCHANGED <<goal, row, live, maps, world>>

StartFails(s) ==
  /\ start[s] \in {"loading", "making"}
  /\ start' = [start EXCEPT ![s] = "over"]
  /\ goal' = FailQueued(goal)
  /\ UNCHANGED <<row, live, maps, world>>

OtherLive(s) == \E t \in Sessions \ {s} : row[t] = "live"

\* Seeded fault: no unique index on the live sessions of an agent.
MadeUnindexed(s) ==
  /\ start[s] = "making"
  /\ row' = [row EXCEPT ![s] = "live"]
  /\ live' = [live EXCEPT ![s].state = "starting"]
  /\ byAgent' = s
  /\ byId' = byId \cup {s}
  /\ process' = [process EXCEPT ![s] = "running"]
  /\ start' = [start EXCEPT ![s] = "handshake"]
  /\ UNCHANGED <<goal, turn, frames, restarts>>

\* The working directory exists; the row is inserted and OMP is spawned.
Made(s) ==
  /\ start[s] = "making"
  /\ ~OtherLive(s)
  /\ row' = [row EXCEPT ![s] = "live"]
  /\ live' = [live EXCEPT ![s].state = "starting"]
  /\ byAgent' = s
  /\ byId' = byId \cup {s}
  /\ process' = [process EXCEPT ![s] = "running"]
  /\ start' = [start EXCEPT ![s] = "handshake"]
  /\ UNCHANGED <<goal, turn, frames, restarts>>

\* Seeded fault: the rejected start does not settle the goal.
RefusedQuietly(s) ==
  /\ start[s] = "making"
  /\ OtherLive(s)
  /\ start' = [start EXCEPT ![s] = "over"]
  /\ UNCHANGED <<goal, row, live, maps, world>>

\* one_live_session_per_agent rejects the row.
Refused(s) ==
  /\ start[s] = "making"
  /\ OtherLive(s)
  /\ start' = [start EXCEPT ![s] = "over"]
  /\ goal' = FailQueued(goal)
  /\ UNCHANGED <<row, live, maps, world>>

\* OMP is configured, and the goal is dispatched at once, also when another
\* start has come first and the session of that is gone: the prompt is a
\* follow-up then, which reopens a read-only goal that has its outcome.
Dispatched(s) ==
  /\ start[s] = "handshake"
  /\ live[s].state \in {"starting", "stopping"}
  /\ byAgent = s
  /\ \/ goal \in {"queued", "running"} /\ start' = [start EXCEPT ![s] = "prompting"]
     \/ goal = "verifying" /\ start' = [start EXCEPT ![s] = "reopening"]
  /\ goal' = "running"
  /\ live' = [live EXCEPT ![s].state = "ready"]
  /\ turn' = [turn EXCEPT ![s] = TRUE]
  /\ UNCHANGED <<row, maps, process, frames, restarts>>

\* The goal was settled meanwhile, or is bound to the repository and being
\* verified: the session is cancelled.
NotDispatched(s) ==
  /\ start[s] = "handshake"
  /\ live[s].state \in {"starting", "stopping"}
  /\ byAgent # s \/ goal \notin {"queued", "running"}
  /\ StopFor(s, "cancel")
  /\ start' = [start EXCEPT ![s] = "failing"]
  /\ UNCHANGED <<goal, row, maps, world>>

\* A request of the handshake fails or times out.
HandshakeFails(s) ==
  /\ start[s] = "handshake"
  /\ IF live[s].state = "exited"
       THEN /\ row' = [row EXCEPT ![s] = "crashed"]
            /\ goal' = FailQueued(goal)
            /\ start' = [start EXCEPT ![s] = "over"]
            /\ UNCHANGED live
       ELSE /\ TerminateFor(s, "init")
            /\ start' = [start EXCEPT ![s] = "failing"]
            /\ UNCHANGED <<goal, row>>
  /\ UNCHANGED <<maps, world>>

PromptAccepted(s) ==
  /\ start[s] \in Asking
  /\ live[s].state # "exited"
  /\ ~live[s].busy
  /\ start' = [start EXCEPT ![s] = "over"]
  /\ UNCHANGED <<goal, row, live, maps, world>>

\* The prompt is refused or times out, or its session ended: what it reopened
\* is put back, and the session is cancelled.
PromptFails(s) ==
  /\ start[s] \in Asking
  /\ goal' = IF start[s] = "reopening" /\ goal = "running" THEN "verifying" ELSE goal
  /\ IF s \in byId
       THEN StopFor(s, "cancel") /\ start' = [start EXCEPT ![s] = "failing"]
       ELSE UNCHANGED live /\ start' = [start EXCEPT ![s] = "over"]
  /\ UNCHANGED <<row, maps, world>>

-----------------------------------------------------------------------------
(* The process and its frames *)

InQueue(s, f) == \E i \in DOMAIN live[s].queue : live[s].queue[i] = f

\* A frame arrives, perhaps after the process is gone.  OMP goes on with its
\* turn when its tool call is answered, or when it is told to stop, after which
\* it calls no tool any more.
Arrives(s, f) ==
  /\ turn[s]
  /\ live[s].state # "none"
  /\ frames < MaxFrames
  /\ f = "tool" => live[s].ending = "none" /\ process[s] = "running"
  /\ f = "turn" => live[s].ending # "none" \/ ~InQueue(s, "tool")
  /\ live' = [live EXCEPT ![s].queue = Append(@, f)]
  /\ frames' = frames + 1
  /\ turn' = [turn EXCEPT ![s] = (f # "end")]
  /\ UNCHANGED <<goal, row, start, maps, process, restarts>>

Dies(s) ==
  /\ process[s] = "running"
  /\ \E how \in {"clean", "failed"} : process' = [process EXCEPT ![s] = how]
  /\ UNCHANGED <<goal, row, start, live, maps, turn, frames, restarts>>

\* The exit event: the waiting calls are woken, and handleExit is chained
\* behind the frames that have arrived.
ExitEmitted(s) ==
  /\ process[s] \in {"clean", "failed"}
  /\ live[s].state # "none"
  /\ ~live[s].gone
  /\ live' = [live EXCEPT ![s].gone = TRUE, ![s].queue = Append(@, "exit")]
  /\ UNCHANGED <<goal, row, start, maps, world>>

Next1(s, f) ==
  /\ live[s].queue # <<>>
  /\ Head(live[s].queue) = f
  /\ ~live[s].busy

Popped(s) == [live EXCEPT ![s].queue = Tail(@)]

ToolCalled(s) ==
  /\ Next1(s, "tool")
  /\ live' = IF live[s].state = "streaming" /\ goal = "running"
               THEN [live EXCEPT ![s].busy = TRUE]
               ELSE Popped(s)
  /\ UNCHANGED <<goal, row, start, maps, world>>

ToolReturns(s) ==
  /\ live[s].busy
  /\ Head(live[s].queue) = "tool"
  /\ live' = [live EXCEPT ![s].busy = FALSE, ![s].queue = Tail(@)]
  /\ UNCHANGED <<goal, row, start, maps, world>>

\* The frame puts the session into state st and its row back to a live state,
\* whatever they were.  The unique index may refuse that; then the frame is
\* dropped if the session was to end, and is a protocol error otherwise.
Revive(s, st) ==
  IF ~OtherLive(s)
    THEN /\ live' = [Popped(s) EXCEPT ![s].state = st]
         /\ row' = [row EXCEPT ![s] = "live"]
    ELSE /\ live' = IF live[s].ending # "none"
                      THEN [Popped(s) EXCEPT ![s].state = st]
                      ELSE [Popped(s) EXCEPT ![s].state = "stopping",
                                             ![s].ending = "crashed"]
         /\ UNCHANGED row

TurnGoesOn(s) ==
  /\ Next1(s, "turn")
  /\ Revive(s, "streaming")
  /\ UNCHANGED <<goal, start, maps, world>>

\* agent_end: the goal has a candidate to verify, or is blocked.
TurnEnds(s) ==
  /\ Next1(s, "end")
  /\ Revive(s, "ready")
  /\ IF goal = "running" /\ ~OtherLive(s)
       THEN goal' \in {"verifying", "blocked"}
       ELSE UNCHANGED goal
  /\ UNCHANGED <<start, maps, world>>

\* The decoder rejects a line: the session is terminated, unless it was to end.
LineRejected(s) ==
  /\ Next1(s, "bad")
  /\ IF live[s].ending # "none"
       THEN live' = Popped(s) /\ UNCHANGED row
     ELSE IF live[s].state = "exited"
       THEN live' = Popped(s) /\ row' = [row EXCEPT ![s] = "crashed"]
     ELSE TerminateFor(s, "protocol") /\ UNCHANGED row
  /\ UNCHANGED <<goal, start, maps, world>>

StartOver(s) ==
  start' = IF start[s] = "failing" THEN [start EXCEPT ![s] = "over"] ELSE start

\* The chained exit handler, on which the calls that wait for the exit go on.
\* A frame handled since the session ended makes handleExit run a second time.
ExitHandled(s) ==
  /\ Next1(s, "exit")
  /\ live' = [Popped(s) EXCEPT ![s].state = "exited", ![s].waits = {}]
  /\ IF live[s].state = "exited"
       THEN UNCHANGED <<goal, row, maps>>
       ELSE Deregister(s) /\ goal' = Outcome(live[s].waits, GoalAfterExit(s))
  /\ StartOver(s)
  /\ UNCHANGED world

\* The calls that wait for the exit need not wait for the frames before the
\* chained handler: the first of them handles the exit itself.
StopReturns(s) ==
  /\ live[s].waits # {}
  /\ live[s].gone
  /\ LET rest == IF "protocol" \in live[s].waits
                   THEN [Popped(s) EXCEPT ![s].busy = FALSE] ELSE live
     IN  live' = [rest EXCEPT ![s].waits = {},
                              ![s].state = IF s \in byId THEN "exited" ELSE @]
  /\ IF s \in byId
       THEN Deregister(s) /\ goal' = Outcome(live[s].waits, GoalAfterExit(s))
       ELSE UNCHANGED <<row, maps>> /\ goal' = Outcome(live[s].waits, goal)
  /\ StartOver(s)
  /\ UNCHANGED world

-----------------------------------------------------------------------------
(* The owner and the controller *)

Cancel(s) ==
  /\ s \in byId
  /\ StopFor(s, "cancel")
  /\ UNCHANGED <<goal, row, start, maps, world>>

Complete ==
  /\ goal = "verifying"
  /\ goal' = "complete"
  /\ IF byAgent = None THEN UNCHANGED live ELSE StopFor(byAgent, "cancel")
  /\ UNCHANGED <<row, start, maps, world>>

Rollback ==
  /\ goal \in Abandonable
  /\ IF byAgent = None
       THEN goal' = "rolled_back" /\ UNCHANGED live
       ELSE StopFor(byAgent, "rollback") /\ UNCHANGED goal
  /\ UNCHANGED <<row, start, maps, world>>

\* The controller dies and starts again: live rows are disconnected, and the
\* goal they worked on is blocked.
Restart ==
  /\ restarts < MaxRestarts
  /\ restarts' = restarts + 1
  /\ live' = [s \in Sessions |-> NoSession]
  /\ byAgent' = None
  /\ byId' = {}
  /\ start' = [s \in Sessions |->
                 IF start[s] \in Starting THEN "over" ELSE start[s]]
  /\ row' = [s \in Sessions |->
               IF row[s] = "live" THEN "disconnected" ELSE row[s]]
  /\ goal' = IF goal \in ActiveStates /\ \E s \in Sessions : row[s] = "live"
               THEN "blocked" ELSE goal
  /\ UNCHANGED <<process, turn, frames>>

-----------------------------------------------------------------------------
\* The event loop takes its next event when the frame queues are empty or wait
\* for a tool or for an exit: the promise callbacks come first.
Settled == \A s \in Sessions : live[s].queue = <<>> \/ live[s].busy

Opening(s) == Settled /\ (Loaded(s) \/ StartFails(s) \/ Made(s) \/ Refused(s))
Shaking(s) == Settled /\ (Dispatched(s) \/ NotDispatched(s) \/ HandshakeFails(s))
Prompting(s) == Settled /\ (PromptAccepted(s) \/ PromptFails(s))
Stopping(s) == Settled /\ (ExitEmitted(s) \/ StopReturns(s))
Handling(s) == \/ ToolCalled(s) \/ TurnGoesOn(s) \/ TurnEnds(s)
               \/ LineRejected(s) \/ ExitHandled(s)

Owner(s) == Settled /\ (StartBegins(s) \/ Retry(s) \/ Cancel(s))
Omp(s) == Settled /\ (Dies(s) \/ ToolReturns(s) \/ \E f \in Frames : Arrives(s, f))

SessionStep(s) == \/ Opening(s) \/ Shaking(s) \/ Prompting(s) \/ Stopping(s)
                  \/ Handling(s) \/ Owner(s) \/ Omp(s)

Next == \/ \E s \in Sessions : SessionStep(s)
        \/ Settled /\ (Complete \/ Rollback)
        \/ Restart

Spec == Init /\ [][Next]_vars

\* Told to stop, a process dies: it is killed if it does not.
Killed(s) == live[s].ending # "none" /\ Settled /\ Dies(s)

\* What is bound to happen while the controller runs: requests, waits and host
\* tools have timeouts.  OMP owes nothing.
Due(s) == \/ Opening(s) \/ Shaking(s) \/ Prompting(s) \/ Stopping(s) \/ Handling(s)
          \/ (Settled /\ ToolReturns(s)) \/ Killed(s)

\* The event loop is never idle while something is due.  As each session has
\* finitely many frames, that is enough for everything due to be done.
FairSpec == Spec /\ WF_vars(\E s \in Sessions : Due(s))

-----------------------------------------------------------------------------
(* Properties *)

\* An agent never has two OMP processes: not with two starts at once, not when
\* one is cancelled and another authorized, and not across a restart.  (start
\* looks at sessionsByAgent long before it spawns; what holds the second start
\* back is the unique index on live rows, which works only if a row outlives
\* its process.)
OneProcessPerAgent ==
  \A s, t \in Sessions :
    process[s] = "running" /\ process[t] = "running" => s = t

\* A start that is over has decided the goal: it is not left queued with
\* nobody to start it, unless the controller died in between.
StartsConclude ==
  [][\A s \in Sessions :
       /\ start[s] \in Starting
       /\ start[s]' = "over"
       /\ restarts' = restarts
       => goal' # "queued" \/ \E t \in Sessions : start[t]' \in Starting]_vars

\* A crash of OMP moves the goal out of 'running', also when it happens under a
\* host tool that keeps the frame queue from reaching the exit.
CrashSettlesGoal ==
  (goal = "running" /\ \E s \in Sessions :
     byAgent = s /\ row[s] = "live" /\ process[s] = "failed")
    ~> goal # "running"

\* A running goal is left without a session by an OMP that quits with code 0 of
\* its own accord, and by nothing else: every other end of a session, whoever
\* handles it, and the end of the controller take the goal out of 'running'.
RunningGoalKeepsSession ==
  [][goal = "running" /\ goal' = "running" /\ byId # {} =>
       \/ byId' # {}
       \/ \E s \in byId : process[s] = "clean" /\ live[s].ending = "none"]_vars

\* docs/OPERATIONS.md: "Confirmation stops the bound OMP session when present".
\* No session of a goal that was rolled back goes on unaware of it: it is still
\* being started (and finds out), or was told to stop, or is of before a restart.
RollbackStopsSession ==
  goal = "rolled_back" =>
    \A s \in Sessions :
      process[s] = "running" /\ start[s] = "over" /\ row[s] # "disconnected"
        => live[s].ending # "none"
=============================================================================
