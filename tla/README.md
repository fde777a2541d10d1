# Verification of the ACCOMP-lish controller

ACCOMP-lish is a localhost dashboard that runs OMP coding agents for one human
owner. A single Node controller keeps everything that matters in SQLite and
runs one OMP child process per active agent. The database handle is
synchronous, so a stretch of code between two `await`s is atomic; everything
interesting happens between stretches.

Source paths below are relative to the repository; the server is `src/server`.

## Inventory

| Component | State | Operations | Talks to | What makes it correct |
| --- | --- | --- | --- | --- |
| Authority ledger (`store.ts`, `approvals.ts`) | `goals`, `evidence`, `check_runs`, `release_checks`, `approvals`, `events` | lifecycle transitions, attach/invalidate artifact, evidence, gates, request/decide/expire approvals, evaluate release | called by everything below; the approval timer | authority is bound to the exact candidate, never survives it, never lasts, is never granted by the producer or by one verifier |
| Candidate pipeline (`host-tools.ts`, `checks.ts`, `workspaces.ts`, `control-center.ts`) | worktree on disk, `workspaces.state`, in-flight tool calls | write, patch, submit, check, inspect, request approval, complete, retry, cancel, roll back | ledger (writes), supervisor (serial tool calls per session) | the attached identity describes the contents on disk; racing calls only do what the ledger allows; a rollback is final |
| Supervisor (`omp-supervisor.ts`, session part of `store.ts`, `startBoundGoal`) | live-session maps, `sessions`, `agents`, one frame queue per session, the child processes | start, dispatch, frames, tool calls, interrupt, cancel, exit, shutdown, restart reconciliation | OMP (stdin/stdout), ledger (goal transitions), host tools | the database and the live sessions agree; a goal whose session is lost is failed or blocked; an agent can be started again |
| Territory (`workspaces.ts`, `createWorkspace`) | `workspaces`, `territory_leases`, `agents.current_workspace_id` | prepare, acquire, release, quarantine, write under lease | ledger, git | no two agents hold overlapping write territory; nothing leaks |
| Delegation (`createChildGoal`, `createVerificationGoal`, `startChildAgent`) | goal tree, `pendingChildGoalIds`, `deferCurrentOutcome` | create child, start child, report back, request verification | supervisor, messages | authority narrows on the way down; a parent does not finish before the reports it awaits; no turn ends without a verdict |
| Messages (`submitPrompt`, `relayReadOnlyMessage`) | `messages`, pending RPC requests | prompt, relay, settle, time out | supervisor queues of two agents | no two agents wait for each other for good; a message is delivered or failed |
| RPC frame decoder (`rpc-frame.ts`) | the chunks of one frame | decode line, assert complete | supervisor | a frame is its chunks, all of them, in order; memory is bounded |
| Controller lock (`process-lock.ts`, `index.ts`) | `controller.lock` | acquire, take over, release | other controllers, restore | one controller per data directory |
| Launcher (`scripts/accomplish-lib.mjs`) | `lifecycle.lock`, `runtime.json`, the controller it spawned | `up`, `stop` | controller | one command at a time; what runs is on record; a confirmed stop is one |
| Backup and restore (`scripts/sqlite-maintenance.mjs`) | database files | backup, restore | controller lock | a crash leaves the database under one of its names |
| Owner authentication (`auth.ts`, `http.ts`) | `api_sessions` | login, check, expire, logout | browser | a session ends at its expiry or logout |
| Improvement reviews (`store.ts`) | `improvement_reviews` | propose, move | owner | stages move along the graph only |
| Roles (`roles.ts`) | static tables | look up | delegation, ledger | every producer has an independent verifier for each gate |
| Model policy, commands, configuration | static tables | select, look up | all | pure |
| Event broker, browser client, pairing, scripts | presentation | | | no durable state of the system |

Hard behaviours: tool calls that outlive a cancelled session; reads of the
worktree that straddle a write; the owner's completion, retry, cancel and
rollback racing each other and the agents; frames queued behind a slow tool;
agents that write to each other from within their own queues; OMP crashes and
clean exits in mid-turn; controllers, launchers and a restore that meet over lock
files whose holder has died; crashes between two statements or two renames;
deadlines against answers.

## The modules

| Modules | Model | Extends |
| --- | --- | --- |
| `GoalLifecycle` | the states of a goal and the transitions between them | |
| `ReleaseAuthority` | the ledger | `GoalLifecycle` |
| `CandidatePipeline` | the calls around it; implements the ledger | `ReleaseAuthority` |
| `SessionSupervisor` | the life of a session | `GoalLifecycle` |
| `Territory` | workspaces and leases | `GoalLifecycle` |
| `Delegation`, `Conversation` | the goal tree; agents that talk over it | `GoalLifecycle`; `Delegation` |
| `Organization` | the built-in agents | |
| `ControllerProcess`, `Launcher`, `Restore`, `Host` | processes over the files of one project; `Host` composes the other three | `ControllerProcess` |
| `DirectoryOwnership` | abstract: one owner of a directory; `Host` implements it | |
| `FrameStream` | abstract: which lines make up a frame | |
| `FrameDecoder` | the incremental decoder; implements `FrameStream` | |

`X_proofs` holds the theorems about `X`, `MCX` its values for TLC;
`ConversationWork_proofs` has those about running goals and awaited reports, two
long proofs of their own.

### ReleaseAuthority: the ledger

One goal, its candidate, and all authority over it. Every action is one
synchronous operation of `store.ts` or `approvals.ts`; the SQL of those
operations filters on the goal, so one goal stands for each.

| TLA+ | Code |
| --- | --- |
| `goalState`, `artifact` | `goals.state`, `goals.artifact_identity` |
| `evidence`, `runs`, `latestRun`, `gates` | `evidence`, `check_runs` (latest result per label and identity; identity of the latest run of a label), `release_checks` in insertion order |
| `approvals`, `expiryEvents`, `now` | `approvals`, the `approval.expired` events, `Date.now()` |
| `AttachArtifact`, `Invalidation`, `TransitionGoal`, `SubmitEvidence` | `attachArtifact`, `invalidateArtifact`, `transitionGoal`, `addEvidence` |
| `RecordGate`, `RequestApproval`, `Decide`, `ExpireAuthorizations`, `ReleaseReady` | the methods of `approvals.ts` |
| `DetectDrift`, `RetryGoal`, `RollbackGoal`, `CompleteGoal` | the synchronous cores of `assertCurrentCandidate`, `retryGoal`, `rollbackGoal`, `completeGoal` |

The identity of a candidate is the SHA-256 of a worktree manifest and is an
element of `Hashes`. Which agent is independent of which, and who holds a
director role, is static data of `roles.ts`, hence constants. The readers'
windows (`LIMIT 1000`) are not modelled.

### CandidatePipeline: what happens around the ledger

Extends the ledger with the worktree, the workspace's state, the producer's
sessions (one per attempt) and the calls in progress. An operation with an
`await` is a call; `call[c].at` is the await it is at, and the other fields are
what its closure still holds. One action is one synchronous stretch. Tool calls
of a session are serial (`frameQueue`), start only in a streaming turn of a
running goal (`MayCall`), and go on after the session is cancelled.
`computeCandidateIdentity` walks the worktree over many awaits: `seen` collects
every contents the worktree had meanwhile, and the result is certain only if
that is a single one (`Identities`). `ranOn` is a history variable: the
contents on which a recorded check really executed.

`PipelineSpec` is shown to implement `Spec` of the ledger (`ImplementsLedger`):
the refinement mapping is the identity on the ledger's variables.

The pipeline assumes that `liveSessionId` finds an open session of the agent;
`SessionSupervisor` shows in which case it does not.

### SessionSupervisor: the life of a session

One agent, one goal, several attempts to start it. What the controller forgets
when it dies is kept apart from what the database keeps and from the processes
the operating system keeps.

| TLA+ | Code |
| --- | --- |
| `goal`, `row` | `goals.state`, `sessions.state` ("live" for the six states of `one_live_session_per_agent`) |
| `start[s]` | the await at which `startBoundGoal` is: command contract, working directory, handshake, cancel of a failed start, prompt ("reopening" when it is a follow-up that has reopened the goal) |
| `live[s]` | the `LiveSession`: `state`; `expectedExit` and `exitDisposition` as `ending`; `frameQueue` as `queue`; `busy` when its head is awaited; the callers in `waitForExitOrTerminate` as `waits` |
| `byAgent`, `byId` | `sessionsByAgent`, `sessionsById` |
| `process`, `turn` | the OMP child and whether it has a prompt to work on |

The frame queue is a chain of promises, so a frame that arrives on an idle queue
is handled before the next event: `Settled` says that no queue has such work,
and every event but a crash of the controller requires it. A host tool or a
protocol error keeps the queue waiting; frames and the exit handler then pile up
behind it, while a caller that waits for the exit (`cancel`, `rollbackGoal`) goes
on at once and handles the exit itself (`StopReturns`). Output of a process may
be read after its `exit` event (`Arrives` does not ask whether it runs). OMP owes
nothing: it may stop in the middle of a turn, send rubbish, or exit with 0.

Two starts may overlap, and the later one may finish when the other's session
has come and gone. It then prompts a goal that is already running, or reopens
one that is being verified, which only a read-only goal allows (`Dispatched`),
and puts that one back if the prompt fails (`PromptFails`). The requests for
input, and the state `waiting_input` they lead to, are in `Conversation` only.

### Territory: workspaces and leases

Several agents, their goals, and the workspaces and leases prepared for them in
the one repository of a project capsule.

| TLA+ | Code |
| --- | --- |
| `ws[w]` | a row of `workspaces`: goal, mode, state, place in `created_at` (`"none"` before the `INSERT`) |
| `prepare[w]` | the await at which the `createWorkspace` call for it is, clean-up included |
| `tree`, `unclean` | the worktrees on disk; those for which `git status` prints something |
| `checks` | workspaces with rows in `check_definitions` |
| `leases` | `territory_leases` in order of insertion; paths are sequences of segments, so that `pathsOverlap` is a comparison of prefixes and the root is the empty sequence |
| `current`, `goal`, `session` | `agents.current_workspace_id`, `goals.state`, the workspace of the live session |
| `write` | the `writeWorkspaceFile` call between its lease check and its last statement |
| `Granted`, `MayWrite`, `Quarantine`, `Released` | `acquireLease`, `assertLease`, `quarantineWorkspace`, the last transaction of `releaseWorkspace` |
| `Registers`, `Prepared`, `NotPrepared`, `DiesPreparing` | the three transactions of a preparation: all succeed, one is refused, the controller dies between two |
| `Start`, `Retry`, `Rollback` | `startGoal`, `retryGoal`, `rollbackGoal` |

A session starts, and stops, in one step here; its awaits are the subject of
`SessionSupervisor`. One write is under way at a time, of whichever session;
it goes on when its session has ended and its workspace is quarantined, as the
`await`s of `writeWorkspaceFile` allow, and its last statement then sets the row
to `dirty`. A call that leaves neither row nor worktree gives its element of
`Workspaces` back. `faults` counts what `MaxFaults` bounds: failing git commands, a
fresh worktree that is unclean, restarts. `spoiled` is history: preparations that
a failing git command, a crash, or a start of the goal in the middle cut short.

What the model shows besides the properties, and what they are worded around:

- A preparation that is refused while its worktree is already unclean (a filter
  of git, say) quarantines the workspace in `releaseWorkspace` and leaves its
  lease and the agent's pointer. A later rollback finds it quarantined, and
  `quarantineWorkspace` returns at once: the lease stays in force until it
  expires. `SettledHoldsNothing` therefore speaks of workspaces that were
  prepared.
- `git worktree add` and the two commands after it are outside the `try` of
  `createIsolatedWorktree`: when one of those two fails, the worktree stays.
- After a crash between the transactions of a preparation the workspace is
  active without a lease or without checks. Starting the goal dispatches on it:
  `start` asks for an active workspace, not for a prepared one.

### Delegation and Conversation: agents that work for each other

`Delegation` is the goal tree with its guards, `Conversation` the agents that
work on it in turns. Every agent has at most one goal, named by its owner.

| TLA+ | Code |
| --- | --- |
| `goal`, `parent`, `scope`, `artifact` | columns of `goals` |
| `CreateChildGoal`, `CreateVerificationGoal`, `MayStart` | `createChildGoal`, `createVerificationGoal`, the look of `startChildAgent` before it starts anything |
| `session`, `awaited`, `defer` | `LiveSession.state`, `pendingChildGoalIds`, `deferCurrentOutcome` |
| `frames`, `call` | the frame queue, and the host tool whose handler it waits for |
| `messages`, `stdin` | `messages` with what the closures of their requests keep; what was written to each process |
| `omp`, `followUps` | the OMP process: any behaviour the protocol allows |
| `CallSends`, `CallStarts` | `relayReadOnlyMessage` and `start_child_agent` up to the request |
| `HandlesResponse`, `TimesOut`, `CallReturns` | the answer, its timer, and the rest of the handler |
| `HandlesEnd` | `agent_end`: `finalizeReadOnlyOutcome` and the verdict on the goal |

A prompt is a request to the recipient's process whose answer comes back through
the recipient's queue, while the sender's handler waits for it inside the
sender's own queue. Two agents that write to each other at once therefore wait
for each other until a timer fires; `QueuesDrain` says that this is what
happens. What an agent asks for is a script (`Asks`) of which it may leave
anything out; when it asks, and when its turns begin and end, is left to it.
`owed` and `lost` are history: the reports an agent has coming by its calls to
start, and whether a report could not be delivered. The start of a session up to its first prompt
is one step.

`Organization` is the table of `roles.ts`: agents, superiors, and who judges
whom. The runs take parts of it, so that `CandidatesFindGates` is about the real
table.

### Host: processes and files of one project

`ControllerProcess` follows a controller through `index.ts`, `Launcher` an
invocation of `accomplish up` or `accomplish stop`, `Restore` one `db:restore`;
`Host` is all of them on one directory. Every system call on a shared file is a
step, and a process may be killed before each.

| TLA+ | Code |
| --- | --- |
| `lock`, `lifecycle` | `controller.lock`, `lifecycle.lock`: who created the file and whether it is written yet |
| `runtime` | `runtime.json` |
| `live`, `staged`, `aside` | the database under its live name, the staged copy, the `.pre-restore` file |
| `pc`, `lpc`, `rpc` | where each process is |
| `conn` | the database a controller has open |
| `Inspect`, `Probe`, `TakeOver` | the loop of `acquireControllerLock` |
| `Signalled` | SIGTERM or SIGINT: fatal until `index.ts` has its handlers in, then an orderly end; a second signal is a `Crash` |
| `StatusOfUp`, `StatusOfStop` | `projectStatus` and what the command does about it |

A process id that was given to another process shows as a dead holder that is
taken for a live one. `stolen` is history: a lock file was removed from under a
live holder, which the protocol of inspecting a file and then removing what is
there now cannot exclude and which does happen in the instances checked. What
depends on the lock is claimed as long as it has not. With larger instances TLC
also shows that this is no formality: three commands can lose the exclusion of
the lifecycle lock without any crash, and three controllers and commands with
one crash that of the data directory (the README and the threat model of the
repository ask for a single controller). A lock file left empty by a crash
between its creation and its writing blocks every later start until it is
removed by hand.

The database and its write-ahead companions are put aside by three renames, each
a step after which the restore may die; what the companions hold is not modelled.

### FrameStream and FrameDecoder

`FrameStream` says which lines make up a frame, as a property of the whole
sequence of them: a line alone, or the chunks 0, 1, ... of one frame, with equal
metadata, canonical contents, and together of exactly the declared length.
`FrameDecoder` is `decodeLine`, which sees one line at a time and keeps a
`ChunkState`, one action per early return. The refinement mapping rebuilds the
lines from the state (`Held`); that it can is why nothing more need be kept.
The contents of a chunk are a model value with a number of bytes, and whether
the concatenation is the JSON of a frame is a constant (`Readable`). Lines are
arbitrary.

## Runs

| Run | Bounds | What it shows |
| --- | --- | --- |
| `authority` | two identities, two directors, one approval, clock to 1, two evidence and two gate rows | the six safety properties of the ledger, and with timer and clock fair that every live approval lapses. Two identities suffice for replacing a candidate and coming back to it; two gates for a pass after a failure or both gates of a release |
| `pipeline` | two sessions, one verifier, one label, one approval, three calls, one outside edit | every interleaving is a behaviour of the ledger, also with a cancelled session's call running into the next attempt; in the first attempt the attached identity is that of the disk, and abandoning it leaves no authority |
| `supervisor` | two attempts, two frames, one restart | one OMP process per agent; every start decides its goal; a crash moves the goal out of `running`; a running goal loses its session only to an exit with code 0. Two frames are a turn and the host tool under which the process dies |
| `territory` | two agents with a goal each, two workspaces, a directory and a file in it, two leases, clock to 1, one fault (of git, or a restart) | exclusive territory, one active workspace per agent, no lease left behind, all-or-nothing preparation, one writer per path. Two leases are a grant and either a conflicting request or a renewal after the clock has passed it; two workspaces are two preparations of one agent at once, or one of each agent |
| `conversation` | a director and its specialist, script `Talk`, one crash | every queue drains, a running goal is worked on. The script has each write to the other, and a second start of the same child |
| `delegation` | the owner's director, its builder and both gate-keepers, script `Work`, no crash | authority narrows, what is awaited has started, a running goal is worked on, no turn overtakes a report that is owed, every candidate finds its gates |
| `host` | two controllers, two commands, one restore, one crash of anything | the directory has one owner, the commands exclude each other, what serves is on record, no database is lost, everybody comes to an end |
| `frames` | two chunk ids, one whole frame, counts to 3, lengths to 4, numbers from -1 to 5, contents of no, one and two bytes | the decoder implements the stream of frames. The input is unbounded; the state is finite |
| `check_exact` | one session, one verifier, one label, five calls, violated | a run is recorded for contents it did not execute on |
| `rollback_stops` | two attempts, three frames, violated | an exit handled twice hides the next session from a rollback |
| `child_awaited` | as `conversation`, without crash, violated | a second start makes the parent finish before the child has reported |
| `stop_confirms` | as `host`, without crash, violated | a `stop` confirms while a controller has the database open |

Bounds are constants with a `Max` name, and appear in guards and type
invariants only. The pipeline's `MaxCalls` bounds calls over the whole
behaviour: three are any two tool calls around an owner's request, in every
overlap, five (`check_exact`) a write, a submission, a check, another write and
the completion. `pipeline` holds the clock (`ClockStandsStill`): that deadlines
change nothing but the ledger is what `authority` is for. `MaxMessages` is as
many prompts as the scripts can send, so that it cuts nothing off. In
`delegation` the owner writes only to an agent that waits for input
(`OwnerAnswers`); in `conversation` he writes to nobody, and the agents do.
Symmetry is used for candidate identities, approval ids, processes,
workspaces, and agents together with their goals, which are alike there; never in
a run with a liveness property. `CHECK_DEADLOCK FALSE` is set where the system may
stop: once everything is settled and the budget is used up nothing more need
happen.

## Fairness

`FairSpec` of the ledger assumes that time passes and that the approval timer
(`setInterval` in the control center, which runs as long as the controller)
fires when a request has lapsed. Nothing is assumed of agents or of the owner.

`FairSpec` of the supervisor is a single weak fairness: the controller's event
loop is not idle for good while something is due. Due are the awaits that have a
timeout (requests, host tools, `waitForExitOrTerminate` with its SIGTERM and
SIGKILL), the frames and exit events that have arrived, and the end of a process
that was told to stop. OMP's frames, its unasked exits, the owner's requests and
a restart are never due.

`FairConversationSpec` assumes that the controller handles the frames that have
arrived, continues a handler whose answer is there, and that the timer of an open
request fires. OMP owes neither answers nor frames nor the end of a turn.

`FairHostSpec` assumes that the system schedules every controller, command and
restore, and, with strong fairness, that the 1200 attempts of a command that
finds the lifecycle lock taken run out: between two of its looks it is elsewhere,
and another command may release and take the lock again. Nobody need call a
command or be killed.

## Proofs

| Theorem | Says |
| --- | --- |
| `LedgerInvariant` | the inductive invariant of the ledger |
| `TypeCorrect`, `ApprovalsAreCurrent`, `PassesAreCurrent`, `ReadyRestsOnTwoVerifiers` | the state invariants of run `authority`, for all constants |
| `FailuresAreTerminal`, `ApprovalsMoveForward` | its action properties |
| `PipelineInvariant`, `PipelineTypeCorrect` | the inductive invariant of the pipeline |
| `PipelineImplementsLedger` | every behaviour of the pipeline is one of the ledger, so that all of the above holds of the pipeline |
| `AttachedStaysOnDisk`, `AbandonedLeavesNoAuthority` | the invariants of run `pipeline` |
| `SupervisorInvariant`, `SupervisorTypeCorrect` | the inductive invariant of the supervisor |
| `NeverTwoProcesses` | `OneProcessPerAgent`, for any number of attempts, frames and restarts |
| `EveryStartConcludes` | `StartsConclude`, likewise |
| `OnlyCleanExitLeavesGoal` | `RunningGoalKeepsSession`, likewise |
| `TerritoryInvariant`, `TerritoryTypeCorrect` | the inductive invariant of workspaces and leases |
| `TerritoryIsExclusive`, `OneWorkspacePerAgent`, `SettledLeavesNoLease`, `WritersAreAlone`, `PreparationLeavesAllOrNothing` | the invariants of run `territory`, for any agents, goals, paths, lifetimes and bounds |
| `HostTypeCorrect` | type correctness of controllers, commands and restore together |
| `OwnershipRefined` | `Host` implements `DirectoryOwnership`, for any number of each and of crashes |
| `LifecycleExclusion`, `CheckSound`, `RecordKeeping`, `PriorSurvival` | the other safety properties of run `host` |
| `DecoderTypeCorrect` | what the decoder holds is bounded and counted right |
| `DecoderImplementsStream` | the decoder implements `FrameStream`, for any lines and limits |
| `ConversationInvariant`, `ConversationTypeCorrect` | the inductive invariant of conversations, for any agents, hierarchy, requests and crashes |
| `DelegationNarrows`, `AwaitedWereStarted` | `AuthorityNarrows` and `AwaitedHaveStarted` of run `delegation` |
| `DelegatedCandidatesFindGates` | `CandidatesFindGates`, in any organization whose gatekeepers may judge everybody who writes |
| `BuiltInCandidatesFindGates`, `ReportsGoUpwards` | the organization of `roles.ts` is one, in all its parts, and its hierarchy is what `HierarchyAssumption` says |
| `WorkInvariant`, `RunningGoalsAreWorkedOn` | `RunningIsWorkedOn` of runs `conversation` and `delegation` |
| `ReportInvariant`, `NoTurnOvertakesReports` | `TurnsAwaitReports` of run `delegation`, for any script of calls |

The assumptions used are the named `ASSUME`s of the modules, which TLC evaluates.

The ledger's invariant strengthens freshness with provenance: every verdict is
backed by an evidence row of its author for the same identity, and only a
holder of the gate's director role wrote it. Without the latter, readiness says
nothing about who passed the candidate.

The pipeline's invariant adds what a call in flight remembers (`known`,
`attached`, `seen`) and, for the two theorems about a first attempt, that a write
under way has already dropped the identity and that no session is open, and no
call of a session goes on, once its goal could be given authority again. Both
properties are about a first attempt (`OneAttempt`), and the first also stops at
an edit from outside: with a retry a cancelled session's write may run into the
next attempt. The theorems need nothing beyond that; the number of sessions,
calls, verifiers and edits is any.

`OneProcessPerAgent` is not inductive. What keeps a second process out is the
unique index on live rows, which helps only while every running process has a
live row (`RowOutlivesProcess`) and at most one row is live (`OneLiveRow`: also a
frame that revives a row is held back by the index). That a row ends after its
process rests on the session objects (`SessionsSound`: an exit that is queued,
emitted or handled has happened); and after a restart, when the row of a
survivor is 'disconnected' and the index no longer counts it, on
`assertNoUnresolvedPriorProcess` together with the fact that no start is under
way in a fresh controller (`NothingBesideSurvivor`).

`StartsConclude` adds two facts to that invariant. A start that fails once it has
a process waits for the exit of that process, on which it goes on and settles the
goal (`FailingIsAwaited`). And a goal that is queued again beside a prompt under
way has another start, which still works on it (`QueuedIsStarted`). What an action
may do to those who wait and to a queued goal is stated once, as `AwaitStep` and
`QueueStep`.

`RunningGoalKeepsSession` is about steps: one that takes the last session out of
the map also moves the goal out of `running`, unless the process quit with code 0
and nobody had told it to. Its invariant (`RegisteredInv`) says that a session in
the map has a live row and has not exited, and that a session told to end has a
`cancel` or a `rollbackGoal` waiting for it: that call settles the goal in the
step in which it takes the exit.

The invariant of `Territory` joins its three properties about rows and leases
with what they rest on: a row has the goal of its call (`RowsAreBound`), a write
under way is on a row (`WriteHasRow`), and the checks are registered in the last
step of a preparation (`ChecksComeLast`), so that no clean-up follows. Every
action changes the leases by nothing, by giving some up, or by one grant, and
the sets of active and settled workspaces likewise in few ways; one lemma for
each of these three views of a step (`LeaseStep`, `ActiveStep`, `SettledStep`)
lets each property be proved against its view alone. `WritersAreAlone` needs
that two paths with a common extension are comparable (`CoversMeet`).

`PreparationIsAllOrNothing` speaks of preparations that are over; what makes it
inductive says where each one stands (`Tidy`): it goes on, and then its worktree
is where its last await put it; or it has left a workspace with a worktree, a
lease and checks; nothing; or an unclean worktree under a quarantined row. One
that goes on, or has given up, is out of everybody's sight (`Quiet`): no session
is on it and no write is under way to it, so the steps of others leave it alone
(`Bystands`). Starting a goal in the middle of its preparation ends just that,
which is why such a preparation counts as `spoiled`.

The invariant of `Host` says of each lock that, unless one was taken from a live
holder, the file is that of whoever believes to hold it, and of a controller that
it has the database open only while it holds the directory. For
`ServingIsRecorded` it also follows the child of a command from its spawn to its
record. The prior database has one of its two names because the restore puts it
aside before it installs anything, and only a complete copy (`staged`) is ever
renamed over the live name; a controller that finds none in between makes a
fresh one, which the installation replaces.

The refinement of the decoder rests on one lemma: what is held is the beginning of
a frame (`HeldIs`). A chunk continues it exactly when the held lines and the new
one are in order (`InOrderIsContinues`), and the running count of bytes is that of
the concatenation (`ContentsAreChunks`, with `TotalAssumption`, that appending a
chunk adds its size).

What a step of a conversation does to the goals, to the sessions, to those awaited
and to the reports under way is stated once (`GoalsStay`, `TreeStep`,
`SessionsStay`, `AwaitStep`, `ReportStep`), and each action is shown to be such a
step. The properties are then proved against these views alone. Authority
narrows along the tree because a goal is only created below one that exists
(`ParentsExist`) and no goal goes away, so that its own children come later.
Those awaited have started because an agent is awaited once it is started, or
again after its report has failed, and whoever has a report under way has
started (`ReportersHaveStarted`). A candidate finds its gates because a goal with
a parent was created by a delegator (`ParentsDelegate`), who supervises it, and
because each gatekeeper may judge each writer; the second is a hypothesis about
the organization, which is then proved of the table in `roles.ts`.

That a running goal is worked on is proved by what the controller still has to
handle. A turn decides its goal when its end is handled, so a running goal needs
one end of a turn to come, or a prompt that will bring one about; it needs two
when the outcome of the first is deferred (`Decided`, `TwoEnds`). Ends come from a
process that is busy or from frames that are not handled yet, and a turn that
begins in the frames ends there unless it is under way (`TurnsEnd`). A prompt
counts until its acceptance is among the frames, since its failure would move the
goal or lose a report (`Weighty`); that an answer is to a prompt of the same agent
(`MailIsOwn`) keeps one agent's answers from using up another's. Most steps leave
all of this as it is for an agent (`GoesOn`).

That no turn overtakes a report rests on what an agent's calls have brought about
by the time they return (`ReportInv`). An agent has one call under way at a time,
and only in a turn (`InTurn`); a child whose first prompt is not answered yet has
done nothing before it (`Unbegun`), so it has no report under way, and when its
start fails it will have none: the clean-up (`StartReturns`) takes nobody off the
list of those awaited who has a report to send. Hence whoever is owed is awaited, but for those the agent
was to start twice (`OwedAreAwaited`): the clean-up of the second start is the
one that strikes off a child at work, which is what run `child_awaited` finds.
The property leaves out a third way to `verifying`: a follow-up that fails puts
back a goal that was being verified when it came.

Only model-checked: liveness (`EveryAuthorityLapses`, `CrashSettlesGoal`,
`EverybodySettles`, `QueuesDrain`), which is out of the prover's reach together
with fairness; and the violated properties.

## Findings

The violated runs are disagreements between the code and the repository's own
documents and tests, quoted in `PROJECT.json`:

- `check_exact`: a check is recorded for contents it did not run on.
- `rollback_stops`: a rollback does not stop a session, because the exit of the
  session before it was handled twice.
- `child_awaited`: a second call to start a child makes the parent finish before
  the child has reported.
- `stop_confirms`: a `stop` confirms while a controller that a failed start has
  given up is still running.

What the models show besides, without a run of its own:

- `decide()` expires a request without the `approval.expired` event that the
  timer records (`approvals.ts:101`).
- A submission or a write in flight goes on after a rollback: the goal has a
  candidate again, without authority (`host-tools.ts:541`), or the quarantined
  workspace is `dirty` again (`workspaces.ts:360`).
- An exit with code 0 in mid-turn leaves the goal `running`
  (`omp-supervisor.ts:846`).
- A frame read after the exit revives the session's row (`omp-supervisor.ts:625`).
- `startChildAgent` looks at the hierarchy of agents and not at the tree of goals
  (`control-center.ts:333`): it starts a subordinate's goal of another tree, whose
  report `goalsShareRoot` then refuses, and the parent waits for good.
- `deferCurrentOutcome` stays set when a relayed report fails
  (`omp-supervisor.ts:326`): the turn that was to reconcile it ends without a
  verdict. `lost` in `RunningIsWorkedOn` is this.
- The flag is one for all children: of two that report in one turn the second is
  reconciled in a turn whose end may already finish the goal.
- A child that crashes after its start stays awaited, and its parent waits for
  the owner.

## Not modelled, and the plan

Left, in the order of what they would add:

1. `SessionSupervisor`: graceful shutdown, the stale timer, a crash inside
   `handleExit`, and the session ceiling, which takes several agents with the
   awaits of a start each.
2. `Launcher`: `init` and the project registry, under a lock of the same kind as
   the lifecycle lock; `backup`, which only reads.
3. Several goals of an agent, one after the other, in `Delegation`.

Sessions of the HTTP API and improvement reviews are single rows that each
statement tests before it writes, with no second actor. The event broker, the
browser client and the set-up scripts keep no state of the system. The reasons
are with the components in `PROJECT.json`.
