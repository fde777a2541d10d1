-------------------------- MODULE CandidatePipeline --------------------------
(***************************************************************************)
(* The asynchronous life of one repository-bound goal around the ledger of *)
(* ReleaseAuthority: the isolated worktree, the producer's OMP sessions,   *)
(* the host tools they and the verifiers call (host-tools.ts, checks.ts,   *)
(* workspaces.ts), and the owner's completion, cancel, retry and rollback  *)
(* (control-center.ts).                                                    *)
(*                                                                         *)
(* An operation that awaits the file system or a child process is a call   *)
(* with one action per synchronous stretch; between two stretches anything *)
(* else may run.  What a stretch read before an await and uses after it is *)
(* kept in the call.  The calls of one session are serial (the session's   *)
(* frameQueue), but a call outlives its session when the session is        *)
(* cancelled.  Reading a worktree while its contents change may yield any  *)
(* identity.                                                               *)
(***************************************************************************)
EXTENDS ReleaseAuthority

CONSTANTS
  Sessions,    \* OMP sessions of the producer for this goal, one per attempt
  Inspectors,  \* verifiers that inspect and check the candidate on disk
  Owner,       \* the caller of the completion endpoint
  NoLabel,     \* a verifier's read, list or search: no check is run
  MaxCalls,    \* bound: asynchronous calls started
  MaxDrift     \* bound: changes of the worktree from outside the controller

ASSUME InspectorsAssumption == Inspectors \subseteq Independent
ASSUME NoLabelAssumption == NoLabel \notin Labels
ASSUME CallersAssumption ==
  Sessions \cap Inspectors = {} /\ Owner \notin Sessions \cup Inspectors

VARIABLES
  worktree,    \* contents of the worktree, as the identity they hash to
  workspace,   \* workspaces.state
  session,     \* state of each session
  rollback,    \* rollbackGoal awaits the exit of the session
  call,        \* the call in progress of each caller
  ranOn,       \* history: the contents on which the latest run of a label,
               \*   recorded for an identity, really executed
  calls, drifts

pipelineVars == <<vars, worktree, workspace, session, rollback, call, ranOn,
                  calls, drifts>>

Callers == Sessions \cup Inspectors \cup {Owner}
SessionStates == {"unused", "starting", "streaming", "idle", "stopping", "exited"}
IsOpen(s) == session[s] \in {"starting", "streaming", "idle", "stopping"}
NoOpenSession == \A s \in Sessions : ~IsOpen(s)
Active == workspace \in {"ready", "dirty"}

\* Calls at these awaits are reading the worktree.
Reading == {"submitting", "resolving", "executing", "recording", "confirming",
            "asserting"}
Points == {"none", "patching", "writing", "renaming", "settling"} \cup Reading

Call == [at       : Points,                 \* the await the call is at
         seen     : SUBSET Hashes,          \* contents seen by its current read
         ran      : SUBSET Hashes,          \* contents its check executed on
         known    : Hashes \cup {NoHash},   \* the identity read when it began
         attached : Hashes \cup {NoHash},   \* the identity read at confirmation
         active   : BOOLEAN,                \* the goal was active when it began
         label    : Labels \cup {NoLabel}]

Idle == [at |-> "none", seen |-> {}, ran |-> {}, known |-> NoHash,
         attached |-> NoHash, active |-> FALSE, label |-> NoLabel]

PipelineTypeOK ==
  /\ TypeOK
  /\ worktree \in Hashes
  /\ workspace \in {"ready", "dirty", "quarantined"}
  /\ session \in [Sessions -> SessionStates]
  /\ rollback \in BOOLEAN
  /\ call \in [Callers -> Call]
  /\ ranOn \in [Labels -> [Hashes -> SUBSET Hashes]]

\* The workspace has been prepared and the goal is about to be started.
PipelineInit ==
  /\ Init
  /\ worktree \in Hashes
  /\ workspace = "ready"
  /\ session = [s \in Sessions |-> "unused"]
  /\ rollback = FALSE
  /\ call = [c \in Callers |-> Idle]
  /\ ranOn = [l \in Labels |-> [h \in Hashes |-> {}]]
  /\ calls = 0
  /\ drifts = 0

-----------------------------------------------------------------------------
(* The steps of a call *)

At(c, point) == call[c].at = point

Begins(c, record) ==
  /\ call[c] = Idle
  /\ calls < MaxCalls
  /\ calls' = calls + 1
  /\ call' = [call EXCEPT ![c] = record]

Becomes(c, record) ==
  /\ call' = [call EXCEPT ![c] = record]
  /\ UNCHANGED calls

Ends(c) == Becomes(c, Idle)

\* Host tools run in a streaming turn of a running goal, one at a time.
MayCall(s) == session[s] = "streaming" /\ goalState = "running"

\* What computing the identity of the worktree returns: certain only when the
\* contents stood still and no write had its temporary file there.
Identities(c) ==
  IF /\ \E h \in Hashes : call[c].seen = {h}
     /\ \A s \in Sessions : ~At(s, "renaming")
    THEN call[c].seen
    ELSE Hashes

\* Every reader of the worktree sees it become h.
Observed(h) ==
  [c \in Callers |-> IF call[c].at \in Reading
                       THEN [call[c] EXCEPT !.seen = @ \cup {h}]
                       ELSE call[c]]

files == <<worktree, workspace, drifts>>
control == <<session, rollback>>

\* An await rejects: the call ends where it is.
CallFails(c) ==
  /\ call[c].at \in {"patching", "writing", "renaming", "submitting",
                     "resolving", "recording", "confirming"}
  /\ Ends(c)
  /\ UNCHANGED <<vars, files, control, ranOn>>

-----------------------------------------------------------------------------
(* workspace_write and apply_patch *)

\* apply_patch reads the file first.
PatchBegins(s) ==
  /\ MayCall(s)
  /\ Active
  /\ Begins(s, [Idle EXCEPT !.at = "patching"])
  /\ UNCHANGED <<vars, files, control, ranOn>>

\* The workspace and lease checks, then the resolution of the path.
WriteBegins(s) ==
  /\ Active
  /\ \/ MayCall(s) /\ Begins(s, [Idle EXCEPT !.at = "writing"])
     \/ At(s, "patching") /\ Becomes(s, [Idle EXCEPT !.at = "writing"])
  /\ UNCHANGED <<vars, files, control, ranOn>>

\* Seeded fault: the candidate is not invalidated before its contents change.
WriteKeepsCandidate(s) ==
  /\ At(s, "writing")
  /\ Becomes(s, [Idle EXCEPT !.at = "renaming"])
  /\ UNCHANGED <<vars, files, control, ranOn>>

\* The candidate loses its identity before its contents change.
WriteInvalidates(s) ==
  /\ At(s, "writing")
  /\ InvalidateArtifact
  /\ Becomes(s, [Idle EXCEPT !.at = "renaming"])
  /\ UNCHANGED <<files, control, ranOn>>

WriteLands(s) ==
  /\ At(s, "renaming")
  /\ \E h \in Hashes :
       /\ worktree' = h
       /\ call' = [Observed(h) EXCEPT ![s] = [Idle EXCEPT !.at = "settling"]]
  /\ UNCHANGED <<vars, workspace, drifts, control, ranOn, calls>>

\* UPDATE workspaces SET state = 'dirty', whatever the state is by now.
WriteSettles(s) ==
  /\ At(s, "settling")
  /\ workspace' = "dirty"
  /\ Ends(s)
  /\ UNCHANGED <<vars, worktree, drifts, control, ranOn>>

-----------------------------------------------------------------------------
(* submit_candidate *)

SubmitBegins(s) ==
  /\ MayCall(s)
  /\ Active
  /\ Begins(s, [Idle EXCEPT !.at = "submitting", !.seen = {worktree}])
  /\ UNCHANGED <<vars, files, control, ranOn>>

\* The computed identity is attached; nothing is checked again.
SubmitAttaches(s) ==
  /\ At(s, "submitting")
  /\ \E h \in Identities(s) : AttachArtifact(h)
  /\ Ends(s)
  /\ UNCHANGED <<files, control, ranOn>>

-----------------------------------------------------------------------------
(* run_check, and the verifiers' inspection of the candidate *)

ProducerCheckBegins(s, l) ==
  /\ MayCall(s)
  /\ Begins(s, [Idle EXCEPT !.at = "executing", !.seen = {worktree}, !.label = l])
  /\ UNCHANGED <<vars, files, control, ranOn>>

\* A verifier selects the subject's attached candidate and recomputes it.
InspectionBegins(v) ==
  /\ artifact # NoHash
  /\ Active
  /\ Begins(v, [Idle EXCEPT !.at = "resolving", !.seen = {worktree},
                            !.known = artifact])
  /\ UNCHANGED <<vars, files, control, ranOn>>

\* The worktree is the candidate: the check, or a read (NoLabel), goes ahead.
InspectionGoesAhead(v, l) ==
  /\ At(v, "resolving")
  /\ call[v].known \in Identities(v)
  /\ Becomes(v, [call[v] EXCEPT !.at = "executing", !.seen = {worktree},
                                !.label = l])
  /\ UNCHANGED <<vars, files, control, ranOn>>

InspectionFindsDrift(v) ==
  /\ At(v, "resolving")
  /\ Identities(v) # {call[v].known}
  /\ InvalidateArtifact
  /\ Ends(v)
  /\ UNCHANGED <<files, control, ranOn>>

\* The check process has exited; now the worktree is identified.
CheckExecuted(c) ==
  /\ At(c, "executing")
  /\ call[c].label \in Labels
  /\ Becomes(c, [call[c] EXCEPT !.at = "recording", !.seen = {worktree},
                                !.ran = call[c].seen])
  /\ UNCHANGED <<vars, files, control, ranOn>>

Confirming(v) == [call[v] EXCEPT !.at = "confirming", !.seen = {worktree},
                                 !.ran = {}, !.label = NoLabel,
                                 !.attached = artifact]

\* The run is inserted for the identity the worktree has now.  A verifier then
\* confirms that the candidate is still the one it selected.
CheckRecorded(c) ==
  /\ At(c, "recording")
  /\ \E h \in Identities(c), r \in {"pass", "fail"} :
       /\ RecordCheckRun(call[c].label, h, r)
       /\ ranOn' = [ranOn EXCEPT ![call[c].label][h] = call[c].ran]
  /\ IF c \in Inspectors THEN Becomes(c, Confirming(c)) ELSE Ends(c)
  /\ UNCHANGED <<files, control>>

\* A verifier has read the files it wanted.
FilesRead(v) ==
  /\ At(v, "executing")
  /\ call[v].label = NoLabel
  /\ Becomes(v, Confirming(v))
  /\ UNCHANGED <<vars, files, control, ranOn>>

Confirmed(v) ==
  /\ At(v, "confirming")
  /\ call[v].attached = call[v].known
  /\ call[v].known \in Identities(v)
  /\ Ends(v)
  /\ UNCHANGED <<vars, files, control, ranOn>>

\* Something changed since the selection.  The identity attached when the
\* confirmation began decides whether the candidate attached now is dropped.
NotConfirmed(v) ==
  /\ At(v, "confirming")
  /\ call[v].attached # call[v].known \/ Identities(v) # {call[v].known}
  /\ IF call[v].attached = NoHash THEN UNCHANGED vars ELSE InvalidateArtifact
  /\ Ends(v)
  /\ UNCHANGED <<files, control, ranOn>>

-----------------------------------------------------------------------------
(* request_approval and the owner's completion: assertCurrentCandidate first *)

AssertionBegins(c) ==
  /\ c = Owner \/ (c \in Sessions /\ MayCall(c))
  /\ artifact # NoHash
  /\ Active
  /\ Begins(c, [Idle EXCEPT !.at = "asserting", !.seen = {worktree},
                            !.known = artifact,
                            !.active = (goalState \in ActiveStates)])
  /\ UNCHANGED <<vars, files, control, ranOn>>

\* The recomputation differs or fails.
AssertionFails(c) ==
  /\ At(c, "asserting")
  /\ IF call[c].active THEN DetectDrift ELSE InvalidateArtifact
  /\ Ends(c)
  /\ UNCHANGED <<files, control, ranOn>>

AssertionHolds(c) == At(c, "asserting") /\ call[c].known \in Identities(c)

ApprovalRequested(s) ==
  /\ AssertionHolds(s)
  /\ \E a \in ApprovalIds, action \in {"release", "other"}, ttl \in Ttl :
       RequestApproval(a, action, ttl)
  /\ Ends(s)
  /\ UNCHANGED <<files, control, ranOn>>

\* The goal completes and its session is told to stop.
CompletionAccepted ==
  /\ AssertionHolds(Owner)
  /\ CompleteGoal
  /\ session' = [s \in Sessions |-> IF IsOpen(s) THEN "stopping" ELSE session[s]]
  /\ Ends(Owner)
  /\ UNCHANGED <<files, rollback, ranOn>>

\* Completion is blocked, or the candidate to approve is gone.
NothingToDo(c) ==
  /\ AssertionHolds(c)
  /\ IF c = Owner THEN ~CompletionEvaluates ELSE artifact = NoHash
  /\ Ends(c)
  /\ UNCHANGED <<vars, files, control, ranOn>>

-----------------------------------------------------------------------------
(* Sessions of the producer *)

\* startGoal, and the second half of retryGoal.
SessionOpens(s) ==
  /\ NoOpenSession
  /\ session[s] = "unused"
  /\ Active
  /\ \/ TransitionGoal("queued")
     \/ goalState = "queued" /\ UNCHANGED vars
  /\ session' = [session EXCEPT ![s] = "starting"]
  /\ UNCHANGED <<files, rollback, call, calls, ranOn>>

\* The handshake is over: the prompt goes to a queued goal, and only to one.
Dispatch(s) ==
  /\ session[s] = "starting"
  /\ IF goalState = "queued"
       THEN /\ TransitionGoal("running")
            /\ session' = [session EXCEPT ![s] = "streaming"]
       ELSE /\ session' = [session EXCEPT ![s] = "stopping"]
            /\ UNCHANGED vars
  /\ UNCHANGED <<files, rollback, call, calls, ranOn>>

\* The handshake fails, or the process dies once its frames are handled.
Crashes(s) ==
  /\ session[s] \in {"starting", "streaming", "idle"}
  /\ call[s] = Idle
  /\ session' = [session EXCEPT ![s] = "exited"]
  /\ IF goalState \in ActiveStates THEN TransitionGoal("failed")
                                   ELSE UNCHANGED vars
  /\ UNCHANGED <<files, rollback, call, calls, ranOn>>

\* The process exits with code 0: nothing happens to the goal.
ExitsCleanly(s) ==
  /\ session[s] \in {"streaming", "idle"}
  /\ call[s] = Idle
  /\ session' = [session EXCEPT ![s] = "exited"]
  /\ UNCHANGED <<vars, files, rollback, call, calls, ranOn>>

\* agent_end is handled after every earlier frame of the session, also of one
\* that is being cancelled.
TurnEnds(s) ==
  /\ session[s] \in {"streaming", "stopping"}
  /\ call[s] = Idle
  /\ session' = [session EXCEPT ![s] = IF @ = "streaming" THEN "idle" ELSE @]
  /\ IF goalState = "running"
       THEN TransitionGoal(IF artifact = NoHash THEN "blocked" ELSE "verifying")
       ELSE UNCHANGED vars
  /\ UNCHANGED <<files, rollback, call, calls, ranOn>>

\* The owner cancels the session; its call in progress is not waited for.
Cancel(s) ==
  /\ session[s] \in {"starting", "streaming", "idle"}
  /\ session' = [session EXCEPT ![s] = "stopping"]
  /\ UNCHANGED <<vars, files, rollback, call, calls, ranOn>>

\* The cancelled process is gone, and with it the attempt.
CancelledSessionExits(s) ==
  /\ session[s] = "stopping"
  /\ ~rollback
  /\ session' = [session EXCEPT ![s] = "exited"]
  /\ IF goalState \in {"complete", "cancelled", "failed", "rolled_back"}
       THEN UNCHANGED vars
       ELSE TransitionGoal("cancelled")
  /\ UNCHANGED <<files, rollback, call, calls, ranOn>>

-----------------------------------------------------------------------------
(* The owner's retry and rollback *)

Retry ==
  /\ NoOpenSession
  /\ Active
  /\ RetryGoal
  /\ UNCHANGED <<files, control, call, calls, ranOn>>

\* Seeded fault: the goal is settled and its candidate is left attached.
RollbackWithoutInvalidation ==
  IF goalState \in Abandonable
    THEN /\ goalState' = "rolled_back"
         /\ UNCHANGED <<artifact, approvals, gates, ledger>>
    ELSE InvalidateArtifact

\* What rollbackGoal does to the ledger, from whatever state the goal is in by
\* now: a goal that has completed meanwhile loses its candidate all the same.
RollbackOfLedger ==
  IF goalState \in Abandonable
    THEN RollbackGoal
    ELSE InvalidateArtifact

\* Seeded fault: the worktree is given up instead of kept for inspection.
RollbackReleases ==
  /\ NoOpenSession
  /\ goalState \in Abandonable
  /\ RollbackOfLedger
  /\ workspace' = "released"
  /\ UNCHANGED <<worktree, drifts, control, call, calls, ranOn>>

\* No session of the goal is open.
RollbackAtOnce ==
  /\ NoOpenSession
  /\ goalState \in Abandonable
  /\ RollbackOfLedger
  /\ workspace' = "quarantined"
  /\ UNCHANGED <<worktree, drifts, control, call, calls, ranOn>>

\* The open session is cancelled first, and rollbackGoal awaits its exit.
RollbackBegins(s) ==
  /\ IsOpen(s)
  /\ goalState \in Abandonable
  /\ session' = [session EXCEPT ![s] = "stopping"]
  /\ rollback' = TRUE
  /\ UNCHANGED <<vars, files, call, calls, ranOn>>

RollbackEnds(s) ==
  /\ session[s] = "stopping"
  /\ rollback
  /\ rollback' = FALSE
  /\ session' = [session EXCEPT ![s] = "exited"]
  /\ workspace' = "quarantined"
  /\ RollbackOfLedger
  /\ UNCHANGED <<worktree, drifts, call, calls, ranOn>>

-----------------------------------------------------------------------------
(* Steps of the ledger that await nothing, and the world outside *)

LedgerStep ==
  /\ \/ \E v \in Independent, r \in Results : SubmitEvidence(v, r)
     \/ \E v \in Independent, g \in GateNames, e \in evidence :
          RecordGate(v, g, e)
     \/ \E a \in ApprovalIds, d \in {"approved", "rejected"} : Decide(a, d)
     \/ ExpireAuthorizations
     \/ Tick
  /\ UNCHANGED <<files, control, call, calls, ranOn>>

\* Somebody edits the worktree without the controller.
Drift ==
  /\ drifts < MaxDrift
  /\ drifts' = drifts + 1
  /\ \E h \in Hashes \ {worktree} : worktree' = h /\ call' = Observed(h)
  /\ UNCHANGED <<vars, workspace, control, calls, ranOn>>

ProducerStep(s) ==
  \/ PatchBegins(s) \/ WriteBegins(s) \/ WriteInvalidates(s) \/ WriteLands(s)
  \/ WriteSettles(s)
  \/ SubmitBegins(s) \/ SubmitAttaches(s)
  \/ \E l \in Labels : ProducerCheckBegins(s, l)
  \/ ApprovalRequested(s)

InspectorStep(v) ==
  \/ InspectionBegins(v)
  \/ \E l \in Labels \cup {NoLabel} : InspectionGoesAhead(v, l)
  \/ InspectionFindsDrift(v)
  \/ FilesRead(v) \/ Confirmed(v) \/ NotConfirmed(v)

CallStep(c) ==
  \/ CheckExecuted(c) \/ CheckRecorded(c)
  \/ AssertionBegins(c) \/ AssertionFails(c) \/ NothingToDo(c)
  \/ CallFails(c)

SessionStep(s) ==
  \/ SessionOpens(s) \/ Dispatch(s) \/ TurnEnds(s)
  \/ Crashes(s) \/ ExitsCleanly(s)
  \/ Cancel(s) \/ CancelledSessionExits(s)
  \/ RollbackBegins(s) \/ RollbackEnds(s)

PipelineNext ==
  \/ \E s \in Sessions : ProducerStep(s) \/ SessionStep(s)
  \/ \E v \in Inspectors : InspectorStep(v)
  \/ \E c \in Callers : CallStep(c)
  \/ CompletionAccepted
  \/ Retry
  \/ RollbackAtOnce
  \/ LedgerStep
  \/ Drift

PipelineSpec == PipelineInit /\ [][PipelineNext]_pipelineVars

-----------------------------------------------------------------------------
(* Properties *)

\* The pipeline implements the ledger: every interleaving of calls, sessions
\* and owner operations changes the goal, its candidate and its authority only
\* by steps of ReleaseAuthority, so all that holds of the ledger holds here.
ImplementsLedger == Spec

\* The goal has been started once, so that no call of an earlier session can
\* run into the work of a later one.
OneAttempt ==
  \A s, t \in Sessions : session[s] # "unused" /\ session[t] # "unused" => s = t

\* During the first attempt, and until somebody else edits the worktree, the
\* attached identity is that of the worktree at every moment, also while a
\* cancelled session's write or submission is still under way.
\* (writeWorkspaceFile must drop the identity before the contents change, and a
\* session must run one call at a time.)
AttachedIsOnDisk ==
  OneAttempt /\ drifts = 0 /\ artifact # NoHash => artifact = worktree

\* An abandoned first attempt leaves no authority behind: whatever was under way
\* when the owner rolled back, no approval of it is pending or approved
\* afterwards.  (request must look at the goal again after its await, and
\* rollbackGoal must invalidate also what the goal got while it waited for the
\* session's exit.)
AbandonedHasNoAuthority ==
  OneAttempt /\ goalState = "rolled_back" => \A a \in ApprovalIds : ~IsLive(a)

\* docs/OPERATIONS.md: completion requires "a passing current-candidate run for
\* every named required-check label": the latest run executed on the candidate
\* and on nothing else.
CompletionIsOfCheckedContents ==
  goalState = "complete" /\ artifact # NoHash =>
    \A l \in Labels : ranOn[l][artifact] = {artifact}
=============================================================================
