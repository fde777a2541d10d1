---------------------- MODULE CandidatePipeline_proofs ----------------------
(***************************************************************************)
(* The pipeline implements the ledger, for any number of sessions,         *)
(* verifiers and edits from outside, and inherits its invariants.  During  *)
(* the first attempt, and until somebody else edits the worktree, the      *)
(* attached identity is that of the worktree.                              *)
(***************************************************************************)
EXTENDS CandidatePipeline, ReleaseAuthority_proofs

-----------------------------------------------------------------------------
(* Every step of the pipeline is a step of the ledger, or leaves it alone *)

\* The lifecycle moves that sessions make are transitions of the ledger.
LEMMA LifecycleMoves ==
  /\ TransitionGoal("queued") => Next
  /\ TransitionGoal("running") => Next
  /\ TransitionGoal("failed") => Next
  /\ TransitionGoal("cancelled") => Next
  /\ TransitionGoal(IF artifact = NoHash THEN "blocked" ELSE "verifying") => Next
<1>1. ASSUME NEW g \in GoalStates, TransitionGoal(g) PROVE Next
  BY <1>1 DEF Next
<1>2. QED
  BY <1>1 DEF GoalStates

LEMMA ProducerStepsTheLedger ==
  ASSUME NEW s \in Sessions, ProducerStep(s)
  PROVE  [Next]_vars
<1>1. CASE WriteInvalidates(s)
  BY <1>1 DEF WriteInvalidates, Next
<1>2. CASE SubmitAttaches(s)
  <2>1. Identities(s) \subseteq Hashes
    BY DEF Identities
  <2>2. QED
    BY <1>2, <2>1 DEF SubmitAttaches, Next
<1>3. CASE ApprovalRequested(s)
  BY <1>3 DEF ApprovalRequested, Next
<1>4. CASE UNCHANGED vars
  BY <1>4
<1>5. QED
  BY <1>1, <1>2, <1>3, <1>4 DEF ProducerStep, PatchBegins, WriteBegins,
     WriteLands, WriteSettles, SubmitBegins, ProducerCheckBegins

LEMMA InspectorStepsTheLedger ==
  ASSUME NEW v \in Inspectors, InspectorStep(v)
  PROVE  [Next]_vars
<1>1. CASE InspectionFindsDrift(v)
  BY <1>1 DEF InspectionFindsDrift, Next
<1>2. CASE NotConfirmed(v)
  BY <1>2 DEF NotConfirmed, Next
<1>3. CASE UNCHANGED vars
  BY <1>3
<1>4. QED
  BY <1>1, <1>2, <1>3 DEF InspectorStep, InspectionBegins, InspectionGoesAhead,
     FilesRead, Confirmed

\* A call that records a check run carries the label of a registered check.
LEMMA CallStepsTheLedger ==
  ASSUME NEW c \in Callers, CallStep(c),
         At(c, "recording") => call[c].label \in Labels
  PROVE  [Next]_vars
<1>1. CASE CheckRecorded(c)
  <2>1. PICK h \in Identities(c), r \in {"pass", "fail"} :
          RecordCheckRun(call[c].label, h, r)
    BY <1>1 DEF CheckRecorded
  <2>2. h \in Hashes
    BY <2>1 DEF Identities
  <2>3. QED
    BY <1>1, <2>1, <2>2 DEF CheckRecorded, Next
<1>2. CASE AssertionFails(c)
  BY <1>2 DEF AssertionFails, Next
<1>3. CASE UNCHANGED vars
  BY <1>3
<1>4. QED
  BY <1>1, <1>2, <1>3 DEF CallStep, CheckExecuted, AssertionBegins, NothingToDo,
     CallFails

LEMMA RollbackStepsTheLedger == RollbackOfLedger => Next
BY DEF RollbackOfLedger, Next

LEMMA SessionStepsTheLedger ==
  ASSUME NEW s \in Sessions, SessionStep(s)
  PROVE  [Next]_vars
<1>1. CASE RollbackEnds(s)
  BY <1>1, RollbackStepsTheLedger DEF RollbackEnds
<1>2. CASE ~RollbackEnds(s)
  BY <1>2, LifecycleMoves DEF SessionStep, SessionOpens, Dispatch, TurnEnds,
     Crashes, ExitsCleanly, Cancel, CancelledSessionExits, RollbackBegins
<1>3. QED
  BY <1>1, <1>2

\* A well-formed call; one that records a check run has a registered label.
GoodCall == {r \in Call : r.at = "recording" => r.label \in Labels}

CallsInv ==
  /\ worktree \in Hashes
  /\ workspace \in {"ready", "dirty", "quarantined"}
  /\ session \in [Sessions -> SessionStates]
  /\ rollback \in BOOLEAN
  /\ call \in [Callers -> GoodCall]
  /\ ranOn \in [Labels -> [Hashes -> SUBSET Hashes]]

LEMMA PipelineStepsTheLedger ==
  ASSUME CallsInv, [PipelineNext]_pipelineVars
  PROVE  [Next]_vars
<1>1. ASSUME NEW s \in Sessions, ProducerStep(s) \/ SessionStep(s)
      PROVE  [Next]_vars
  BY <1>1, ProducerStepsTheLedger, SessionStepsTheLedger
<1>2. ASSUME NEW v \in Inspectors, InspectorStep(v) PROVE [Next]_vars
  BY <1>2, InspectorStepsTheLedger
<1>3. ASSUME NEW c \in Callers, CallStep(c) PROVE [Next]_vars
  BY <1>3, CallStepsTheLedger DEF CallsInv, GoodCall, At
<1>4. CASE CompletionAccepted
  BY <1>4 DEF CompletionAccepted, Next
<1>5. CASE Retry
  BY <1>5 DEF Retry, Next
<1>6. CASE RollbackAtOnce
  BY <1>6, RollbackStepsTheLedger DEF RollbackAtOnce
<1>7. CASE LedgerStep
  BY <1>7 DEF LedgerStep, Next
<1>8. CASE Drift
  BY <1>8 DEF Drift
<1>9. CASE UNCHANGED pipelineVars
  BY <1>9 DEF pipelineVars
<1>10. QED
  BY <1>1, <1>2, <1>3, <1>4, <1>5, <1>6, <1>7, <1>8, <1>9 DEF PipelineNext
-----------------------------------------------------------------------------
(* The calls stay well formed *)

LEMMA IdleIsGood == Idle \in GoodCall
BY DEF Idle, GoodCall, Call, Points

LEMMA CallUpdated ==
  ASSUME call \in [Callers -> GoodCall], NEW c \in Callers, NEW r \in GoodCall,
         Begins(c, r) \/ Becomes(c, r)
  PROVE  call' \in [Callers -> GoodCall]
BY DEF Begins, Becomes

LEMMA ObservedIsGood ==
  ASSUME call \in [Callers -> GoodCall], NEW h \in Hashes
  PROVE  Observed(h) \in [Callers -> GoodCall]
<1>1. ASSUME NEW c \in Callers
      PROVE  [call[c] EXCEPT !.seen = @ \cup {h}] \in GoodCall
  BY DEF GoodCall, Call
<1>2. QED
  BY <1>1 DEF Observed

LEMMA ProducerKeepsCalls ==
  ASSUME CallsInv, NEW s \in Sessions, ProducerStep(s)
  PROVE  CallsInv'
<1> USE DEF CallsInv, files, control
<1>0. s \in Callers
  BY DEF Callers
<1>1. ASSUME NEW p \in {"patching", "writing", "renaming", "settling"}
      PROVE  [Idle EXCEPT !.at = p] \in GoodCall
  BY DEF Idle, GoodCall, Call, Points
<1>2. CASE WriteLands(s)
  <2>1. PICK h \in Hashes :
          /\ worktree' = h
          /\ call' = [Observed(h) EXCEPT ![s] = [Idle EXCEPT !.at = "settling"]]
    BY <1>2 DEF WriteLands
  <2>2. call' \in [Callers -> GoodCall]
    BY <1>1, <2>1, ObservedIsGood
  <2>3. QED
    BY <1>2, <2>1, <2>2 DEF WriteLands
<1>3. CASE WriteSettles(s)
  BY <1>0, <1>3, CallUpdated, IdleIsGood DEF WriteSettles, Ends
<1>4. CASE PatchBegins(s) \/ WriteBegins(s) \/ WriteInvalidates(s)
  BY <1>0, <1>1, <1>4, CallUpdated DEF PatchBegins, WriteBegins, WriteInvalidates
<1>5. CASE SubmitBegins(s)
  <2>1. [Idle EXCEPT !.at = "submitting", !.seen = {worktree}] \in GoodCall
    BY DEF Idle, GoodCall, Call, Points, Reading
  <2>2. QED
    BY <1>0, <1>5, <2>1, CallUpdated DEF SubmitBegins
<1>6. CASE SubmitAttaches(s) \/ ApprovalRequested(s)
  BY <1>0, <1>6, CallUpdated, IdleIsGood DEF SubmitAttaches, ApprovalRequested, Ends
<1>7. ASSUME NEW l \in Labels, ProducerCheckBegins(s, l) PROVE CallsInv'
  <2>1. [Idle EXCEPT !.at = "executing", !.seen = {worktree}, !.label = l]
          \in GoodCall
    BY DEF Idle, GoodCall, Call, Points, Reading
  <2>2. QED
    BY <1>0, <1>7, <2>1, CallUpdated DEF ProducerCheckBegins
<1>8. QED
  BY <1>2, <1>3, <1>4, <1>5, <1>6, <1>7 DEF ProducerStep

LEMMA ConfirmingIsGood ==
  ASSUME TypeOK, CallsInv, NEW v \in Callers
  PROVE  Confirming(v) \in GoodCall
<1>1. call[v] \in Call
  BY DEF CallsInv, GoodCall
<1>2. artifact \in Hashes \cup {NoHash} /\ {worktree} \in SUBSET Hashes
  BY DEF TypeOK, CallsInv
<1>3. "confirming" \in Points
  BY DEF Points, Reading
<1>4. Confirming(v) \in Call
  BY <1>1, <1>2, <1>3 DEF Confirming, Call
<1>5. Confirming(v).at = "confirming"
  BY <1>1 DEF Confirming, Call
<1>6. QED
  BY <1>4, <1>5 DEF GoodCall

LEMMA InspectorKeepsCalls ==
  ASSUME TypeOK, CallsInv, NEW v \in Inspectors, InspectorStep(v)
  PROVE  CallsInv'
<1> USE DEF CallsInv, files, control
<1>0. v \in Callers
  BY DEF Callers
<1>1. CASE InspectionBegins(v)
  <2>1. [Idle EXCEPT !.at = "resolving", !.seen = {worktree},
                     !.known = artifact] \in GoodCall
    BY DEF Idle, GoodCall, Call, Points, Reading, TypeOK
  <2>2. QED
    BY <1>0, <1>1, <2>1, CallUpdated DEF InspectionBegins
<1>2. ASSUME NEW l \in Labels \cup {NoLabel}, InspectionGoesAhead(v, l)
      PROVE  CallsInv'
  <2>1. [call[v] EXCEPT !.at = "executing", !.seen = {worktree}, !.label = l]
          \in GoodCall
    <3>1. call[v] \in Call /\ {worktree} \in SUBSET Hashes
      BY <1>0 DEF GoodCall
    <3>2. "executing" \in Points
      BY DEF Points, Reading
    <3>3. QED
      BY <3>1, <3>2 DEF GoodCall, Call
  <2>2. QED
    BY <1>0, <1>2, <2>1, CallUpdated DEF InspectionGoesAhead
<1>3. CASE InspectionFindsDrift(v) \/ Confirmed(v) \/ NotConfirmed(v)
  BY <1>0, <1>3, CallUpdated, IdleIsGood DEF InspectionFindsDrift, Confirmed,
     NotConfirmed, Ends
<1>4. CASE FilesRead(v)
  BY <1>0, <1>4, CallUpdated, ConfirmingIsGood DEF FilesRead
<1>5. QED
  BY <1>1, <1>2, <1>3, <1>4 DEF InspectorStep

LEMMA CallStepKeepsCalls ==
  ASSUME TypeOK, CallsInv, NEW c \in Callers, CallStep(c)
  PROVE  CallsInv'
<1> USE DEF CallsInv, files, control
<1>1. CASE CheckExecuted(c)
  <2>1. [call[c] EXCEPT !.at = "recording", !.seen = {worktree},
                        !.ran = call[c].seen] \in GoodCall
    <3>1. call[c] \in Call /\ {worktree} \in SUBSET Hashes
      BY DEF GoodCall
    <3>2. "recording" \in Points
      BY DEF Points, Reading
    <3>3. call[c].label \in Labels
      BY <1>1 DEF CheckExecuted
    <3>4. QED
      BY <3>1, <3>2, <3>3 DEF GoodCall, Call
  <2>2. QED
    BY <1>1, <2>1, CallUpdated DEF CheckExecuted
<1>2. CASE CheckRecorded(c)
  <2>1. call[c].ran \in SUBSET Hashes
    BY DEF GoodCall, Call
  <2>2. ranOn' \in [Labels -> [Hashes -> SUBSET Hashes]]
    <3>1. PICK h \in Hashes :
            ranOn' = [ranOn EXCEPT ![call[c].label][h] = call[c].ran]
      BY <1>2 DEF CheckRecorded, Identities
    <3>2. call[c].label \in Labels
      BY <1>2 DEF CheckRecorded, At, GoodCall
    <3>3. QED
      BY <2>1, <3>1, <3>2
  <2>3. call' \in [Callers -> GoodCall]
    BY <1>2, CallUpdated, IdleIsGood, ConfirmingIsGood DEF CheckRecorded, Ends
  <2>4. QED
    BY <1>2, <2>2, <2>3 DEF CheckRecorded
<1>3. CASE AssertionBegins(c)
  <2>1. [Idle EXCEPT !.at = "asserting", !.seen = {worktree}, !.known = artifact,
                     !.active = (goalState \in ActiveStates)] \in GoodCall
    <3>1. artifact \in Hashes \cup {NoHash} /\ {worktree} \in SUBSET Hashes
      BY DEF TypeOK
    <3>2. ASSUME NEW b \in BOOLEAN
          PROVE  [Idle EXCEPT !.at = "asserting", !.seen = {worktree},
                              !.known = artifact, !.active = b] \in GoodCall
      BY <3>1 DEF Idle, GoodCall, Call, Points, Reading
    <3>3. (goalState \in ActiveStates) \in BOOLEAN
      OBVIOUS
    <3>4. QED
      BY <3>2, <3>3
  <2>2. QED
    BY <1>3, <2>1, CallUpdated DEF AssertionBegins
<1>4. CASE AssertionFails(c) \/ NothingToDo(c) \/ CallFails(c)
  BY <1>4, CallUpdated, IdleIsGood DEF AssertionFails, NothingToDo, CallFails, Ends
<1>5. QED
  BY <1>1, <1>2, <1>3, <1>4 DEF CallStep

LEMMA SessionKeepsCalls ==
  ASSUME CallsInv, NEW s \in Sessions, SessionStep(s)
  PROVE  CallsInv'
<1>1. UNCHANGED <<worktree, call, ranOn>>
  BY DEF SessionStep, SessionOpens, Dispatch, TurnEnds, Crashes, ExitsCleanly,
     Cancel, CancelledSessionExits, RollbackBegins, RollbackEnds, files
<1>2. session' \in [Sessions -> SessionStates]
  BY DEF CallsInv, SessionStates, SessionStep, SessionOpens, Dispatch, TurnEnds,
     Crashes, ExitsCleanly, Cancel, CancelledSessionExits, RollbackBegins,
     RollbackEnds
<1>3. workspace' \in {"ready", "dirty", "quarantined"} /\ rollback' \in BOOLEAN
  BY DEF CallsInv, SessionStep, SessionOpens, Dispatch, TurnEnds, Crashes,
     ExitsCleanly, Cancel, CancelledSessionExits, RollbackBegins, RollbackEnds,
     files
<1>4. QED
  BY <1>1, <1>2, <1>3 DEF CallsInv

LEMMA CallsInvStep ==
  ASSUME TypeOK, CallsInv, [PipelineNext]_pipelineVars
  PROVE  CallsInv'
<1>1. ASSUME NEW s \in Sessions, ProducerStep(s) \/ SessionStep(s)
      PROVE  CallsInv'
  BY <1>1, ProducerKeepsCalls, SessionKeepsCalls
<1>2. ASSUME NEW v \in Inspectors, InspectorStep(v) PROVE CallsInv'
  BY <1>2, InspectorKeepsCalls
<1>3. ASSUME NEW c \in Callers, CallStep(c) PROVE CallsInv'
  BY <1>3, CallStepKeepsCalls
<1>4. CASE CompletionAccepted
  <2>1. call' \in [Callers -> GoodCall]
    BY <1>4, CallUpdated, IdleIsGood DEF CompletionAccepted, Ends, CallsInv, Callers
  <2>2. QED
    BY <1>4, <2>1 DEF CompletionAccepted, CallsInv, SessionStates, files
<1>5. CASE Retry \/ RollbackAtOnce \/ LedgerStep
  BY <1>5 DEF Retry, RollbackAtOnce, LedgerStep, CallsInv, files, control
<1>6. CASE Drift
  BY <1>6, ObservedIsGood DEF Drift, CallsInv, control
<1>7. CASE UNCHANGED pipelineVars
  BY <1>7 DEF pipelineVars, CallsInv
<1>8. QED
  BY <1>1, <1>2, <1>3, <1>4, <1>5, <1>6, <1>7 DEF PipelineNext

LEMMA PipelineInits == PipelineInit => LedgerInv /\ CallsInv
<1>1. PipelineInit => CallsInv
  BY IdleIsGood DEF PipelineInit, CallsInv, SessionStates
<1>2. QED
  BY <1>1, LedgerInvInit DEF PipelineInit

\* Whatever the calls, sessions and owner operations do in whatever order, the
\* goal and its authority are in a state the ledger may be in.
THEOREM PipelineInvariant == PipelineSpec => [](LedgerInv /\ CallsInv)
<1>1. LedgerInv /\ CallsInv /\ [PipelineNext]_pipelineVars
        => (LedgerInv /\ CallsInv)'
  BY PipelineStepsTheLedger, LedgerInvStep, CallsInvStep DEF LedgerInv
<1>2. QED
  BY <1>1, PipelineInits, PTL DEF PipelineSpec

\* The pipeline implements the ledger.
THEOREM PipelineImplementsLedger == PipelineSpec => ImplementsLedger
<1>1. PipelineInit => Init
  BY DEF PipelineInit
<1>2. CallsInv /\ [PipelineNext]_pipelineVars => [Next]_vars
  BY PipelineStepsTheLedger
<1>3. QED
  BY <1>1, <1>2, PipelineInvariant, PTL DEF PipelineSpec, Spec, ImplementsLedger

\* The rows, the worktree, the sessions and the calls always have their types.
THEOREM PipelineTypeCorrect == PipelineSpec => []PipelineTypeOK
<1>1. LedgerInv /\ CallsInv => PipelineTypeOK
  BY DEF LedgerInv, CallsInv, GoodCall, PipelineTypeOK
<1>2. QED
  BY <1>1, PipelineInvariant, PTL

-----------------------------------------------------------------------------
(* Calls belong to sessions that have been opened *)

OnlyOpenedCall ==
  /\ drifts \in Nat
  /\ \A s \in Sessions : session[s] = "unused" => At(s, "none")

\* No other session has a call under way.
Alone(s) == \A t \in Sessions \ {s} : At(t, "none")

\* The steps of a caller move its own call only.
LEMMA ProducerMovesItself ==
  ASSUME CallsInv, NEW s \in Sessions, ProducerStep(s)
  PROVE  \A t \in Sessions \ {s} : call'[t].at = call[t].at
<1>0. s \in Callers /\ call \in [Callers -> GoodCall] /\ Sessions \subseteq Callers
  BY DEF Callers, CallsInv
<1>1. CASE WriteLands(s)
  <2>1. PICK h \in Hashes :
          call' = [Observed(h) EXCEPT ![s] = [Idle EXCEPT !.at = "settling"]]
    BY <1>1 DEF WriteLands
  <2>2. \A t \in Callers \ {s} : call'[t] = Observed(h)[t]
    BY <2>1 DEF Observed
  <2>3. \A t \in Callers : Observed(h)[t].at = call[t].at
    BY <1>0 DEF Observed, GoodCall, Call
  <2>4. QED
    BY <1>0, <2>2, <2>3
<1>2. CASE ~WriteLands(s)
  BY <1>0, <1>2 DEF ProducerStep, PatchBegins, WriteBegins, WriteInvalidates,
     WriteSettles, SubmitBegins, SubmitAttaches, ProducerCheckBegins,
     ApprovalRequested, Begins, Becomes, Ends
<1>3. QED
  BY <1>1, <1>2

LEMMA InspectorMovesNoSession ==
  ASSUME CallsInv, NEW v \in Inspectors, InspectorStep(v)
  PROVE  \A s \in Sessions : call'[s] = call[s]
<1>1. \A c \in Callers \ {v} : call'[c] = call[c]
  BY DEF CallsInv, InspectorStep, InspectionBegins, InspectionGoesAhead,
     InspectionFindsDrift, FilesRead, Confirmed, NotConfirmed, Ends, Begins,
     Becomes
<1>2. QED
  BY <1>1, CallersAssumption DEF Callers

LEMMA CallStepMovesItself ==
  ASSUME CallsInv, NEW c \in Callers, CallStep(c)
  PROVE  \A d \in Callers \ {c} : call'[d] = call[d]
BY DEF CallsInv, CallStep, CheckExecuted, CheckRecorded, AssertionBegins,
   AssertionFails, NothingToDo, CallFails, Ends, Begins, Becomes

LEMMA SessionStepsMoveNoCall ==
  ASSUME NEW s \in Sessions, SessionStep(s)
  PROVE  UNCHANGED call
BY DEF SessionStep, SessionOpens, Dispatch, TurnEnds, Crashes, ExitsCleanly,
   Cancel, CancelledSessionExits, RollbackBegins, RollbackEnds

\* A caller was opened before it moves.
LEMMA MoversAreOpened ==
  ASSUME OnlyOpenedCall, NEW s \in Sessions, ProducerStep(s) \/ CallStep(s)
  PROVE  session[s] # "unused" /\ UNCHANGED session
<1>1. MayCall(s) \/ ~At(s, "none")
  BY CallersAssumption DEF ProducerStep, PatchBegins, WriteBegins,
     WriteInvalidates, WriteLands, WriteSettles, SubmitBegins, SubmitAttaches,
     ProducerCheckBegins, ApprovalRequested, AssertionHolds, CallStep,
     CheckExecuted, CheckRecorded, AssertionBegins, AssertionFails, NothingToDo,
     CallFails, At
<1>2. UNCHANGED session
  BY DEF ProducerStep, PatchBegins, WriteBegins, WriteInvalidates, WriteLands,
     WriteSettles, SubmitBegins, SubmitAttaches, ProducerCheckBegins,
     ApprovalRequested, CallStep, CheckExecuted, CheckRecorded, AssertionBegins,
     AssertionFails, NothingToDo, CallFails, control
<1>3. QED
  BY <1>1, <1>2 DEF OnlyOpenedCall, MayCall

\* No session is unused again.
LEMMA SessionsAdvance ==
  ASSUME CallsInv, [PipelineNext]_pipelineVars, NEW s \in Sessions,
         session'[s] = "unused"
  PROVE  session[s] = "unused"
<1>1. ASSUME NEW t \in Sessions, SessionStep(t) PROVE session[s] = "unused"
  BY <1>1 DEF CallsInv, SessionStep, SessionOpens, Dispatch, TurnEnds, Crashes,
     ExitsCleanly, Cancel, CancelledSessionExits, RollbackBegins, RollbackEnds
<1>2. ASSUME NEW t \in Sessions, ProducerStep(t) PROVE session[s] = "unused"
  BY <1>2 DEF ProducerStep, PatchBegins, WriteBegins, WriteInvalidates,
     WriteLands, WriteSettles, SubmitBegins, SubmitAttaches,
     ProducerCheckBegins, ApprovalRequested, control
<1>3. ASSUME NEW v \in Inspectors, InspectorStep(v) PROVE session[s] = "unused"
  BY <1>3 DEF InspectorStep, InspectionBegins, InspectionGoesAhead,
     InspectionFindsDrift, FilesRead, Confirmed, NotConfirmed, control
<1>4. ASSUME NEW c \in Callers, CallStep(c) PROVE session[s] = "unused"
  BY <1>4 DEF CallStep, CheckExecuted, CheckRecorded, AssertionBegins,
     AssertionFails, NothingToDo, CallFails, control
<1>5. CASE CompletionAccepted
  BY <1>5 DEF CompletionAccepted
<1>6. CASE Retry \/ RollbackAtOnce \/ LedgerStep \/ Drift
  BY <1>6 DEF Retry, RollbackAtOnce, LedgerStep, Drift, control
<1>7. CASE UNCHANGED pipelineVars
  BY <1>7 DEF pipelineVars
<1>8. QED
  BY <1>1, <1>2, <1>3, <1>4, <1>5, <1>6, <1>7 DEF PipelineNext

\* Only an edit from outside is counted.
LEMMA OnlyEditsAreCounted ==
  ASSUME [PipelineNext]_pipelineVars
  PROVE  drifts' = drifts \/ drifts' = drifts + 1
<1>1. ASSUME NEW s \in Sessions, ProducerStep(s) PROVE drifts' = drifts
  BY <1>1 DEF ProducerStep, PatchBegins, WriteBegins, WriteInvalidates,
     WriteLands, WriteSettles, SubmitBegins, SubmitAttaches,
     ProducerCheckBegins, ApprovalRequested, files
<1>2. ASSUME NEW s \in Sessions, SessionStep(s) PROVE drifts' = drifts
  BY <1>2 DEF SessionStep, SessionOpens, Dispatch, TurnEnds, Crashes,
     ExitsCleanly, Cancel, CancelledSessionExits, RollbackBegins, RollbackEnds,
     files
<1>3. ASSUME NEW v \in Inspectors, InspectorStep(v) PROVE drifts' = drifts
  BY <1>3 DEF InspectorStep, InspectionBegins, InspectionGoesAhead,
     InspectionFindsDrift, FilesRead, Confirmed, NotConfirmed, files
<1>4. ASSUME NEW c \in Callers, CallStep(c) PROVE drifts' = drifts
  BY <1>4 DEF CallStep, CheckExecuted, CheckRecorded, AssertionBegins,
     AssertionFails, NothingToDo, CallFails, files
<1>5. CASE CompletionAccepted \/ Retry \/ RollbackAtOnce \/ LedgerStep
  BY <1>5 DEF CompletionAccepted, Retry, RollbackAtOnce, LedgerStep, files
<1>6. CASE Drift
  BY <1>6 DEF Drift
<1>7. CASE UNCHANGED pipelineVars
  BY <1>7 DEF pipelineVars
<1>8. QED
  BY <1>1, <1>2, <1>3, <1>4, <1>5, <1>6, <1>7 DEF PipelineNext

LEMMA FirstAttemptWas ==
  ASSUME CallsInv, [PipelineNext]_pipelineVars, OneAttempt'
  PROVE  OneAttempt
BY SessionsAdvance DEF OneAttempt

\* In the first attempt a mover is the only session with a call.
LEMMA MoverIsAlone ==
  ASSUME OnlyOpenedCall, OneAttempt, NEW s \in Sessions,
         ProducerStep(s) \/ CallStep(s)
  PROVE  Alone(s)
BY MoversAreOpened DEF OnlyOpenedCall, OneAttempt, Alone

LEMMA OnlyOpenedCallStep ==
  ASSUME CallsInv, OnlyOpenedCall, [PipelineNext]_pipelineVars
  PROVE  OnlyOpenedCall'
<1>1. drifts' \in Nat
  BY OnlyEditsAreCounted DEF OnlyOpenedCall
<1>2. ASSUME NEW s \in Sessions, session'[s] = "unused"
      PROVE  call'[s].at = "none"
  <2>0. session[s] = "unused" /\ At(s, "none") /\ s \in Callers
    BY <1>2, SessionsAdvance DEF OnlyOpenedCall, Callers
  <2>1. ASSUME NEW t \in Sessions, ProducerStep(t) PROVE call'[s].at = "none"
    BY <2>0, <2>1, MoversAreOpened, ProducerMovesItself DEF At
  <2>2. ASSUME NEW t \in Sessions, SessionStep(t) PROVE call'[s].at = "none"
    BY <2>0, <2>2, SessionStepsMoveNoCall DEF At
  <2>3. ASSUME NEW v \in Inspectors, InspectorStep(v) PROVE call'[s].at = "none"
    BY <2>0, <2>3, InspectorMovesNoSession DEF At
  <2>4. ASSUME NEW c \in Callers, CallStep(c) PROVE call'[s].at = "none"
    BY <2>0, <2>4, MoversAreOpened, CallStepMovesItself DEF At
  <2>5. CASE CompletionAccepted
    BY <2>0, <2>5, CallersAssumption DEF CompletionAccepted, Ends, Becomes,
       CallsInv, Callers, At
  <2>6. CASE Retry \/ RollbackAtOnce \/ LedgerStep
    BY <2>0, <2>6 DEF Retry, RollbackAtOnce, LedgerStep, At
  <2>7. CASE Drift
    BY <2>0, <2>7 DEF Drift, Observed, CallsInv, GoodCall, Call, At
  <2>8. CASE UNCHANGED pipelineVars
    BY <2>0, <2>8 DEF pipelineVars, At
  <2>9. QED
    BY <2>1, <2>2, <2>3, <2>4, <2>5, <2>6, <2>7, <2>8 DEF PipelineNext
<1>3. QED
  BY <1>1, <1>2 DEF OnlyOpenedCall, At

LEMMA OpenedInvariant == PipelineSpec => [](CallsInv /\ OnlyOpenedCall)
<1>1. PipelineInit => OnlyOpenedCall
  BY DEF PipelineInit, OnlyOpenedCall, At, Idle, Callers
<1>2. CallsInv /\ OnlyOpenedCall /\ [PipelineNext]_pipelineVars => OnlyOpenedCall'
  BY OnlyOpenedCallStep
<1>3. QED
  BY <1>1, <1>2, PipelineInvariant, PTL DEF PipelineSpec

-----------------------------------------------------------------------------
(* The first attempt, before anybody else edits the worktree *)

\* The attached identity is that of the worktree; a write about to land has
\* already dropped it, and a submission under way has seen one content only.
DiskInv ==
  /\ drifts = 0
  /\ artifact # NoHash => artifact = worktree
  /\ \A s \in Sessions :
       /\ At(s, "renaming") => artifact = NoHash
       /\ At(s, "submitting") => call[s].seen = {worktree}

\* A step that at most drops the identity and starts no write or submission
\* other than on these terms.
LEMMA QuietStepKeepsDiskInv ==
  ASSUME DiskInv, UNCHANGED <<worktree, drifts>>, artifact' \in {artifact, NoHash},
         \A s \in Sessions :
           /\ call'[s].at = "renaming" => At(s, "renaming") \/ artifact' = NoHash
           /\ call'[s].at = "submitting" => call'[s].seen = {worktree}
  PROVE  DiskInv'
BY DEF DiskInv, At

LEMMA LedgerDropsOrKeeps ==
  /\ InvalidateArtifact \/ DetectDrift \/ RetryGoal \/ RollbackGoal
       \/ RollbackOfLedger => artifact' = NoHash
  /\ \A g \in GoalStates : TransitionGoal(g) => UNCHANGED artifact
  /\ CompleteGoal \/ LedgerStep => UNCHANGED artifact
  /\ \A a \in ApprovalIds, action \in {"release", "other"}, ttl \in Ttl :
       RequestApproval(a, action, ttl) => UNCHANGED artifact
BY DEF InvalidateArtifact, DetectDrift, RetryGoal, RollbackGoal, Invalidation,
       RollbackOfLedger, TransitionGoal, CompleteGoal, LedgerStep,
       SubmitEvidence, RecordGate, Decide, ExpireAuthorizations, Tick,
       RequestApproval, ledger

LEMMA ProducerKeepsDiskInv ==
  ASSUME CallsInv, DiskInv, NEW s \in Sessions, Alone(s), ProducerStep(s)
  PROVE  DiskInv'
<1>0. s \in Callers /\ call \in [Callers -> GoodCall]
  BY DEF Callers, CallsInv
<1>. \A t \in Sessions \ {s} : call'[t].at = "none"
  BY ProducerMovesItself DEF Alone, At
<1>1. CASE WriteLands(s)
  <2>1. artifact = NoHash /\ artifact' = NoHash /\ UNCHANGED drifts
    BY <1>1 DEF WriteLands, DiskInv, vars
  <2>2. call'[s].at = "settling"
    <3>1. DOMAIN Observed(worktree') = Callers
      BY DEF Observed
    <3>2. QED
      BY <1>0, <1>1 DEF WriteLands, Idle, Observed
  <2>3. QED
    BY <2>1, <2>2 DEF DiskInv, At
<1>2. CASE SubmitAttaches(s)
  <2>1. Identities(s) = {worktree}
    BY <1>2 DEF SubmitAttaches, DiskInv, Identities, At, CallsInv, Alone
  <2>2. artifact' = worktree /\ UNCHANGED <<worktree, drifts>>
    BY <1>2, <2>1 DEF SubmitAttaches, AttachArtifact, files
  <2>3. call'[s].at = "none"
    BY <1>0, <1>2 DEF SubmitAttaches, Ends, Becomes, Idle
  <2>4. QED
    BY <2>2, <2>3 DEF DiskInv, At
<1>3. CASE WriteInvalidates(s)
  <2>1. artifact' = NoHash /\ UNCHANGED <<worktree, drifts>>
    BY <1>3, LedgerDropsOrKeeps DEF WriteInvalidates, files
  <2>2. call'[s].at = "renaming"
    BY <1>0, <1>3 DEF WriteInvalidates, Becomes, Idle
  <2>3. QED
    BY <2>1, <2>2, QuietStepKeepsDiskInv
<1>4. CASE SubmitBegins(s)
  <2>1. UNCHANGED <<artifact, worktree, drifts>>
    BY <1>4 DEF SubmitBegins, files, vars
  <2>2. call'[s].at = "submitting" /\ call'[s].seen = {worktree}
    BY <1>0, <1>4 DEF SubmitBegins, Begins, Idle
  <2>3. QED
    BY <2>1, <2>2, QuietStepKeepsDiskInv
<1>5. CASE ApprovalRequested(s)
  <2>1. UNCHANGED <<artifact, worktree, drifts>>
    BY <1>5, LedgerDropsOrKeeps DEF ApprovalRequested, files
  <2>2. call'[s].at = "none"
    BY <1>0, <1>5 DEF ApprovalRequested, Ends, Becomes, Idle
  <2>3. QED
    BY <2>1, <2>2, QuietStepKeepsDiskInv
<1>6. CASE \/ PatchBegins(s) \/ WriteBegins(s) \/ WriteSettles(s)
           \/ \E l \in Labels : ProducerCheckBegins(s, l)
  <2>1. UNCHANGED <<artifact, worktree, drifts>>
    BY <1>6 DEF PatchBegins, WriteBegins, WriteSettles, ProducerCheckBegins,
       files, vars
  <2>2. call'[s].at \in {"patching", "writing", "none", "executing"}
    <3>1. CASE PatchBegins(s) \/ WriteBegins(s)
      BY <1>0, <3>1 DEF PatchBegins, WriteBegins, Begins, Becomes, Idle
    <3>2. CASE WriteSettles(s)
      BY <1>0, <3>2 DEF WriteSettles, Ends, Becomes, Idle
    <3>3. ASSUME NEW l \in Labels, ProducerCheckBegins(s, l)
          PROVE  call'[s].at = "executing"
      BY <1>0, <3>3 DEF ProducerCheckBegins, Begins, Idle
    <3>4. QED
      BY <1>6, <3>1, <3>2, <3>3
  <2>3. QED
    BY <2>1, <2>2, QuietStepKeepsDiskInv
<1>7. QED
  BY <1>1, <1>2, <1>3, <1>4, <1>5, <1>6 DEF ProducerStep

LEMMA InspectorKeepsDiskInv ==
  ASSUME CallsInv, DiskInv, NEW v \in Inspectors, InspectorStep(v)
  PROVE  DiskInv'
<1>1. UNCHANGED <<worktree, drifts>> /\ artifact' \in {artifact, NoHash}
  BY LedgerDropsOrKeeps DEF InspectorStep, InspectionBegins,
     InspectionGoesAhead, InspectionFindsDrift, FilesRead, Confirmed,
     NotConfirmed, files, vars
<1>2. \A c \in Callers \ {v} : call'[c] = call[c]
  BY DEF CallsInv, InspectorStep, InspectionBegins, InspectionGoesAhead,
     InspectionFindsDrift, FilesRead, Confirmed, NotConfirmed, Ends, Begins,
     Becomes
<1>3. \A s \in Sessions : call'[s] = call[s]
  BY <1>2, CallersAssumption DEF Callers
<1>4. QED
  BY <1>1, <1>3, QuietStepKeepsDiskInv DEF DiskInv, At

LEMMA CallStepKeepsDiskInv ==
  ASSUME CallsInv, DiskInv, NEW c \in Callers, CallStep(c)
  PROVE  DiskInv'
<1>1. UNCHANGED <<worktree, drifts>> /\ artifact' \in {artifact, NoHash}
  BY LedgerDropsOrKeeps DEF CallStep, CheckExecuted, CheckRecorded,
     AssertionBegins, AssertionFails, NothingToDo, CallFails, RecordCheckRun,
     files, vars
<1>2. \A d \in Callers \ {c} : call'[d] = call[d]
  BY DEF CallsInv, CallStep, CheckExecuted, CheckRecorded, AssertionBegins,
     AssertionFails, NothingToDo, CallFails, Ends, Begins, Becomes
<1>3. call'[c].at \notin {"renaming", "submitting"}
  <2>1. call[c] \in Call
    BY DEF CallsInv, GoodCall
  <2>2. \A r : Begins(c, r) \/ Becomes(c, r) => call'[c] = r
    BY DEF Begins, Becomes, CallsInv
  <2>3. CASE CheckExecuted(c)
    <3>1. call'[c] = [call[c] EXCEPT !.at = "recording", !.seen = {worktree},
                                     !.ran = call[c].seen]
      BY <2>2, <2>3 DEF CheckExecuted
    <3>2. QED
      BY <2>1, <3>1 DEF Call
  <2>4. CASE CheckRecorded(c)
    <3>1. call'[c] = Confirming(c) \/ call'[c] = Idle
      BY <2>2, <2>4 DEF CheckRecorded, Ends
    <3>2. Confirming(c).at = "confirming"
      BY <2>1 DEF Confirming, Call
    <3>3. Idle.at = "none"
      BY DEF Idle
    <3>4. QED
      BY <3>1, <3>2, <3>3
  <2>5. CASE AssertionBegins(c)
    <3>1. call'[c] = [Idle EXCEPT !.at = "asserting", !.seen = {worktree},
                                  !.known = artifact,
                                  !.active = (goalState \in ActiveStates)]
      BY <2>2, <2>5 DEF AssertionBegins
    <3>2. ASSUME NEW b
          PROVE  [Idle EXCEPT !.at = "asserting", !.seen = {worktree},
                              !.known = artifact, !.active = b].at = "asserting"
      BY DEF Idle
    <3>3. QED
      BY <3>1, <3>2
  <2>6. CASE AssertionFails(c) \/ NothingToDo(c) \/ CallFails(c)
    BY <2>2, <2>6 DEF AssertionFails, NothingToDo, CallFails, Ends, Idle
  <2>7. QED
    BY <2>3, <2>4, <2>5, <2>6 DEF CallStep
<1>4. QED
  BY <1>1, <1>2, <1>3, QuietStepKeepsDiskInv DEF DiskInv, At, Callers

LEMMA SessionKeepsDiskInv ==
  ASSUME DiskInv, NEW s \in Sessions, SessionStep(s)
  PROVE  DiskInv'
<1>1. UNCHANGED <<worktree, drifts, call>>
  BY DEF SessionStep, SessionOpens, Dispatch, TurnEnds, Crashes, ExitsCleanly,
     Cancel, CancelledSessionExits, RollbackBegins, RollbackEnds, files
<1>2. artifact' \in {artifact, NoHash}
  BY LedgerDropsOrKeeps DEF SessionStep, SessionOpens, Dispatch, TurnEnds,
     Crashes, ExitsCleanly, Cancel, CancelledSessionExits, RollbackBegins,
     RollbackEnds, GoalStates, vars
<1>3. QED
  BY <1>1, <1>2, QuietStepKeepsDiskInv DEF DiskInv, At

LEMMA DiskInvStep ==
  ASSUME CallsInv, OnlyOpenedCall, OneAttempt, DiskInv, drifts' = 0,
         [PipelineNext]_pipelineVars
  PROVE  DiskInv'
<1>1. ASSUME NEW s \in Sessions, ProducerStep(s) \/ SessionStep(s)
      PROVE  DiskInv'
  BY <1>1, MoverIsAlone, ProducerKeepsDiskInv, SessionKeepsDiskInv
<1>2. ASSUME NEW v \in Inspectors, InspectorStep(v) PROVE DiskInv'
  BY <1>2, InspectorKeepsDiskInv
<1>3. ASSUME NEW c \in Callers, CallStep(c) PROVE DiskInv'
  BY <1>3, CallStepKeepsDiskInv
<1>4. CASE CompletionAccepted
  <2>1. UNCHANGED <<artifact, worktree, drifts>>
    BY <1>4, LedgerDropsOrKeeps DEF CompletionAccepted, files
  <2>2. \A s \in Sessions : call'[s] = call[s]
    BY <1>4, CallersAssumption DEF CompletionAccepted, Ends, Becomes, CallsInv,
       Callers
  <2>3. QED
    BY <2>1, <2>2, QuietStepKeepsDiskInv DEF DiskInv, At
<1>5. CASE Retry \/ RollbackAtOnce \/ LedgerStep
  <2>1. UNCHANGED <<worktree, drifts, call>> /\ artifact' \in {artifact, NoHash}
    BY <1>5, LedgerDropsOrKeeps DEF Retry, RollbackAtOnce, LedgerStep, files
  <2>2. QED
    BY <2>1, QuietStepKeepsDiskInv DEF DiskInv, At
<1>6. CASE Drift
  BY <1>6 DEF Drift, DiskInv
<1>7. CASE UNCHANGED pipelineVars
  BY <1>7 DEF pipelineVars, vars, DiskInv, At
<1>8. QED
  BY <1>1, <1>2, <1>3, <1>4, <1>5, <1>6, <1>7 DEF PipelineNext

\* What holds early: in the first attempt, before an edit from outside.
EarlyDiskInv == OneAttempt /\ drifts = 0 => DiskInv

LEMMA EarlyDiskInvStep ==
  ASSUME CallsInv, OnlyOpenedCall, EarlyDiskInv, [PipelineNext]_pipelineVars
  PROVE  EarlyDiskInv'
<1> SUFFICES ASSUME OneAttempt', drifts' = 0 PROVE DiskInv'
  BY DEF EarlyDiskInv
<1>1. OneAttempt
  BY FirstAttemptWas
<1>2. drifts = 0
  BY OnlyEditsAreCounted DEF OnlyOpenedCall
<1>3. QED
  BY <1>1, <1>2, DiskInvStep DEF EarlyDiskInv

\* During the first attempt, and until an edit from outside, the attached
\* identity is that of the worktree in every state, whoever inspects, cancels,
\* completes or rolls back meanwhile (writeWorkspaceFile drops the identity
\* before it writes, and the frame queue keeps the calls of a session apart).
THEOREM AttachedStaysOnDisk == PipelineSpec => []AttachedIsOnDisk
<1>1. PipelineInit => EarlyDiskInv
  BY DEF PipelineInit, Init, EarlyDiskInv, DiskInv, At, Idle, Callers
<1>2. CallsInv /\ OnlyOpenedCall /\ EarlyDiskInv /\ [PipelineNext]_pipelineVars
        => EarlyDiskInv'
  BY EarlyDiskInvStep
<1>3. EarlyDiskInv => AttachedIsOnDisk
  BY DEF EarlyDiskInv, DiskInv, AttachedIsOnDisk
<1>4. QED
  BY <1>1, <1>2, <1>3, OpenedInvariant, PTL DEF PipelineSpec

-----------------------------------------------------------------------------
(* What an abandoned attempt leaves behind *)

\* No authority is live after a rollback, and an approval request still under
\* way will find that the candidate it asserted is gone.
AbandonInv ==
  goalState = "rolled_back" =>
    /\ \A a \in ApprovalIds : ~IsLive(a)
    /\ \A s \in Sessions : At(s, "asserting") => artifact = NoHash

NoneRevived == \A a \in ApprovalIds : IsLive(a)' => IsLive(a)
NotAbandoned == goalState' = "rolled_back" => goalState = "rolled_back"

\* Losing the candidate for good: nothing live is left.
LEMMA WithoutCandidateNothingLives ==
  ASSUME LedgerInv', artifact' = NoHash
  PROVE  AbandonInv'
BY DEF LedgerInv, LiveApprovalIsCurrent, AbandonInv

LEMMA QuietStepKeepsAbandonInv ==
  ASSUME AbandonInv, NoneRevived, NotAbandoned, artifact' \in {artifact, NoHash},
         \A s \in Sessions :
           At(s, "asserting")' => At(s, "asserting") \/ goalState # "rolled_back"
  PROVE  AbandonInv'
BY DEF AbandonInv, NoneRevived, NotAbandoned

\* Only a request creates live authority, and only a rollback abandons.
LEMMA LedgerRevivesNothing ==
  ASSUME TypeOK
  PROVE  /\ InvalidateArtifact \/ DetectDrift => NoneRevived /\ NotAbandoned
         /\ RetryGoal => NotAbandoned
         /\ CompleteGoal => NoneRevived /\ NotAbandoned
         /\ \A h \in Hashes : AttachArtifact(h) => NoneRevived /\ NotAbandoned
         /\ \A g \in GoalStates : TransitionGoal(g) => NoneRevived /\ NotAbandoned
         /\ LedgerStep => NoneRevived /\ NotAbandoned
<1>1. UNCHANGED approvals => NoneRevived
  BY DEF NoneRevived, IsLive
<1>2. approvals' = StripApprovals => NoneRevived
  BY StripApprovalsFacts DEF NoneRevived, IsLive
<1>3. Invalidation => NoneRevived
  BY <1>1, <1>2 DEF Invalidation
<1>4. \A h \in Hashes : AttachArtifact(h) => NoneRevived /\ NotAbandoned
  BY <1>1, <1>2 DEF AttachArtifact, NotAbandoned
<1>5. \A g \in GoalStates : TransitionGoal(g) => NoneRevived /\ NotAbandoned
  BY <1>1 DEF TransitionGoal, NotAbandoned
<1>6. LedgerStep => NoneRevived /\ NotAbandoned
  <2> SUFFICES ASSUME LedgerStep PROVE NoneRevived /\ NotAbandoned
    OBVIOUS
  <2>1. UNCHANGED goalState
    BY DEF LedgerStep, SubmitEvidence, RecordGate, Decide, ExpireAuthorizations,
           Tick
  <2>2. CASE UNCHANGED approvals
    BY <1>1, <2>1, <2>2 DEF NotAbandoned
  <2>3. CASE \E a \in ApprovalIds, d \in {"approved", "rejected"} : Decide(a, d)
    <3>1. NoneRevived
      BY <2>3 DEF Decide, TypeOK, NoneRevived, IsLive, LiveStatus
    <3>2. QED
      BY <2>1, <3>1 DEF NotAbandoned
  <2>4. CASE ExpireAuthorizations
    <3>1. NoneRevived
      BY <2>4 DEF ExpireAuthorizations, TypeOK, ApprovalRow, NoneRevived, IsLive,
         Lapsed
    <3>2. QED
      BY <2>1, <3>1 DEF NotAbandoned
  <2>5. QED
    BY <2>2, <2>3, <2>4 DEF LedgerStep, SubmitEvidence, RecordGate, Tick
<1>7. QED
  BY <1>1, <1>3, <1>4, <1>5, <1>6 DEF InvalidateArtifact, DetectDrift, RetryGoal,
     CompleteGoal, NotAbandoned

LEMMA ProducerKeepsAbandonInv ==
  ASSUME TypeOK, CallsInv, AbandonInv, NEW s \in Sessions, Alone(s),
         ProducerStep(s)
  PROVE  AbandonInv'
<1>0. s \in Callers /\ call \in [Callers -> GoodCall]
  BY DEF Callers, CallsInv
<1>. \A t \in Sessions \ {s} : call'[t].at = "none"
  BY ProducerMovesItself DEF Alone, At
<1>1. CASE SubmitAttaches(s)
  <2>1. NoneRevived /\ NotAbandoned
    BY <1>1, LedgerRevivesNothing DEF SubmitAttaches, Identities
  <2>2. call'[s].at = "none"
    BY <1>0, <1>1 DEF SubmitAttaches, Ends, Becomes, Idle
  <2>3. QED
    BY <2>1, <2>2 DEF AbandonInv, NoneRevived, NotAbandoned, At
<1>2. CASE ApprovalRequested(s)
  <2>1. artifact # NoHash /\ UNCHANGED goalState
    BY <1>2 DEF ApprovalRequested, RequestApproval
  <2>2. goalState # "rolled_back"
    BY <1>2, <2>1 DEF ApprovalRequested, AssertionHolds, AbandonInv
  <2>3. QED
    BY <2>1, <2>2 DEF AbandonInv
<1>3. CASE WriteInvalidates(s)
  <2>1. NoneRevived /\ NotAbandoned /\ artifact' = NoHash
    BY <1>3, LedgerRevivesNothing, LedgerDropsOrKeeps DEF WriteInvalidates
  <2>2. QED
    BY <2>1 DEF AbandonInv, NoneRevived, NotAbandoned
<1>4. CASE WriteLands(s)
  <2>1. call' = [Observed(worktree') EXCEPT ![s] = [Idle EXCEPT !.at = "settling"]]
    BY <1>4 DEF WriteLands
  <2>2. call'[s].at = "settling"
    <3>1. DOMAIN Observed(worktree') = Callers
      BY DEF Observed
    <3>2. QED
      BY <1>0, <2>1, <3>1 DEF Idle
  <2>3. UNCHANGED <<goalState, artifact, approvals>>
    BY <1>4 DEF WriteLands, vars
  <2>4. QED
    BY <2>2, <2>3 DEF AbandonInv, IsLive, At
<1>5. CASE \/ PatchBegins(s) \/ WriteBegins(s) \/ WriteSettles(s)
           \/ SubmitBegins(s) \/ \E l \in Labels : ProducerCheckBegins(s, l)
  <2>1. UNCHANGED <<goalState, artifact, approvals>>
    BY <1>5 DEF PatchBegins, WriteBegins, WriteSettles, SubmitBegins,
       ProducerCheckBegins, vars
  <2>2. call'[s].at # "asserting"
    <3>1. CASE PatchBegins(s) \/ WriteBegins(s)
      BY <1>0, <3>1 DEF PatchBegins, WriteBegins, Begins, Becomes, Idle
    <3>2. CASE WriteSettles(s)
      BY <1>0, <3>2 DEF WriteSettles, Ends, Becomes, Idle
    <3>3. CASE SubmitBegins(s)
      BY <1>0, <3>3 DEF SubmitBegins, Begins, Idle
    <3>4. ASSUME NEW l \in Labels, ProducerCheckBegins(s, l)
          PROVE  call'[s].at = "executing"
      BY <1>0, <3>4 DEF ProducerCheckBegins, Begins, Idle
    <3>5. QED
      BY <1>5, <3>1, <3>2, <3>3, <3>4
  <2>3. QED
    BY <2>1, <2>2 DEF AbandonInv, IsLive, At
<1>6. QED
  BY <1>1, <1>2, <1>3, <1>4, <1>5 DEF ProducerStep

LEMMA InspectorKeepsAbandonInv ==
  ASSUME TypeOK, CallsInv, AbandonInv, NEW v \in Inspectors, InspectorStep(v)
  PROVE  AbandonInv'
<1>1. artifact' \in {artifact, NoHash}
  BY LedgerDropsOrKeeps DEF InspectorStep, InspectionBegins,
     InspectionGoesAhead, InspectionFindsDrift, FilesRead, Confirmed,
     NotConfirmed, vars
<1>2. UNCHANGED vars => NoneRevived /\ NotAbandoned
  BY DEF vars, NoneRevived, NotAbandoned, IsLive
<1>3. NoneRevived /\ NotAbandoned
  BY <1>2, LedgerRevivesNothing DEF InspectorStep, InspectionBegins,
     InspectionGoesAhead, InspectionFindsDrift, FilesRead, Confirmed,
     NotConfirmed
<1>4. \A c \in Callers \ {v} : call'[c] = call[c]
  BY DEF CallsInv, InspectorStep, InspectionBegins, InspectionGoesAhead,
     InspectionFindsDrift, FilesRead, Confirmed, NotConfirmed, Ends, Begins,
     Becomes
<1>5. \A s \in Sessions : call'[s] = call[s]
  BY <1>4, CallersAssumption DEF Callers
<1>6. QED
  BY <1>1, <1>3, <1>5, QuietStepKeepsAbandonInv DEF At

LEMMA CallStepKeepsAbandonInv ==
  ASSUME TypeOK, CallsInv, AbandonInv, NEW c \in Callers, CallStep(c)
  PROVE  AbandonInv'
<1>1. artifact' \in {artifact, NoHash}
  BY LedgerDropsOrKeeps DEF CallStep, CheckExecuted, CheckRecorded,
     AssertionBegins, AssertionFails, NothingToDo, CallFails, RecordCheckRun,
     vars
<1>2. UNCHANGED <<goalState, approvals>> => NoneRevived /\ NotAbandoned
  BY DEF NoneRevived, NotAbandoned, IsLive
<1>3. NoneRevived /\ NotAbandoned
  BY <1>2, LedgerRevivesNothing DEF CallStep, CheckExecuted, CheckRecorded,
     AssertionBegins, AssertionFails, NothingToDo, CallFails, RecordCheckRun,
     vars
<1>4. \A d \in Callers \ {c} : call'[d] = call[d]
  BY DEF CallsInv, CallStep, CheckExecuted, CheckRecorded, AssertionBegins,
     AssertionFails, NothingToDo, CallFails, Ends, Begins, Becomes
<1>5. ASSUME c \in Sessions, At(c, "asserting")'
      PROVE  At(c, "asserting") \/ goalState # "rolled_back"
  <2>1. CASE AssertionBegins(c)
    BY <1>5, <2>1, CallersAssumption DEF AssertionBegins, MayCall
  <2>2. \A r : Becomes(c, r) => call'[c] = r
    BY DEF Becomes, CallsInv
  <2>3. call[c] \in Call
    BY DEF CallsInv, GoodCall
  <2>4. CASE CheckExecuted(c)
    <3>1. call'[c] = [call[c] EXCEPT !.at = "recording", !.seen = {worktree},
                                     !.ran = call[c].seen]
      BY <2>2, <2>4 DEF CheckExecuted
    <3>2. QED
      BY <1>5, <2>3, <3>1 DEF Call, At
  <2>5. CASE CheckRecorded(c)
    <3>1. call'[c] = Idle
      BY <1>5, <2>2, <2>5, CallersAssumption DEF CheckRecorded, Ends
    <3>2. QED
      BY <1>5, <3>1 DEF At, Idle
  <2>6. CASE AssertionFails(c) \/ NothingToDo(c) \/ CallFails(c)
    BY <1>5, <2>2, <2>6 DEF AssertionFails, NothingToDo, CallFails, Ends, Idle, At
  <2>7. QED
    BY <2>1, <2>4, <2>5, <2>6 DEF CallStep
<1>6. QED
  BY <1>1, <1>3, <1>4, <1>5, QuietStepKeepsAbandonInv DEF At, Callers

LEMMA RollbackEndsAuthority ==
  ASSUME LedgerInv', RollbackOfLedger
  PROVE  AbandonInv'
BY LedgerDropsOrKeeps, WithoutCandidateNothingLives

LEMMA SessionKeepsAbandonInv ==
  ASSUME TypeOK, LedgerInv', AbandonInv, NEW s \in Sessions, SessionStep(s)
  PROVE  AbandonInv'
<1>1. CASE RollbackEnds(s)
  BY <1>1, RollbackEndsAuthority DEF RollbackEnds
<1>2. CASE ~RollbackEnds(s)
  <2>1. \/ UNCHANGED vars
        \/ \E g \in GoalStates : TransitionGoal(g)
    BY <1>2 DEF SessionStep, SessionOpens, Dispatch, TurnEnds, Crashes,
       ExitsCleanly, Cancel, CancelledSessionExits, RollbackBegins, GoalStates
  <2>2. UNCHANGED call
    BY <1>2 DEF SessionStep, SessionOpens, Dispatch, TurnEnds, Crashes,
       ExitsCleanly, Cancel, CancelledSessionExits, RollbackBegins
  <2>3. UNCHANGED vars => NoneRevived /\ NotAbandoned /\ UNCHANGED artifact
    BY DEF vars, NoneRevived, NotAbandoned, IsLive
  <2>4. NoneRevived /\ NotAbandoned /\ UNCHANGED artifact
    BY <2>1, <2>3, LedgerRevivesNothing, LedgerDropsOrKeeps
  <2>5. QED
    BY <2>2, <2>4, QuietStepKeepsAbandonInv DEF At
<1>3. QED
  BY <1>1, <1>2

LEMMA AbandonInvStep ==
  ASSUME LedgerInv, LedgerInv', CallsInv, OnlyOpenedCall, OneAttempt,
         AbandonInv, [PipelineNext]_pipelineVars
  PROVE  AbandonInv'
<1>0. TypeOK
  BY DEF LedgerInv
<1>1. ASSUME NEW s \in Sessions, ProducerStep(s) \/ SessionStep(s)
      PROVE  AbandonInv'
  BY <1>0, <1>1, MoverIsAlone, ProducerKeepsAbandonInv, SessionKeepsAbandonInv
<1>2. ASSUME NEW v \in Inspectors, InspectorStep(v) PROVE AbandonInv'
  BY <1>0, <1>2, InspectorKeepsAbandonInv
<1>3. ASSUME NEW c \in Callers, CallStep(c) PROVE AbandonInv'
  BY <1>0, <1>3, CallStepKeepsAbandonInv
<1>4. CASE CompletionAccepted
  <2>1. NoneRevived /\ NotAbandoned /\ UNCHANGED artifact
    BY <1>0, <1>4, LedgerRevivesNothing, LedgerDropsOrKeeps DEF CompletionAccepted
  <2>2. \A s \in Sessions : call'[s] = call[s]
    BY <1>4, CallersAssumption DEF CompletionAccepted, Ends, Becomes, CallsInv,
       Callers
  <2>3. QED
    BY <2>1, <2>2, QuietStepKeepsAbandonInv DEF At
<1>5. CASE Retry
  BY <1>5, LedgerDropsOrKeeps, WithoutCandidateNothingLives DEF Retry
<1>6. CASE RollbackAtOnce
  BY <1>6, RollbackEndsAuthority DEF RollbackAtOnce
<1>7. CASE LedgerStep
  BY <1>0, <1>7, LedgerRevivesNothing, LedgerDropsOrKeeps,
     QuietStepKeepsAbandonInv DEF LedgerStep, At
<1>8. CASE Drift
  <2>1. UNCHANGED <<goalState, artifact, approvals>>
    BY <1>8 DEF Drift, vars
  <2>2. \A s \in Sessions : call'[s].at = call[s].at
    BY <1>8 DEF Drift, Observed, CallsInv, GoodCall, Call, Callers
  <2>3. QED
    BY <2>1, <2>2 DEF AbandonInv, IsLive, At
<1>9. CASE UNCHANGED pipelineVars
  BY <1>9 DEF pipelineVars, vars, AbandonInv, IsLive, At
<1>10. QED
  BY <1>1, <1>2, <1>3, <1>4, <1>5, <1>6, <1>7, <1>8, <1>9 DEF PipelineNext

\* However a rollback overlaps the calls of a first attempt, no approval of the
\* goal is pending or approved once it is rolled back.
THEOREM AbandonedLeavesNoAuthority == PipelineSpec => []AbandonedHasNoAuthority
<1> DEFINE EarlyAbandonInv == OneAttempt => AbandonInv
<1>1. PipelineInit => EarlyAbandonInv
  BY DEF PipelineInit, Init, AbandonInv
<1>2. LedgerInv /\ LedgerInv' /\ CallsInv /\ OnlyOpenedCall /\ EarlyAbandonInv
        /\ [PipelineNext]_pipelineVars => EarlyAbandonInv'
  BY AbandonInvStep, FirstAttemptWas
<1>3. EarlyAbandonInv => AbandonedHasNoAuthority
  BY DEF AbandonInv, AbandonedHasNoAuthority
<1> HIDE DEF EarlyAbandonInv
<1>4. QED
  BY <1>1, <1>2, <1>3, PipelineInvariant, OpenedInvariant, PTL DEF PipelineSpec
=============================================================================
