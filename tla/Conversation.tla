---------------------------- MODULE Conversation ----------------------------
(***************************************************************************)
(* Agents that work on their goals in turns, delegate, and write to each   *)
(* other through the controller (omp-supervisor.ts and the                 *)
(* host tools of host-tools.ts).  A prompt is a request to                 *)
(* the recipient's OMP process, whose answer comes back through the        *)
(* recipient's serial queue of frames; the tool call of the sender waits   *)
(* for it inside the sender's own queue.  The start of a session up to its *)
(* first prompt is one step here (SessionSupervisor has its steps).        *)
(***************************************************************************)
EXTENDS Delegation, Sequences

CONSTANTS
  Asks,          \* what each agent may ask for over time, any of it left out
  Commissioned,  \* the agents the owner gives goals to, and their authority
  MaxMessages,   \* bound: prompts, as many as the agents and the owner can send
  Addressees,    \* the agents the owner may write to once in a conversation
  MaxCrashes     \* bound: OMP processes that ever die by themselves

VARIABLES
  session,    \* LiveSession.state, "none" before and "exited" after
  awaited,    \* pendingChildGoalIds
  defer,      \* deferCurrentOutcome
  call,       \* the host tool call whose handler is under way, or None
  messages,   \* the prompts, in the order of their creation
  stdin,      \* the prompts written to each OMP process, not yet read
  frames,     \* the frames of each OMP process, not yet handled
  omp,        \* each OMP process: "idle", "turn", "calling" or "dead"
  followUps,  \* how many prompts it keeps for after its turn
  written,    \* the agents the owner has written to
  asked,      \* how far it is in what it asks for
  crashes,    \* OMP processes that died by themselves
  owed,       \* the children each agent has started that have not reported
  lost        \* the report of an awaited child could not be delivered

sessionVars == <<session, awaited, defer, call>>
postVars == <<messages, stdin>>
budgetVars == <<written, asked, crashes>>
ompVars == <<frames, omp, followUps, budgetVars>>
historyVars == <<owed, lost>>
conversationVars == <<goalVars, sessionVars, postVars, ompVars, historyVars>>

\* A prompt whose request has no answer yet, with the awaited child whose
\* report it is; one that is settled.
Messages == [status : {"queued"}, to : Agents, first : BOOLEAN,
             reopened : {None, "waiting_input", "verifying"}, report : Agents \cup {None}]
              \cup [status : {"delivered", "failed"}]

\* The calls of host tools.
Tools ==
  [tool : {"create_child_goal", "start_child_agent", "send_agent_message"}, target : Agents]
    \cup [tool : {"request_verification"}, target : Agents, subject : Agents]
    \cup [tool : {"submit_candidate"}]

\* A handler that waits for the answer to a prompt.
Waits == [tool : {"start_child_agent", "send_agent_message"}, target : Agents, message : Nat]

\* The public output of a turn (message_end) is handled with its end.
Frames == [kind : {"agent_start", "ui_request"}]
            \cup [kind : {"agent_end"}, output : BOOLEAN]
            \cup [kind : {"response"}, message : Nat, accepted : BOOLEAN]
            \cup [kind : {"call"}, asks : Tools]

ASSUME EnvironmentAssumption ==
  /\ Asks \in [Agents -> Seq(Tools \cup [tool : {"input"}])]
  /\ Commissioned \subseteq Agents \X {"none", "isolated_repository"}
  /\ MaxMessages \in Nat

Live(a) == session[a] \in {"ready", "streaming"}

ConversationTypeOK ==
  /\ DelegationTypeOK
  /\ session \in [Agents -> {"none", "ready", "streaming", "exited"}]
  /\ awaited \in [Agents -> SUBSET Agents]
  /\ defer \in [Agents -> BOOLEAN]
  /\ call \in [Agents -> {None} \cup Waits]
  /\ messages \in Seq(Messages) /\ Len(messages) <= MaxMessages
  /\ stdin \in [Agents -> Seq([message : Nat, follows : BOOLEAN])]
  /\ frames \in [Agents -> Seq(Frames)]
  /\ omp \in [Agents -> {"idle", "turn", "calling", "dead"}]
  /\ followUps \in [Agents -> Nat]
  /\ asked \in [Agents -> Nat]

ConversationInit ==
  /\ DelegationInit
  /\ session = [a \in Agents |-> "none"]
  /\ awaited = [a \in Agents |-> {}]
  /\ defer = [a \in Agents |-> FALSE]
  /\ call = [a \in Agents |-> None]
  /\ messages = <<>>
  /\ stdin = [a \in Agents |-> <<>>]
  /\ frames = [a \in Agents |-> <<>>]
  /\ omp = [a \in Agents |-> "idle"]
  /\ followUps = [a \in Agents |-> 0]
  /\ written = {}
  /\ asked = [a \in Agents |-> 0]
  /\ crashes = 0
  /\ owed = [a \in Agents |-> {}]
  /\ lost = FALSE

-----------------------------------------------------------------------------
(* Prompts *)

\* The repository-bound: a follow-up may not reopen their goal.
Bound(a) == a \in Writers /\ scope[a] = "isolated_repository"

Id == Len(messages) + 1
Open == {m \in DOMAIN messages : messages[m].status = "queued"}
OpenTo(a) == {m \in Open : messages[m].to = a}

\* createMessage, and the request written to the recipient's process.
Post(a, first, reopened, report) ==
  /\ Len(messages) < MaxMessages
  /\ messages' = Append(messages, [status |-> "queued", to |-> a, first |-> first,
                                   reopened |-> reopened, report |-> report])
  /\ stdin' = [stdin EXCEPT ![a] =
       Append(@, [message |-> Id, follows |-> session[a] = "streaming"])]

\* startBoundGoal and dispatchGoal up to the request of the first prompt.
Launch(a) ==
  /\ goal[a] = "draft" /\ session[a] = "none"
  /\ goal' = [goal EXCEPT ![a] = "running"]
  /\ session' = [session EXCEPT ![a] = "ready"]
  /\ Post(a, TRUE, None, None)
  /\ UNCHANGED <<parent, scope, artifact>>

\* ... or supervisor.start fails.
LaunchFails(a) ==
  /\ goal[a] = "draft"
  /\ goal' = [goal EXCEPT ![a] = "failed"]
  /\ UNCHANGED <<parent, scope, artifact>>

\* Mutant of MayFollowUp: only the repository-bound are held to their state.
MayFollowUpAnyway(a) == goal[a] = "running" \/ ~Bound(a)

\* submitPrompt accepts: the goal is running, or goes back to running.
MayFollowUp(a) ==
  \/ goal[a] = "running"
  \/ goal[a] \in {"waiting_input", "verifying"} /\ ~Bound(a)

\* submitPrompt up to the request.
FollowUp(a, report) ==
  /\ MayFollowUp(a)
  /\ Post(a, FALSE, IF goal[a] = "running" THEN None ELSE goal[a], report)
  /\ goal' = [goal EXCEPT ![a] = "running"]
  /\ UNCHANGED <<parent, scope, artifact>>

\* Some prompts fail.  An undelivered report is lost for the turn that made
\* room for it.
Fail(failing) ==
  /\ messages' = [m \in DOMAIN messages |->
       IF m \in failing THEN [status |-> "failed"] ELSE messages[m]]
  /\ lost' = (lost \/ \E m \in failing : messages[m].report # None)

\* The session of a is over: its process, its requests, its frames.
SessionEnds(a) ==
  /\ session' = [session EXCEPT ![a] = "exited"]
  /\ omp' = [omp EXCEPT ![a] = "dead"]
  /\ stdin' = [stdin EXCEPT ![a] = <<>>]
  /\ frames' = [frames EXCEPT ![a] = <<>>]
  /\ followUps' = [followUps EXCEPT ![a] = 0]
  /\ awaited' = [awaited EXCEPT ![a] = {}]
  /\ defer' = [defer EXCEPT ![a] = FALSE]
  /\ call' = [call EXCEPT ![a] = None]
  /\ owed' = [b \in Agents |-> IF b = a THEN {} ELSE owed[b] \ {a}]
  /\ Fail(OpenTo(a))

-----------------------------------------------------------------------------
(* The owner *)

OwnerCreates(a, authority) ==
  /\ CreateOwnerGoal(a, authority)
  /\ UNCHANGED <<sessionVars, postVars, ompVars, historyVars>>

OwnerStarts(a) ==
  /\ \/ /\ Launch(a)
     \/ /\ LaunchFails(a)
        /\ UNCHANGED <<session, postVars>>
  /\ UNCHANGED <<awaited, defer, call, ompVars, historyVars>>

\* sendInteractiveMessage.
OwnerWrites(a) ==
  /\ Live(a) /\ a \notin Writers /\ a \in Addressees \ written
  /\ written' = written \cup {a}
  /\ FollowUp(a, None)
  /\ UNCHANGED <<session, awaited, defer, call, frames, omp, followUps, asked, crashes, historyVars>>

\* completeGoal of a read-only goal with a durable outcome: the session ends.
OwnerCompletes(a) ==
  /\ goal[a] = "verifying" /\ artifact[a] /\ scope[a] = "none"
  /\ goal' = [goal EXCEPT ![a] = "complete"]
  /\ SessionEnds(a)
  /\ UNCHANGED <<parent, scope, artifact, budgetVars>>

OwnerCancels(a) ==
  /\ Live(a)
  /\ goal' = [goal EXCEPT ![a] = IF @ \in ActiveStates \cup {"blocked"} THEN "cancelled" ELSE @]
  /\ SessionEnds(a)
  /\ UNCHANGED <<parent, scope, artifact, budgetVars>>

-----------------------------------------------------------------------------
(* The answer to a prompt *)

\* submitPrompt's catch and that of relayReadOnlyMessage: the goal is as it
\* was before the follow-up that reopened it, and a report that could not be
\* delivered is awaited again.  deferCurrentOutcome stays as it is.
Unsettled(m) ==
  LET a == messages[m].to
  IN /\ Fail({m})
     /\ goal' = [goal EXCEPT ![a] =
          IF @ = "running" /\ messages[m].reopened # None THEN messages[m].reopened ELSE @]
     /\ LET report == {messages[m].report} \ {None}
        IN /\ awaited' = [awaited EXCEPT ![a] = @ \cup report]
           /\ owed' = [owed EXCEPT ![a] = @ \cup report]

\* A follow-up fails; what else becomes of the frames is up to the caller.
FollowUpFails(m) ==
  /\ ~messages[m].first
  /\ Unsettled(m)
  /\ UNCHANGED <<session, defer, call, stdin, omp, followUps>>

\* A first prompt fails, which ends the session it was for.
FirstPromptFails(m) ==
  LET a == messages[m].to
  IN /\ messages[m].first
     /\ goal' = [goal EXCEPT ![a] = IF @ \in ActiveStates THEN "cancelled" ELSE @]
     /\ SessionEnds(a)

\* Mutant of TimesOut: the timer is looked at between two frames.
TimesOutBetweenFrames(m) ==
  /\ m \in Open
  /\ \A a \in Agents : call[a] # None => call[a].message # m
  /\ \/ FollowUpFails(m) /\ UNCHANGED frames
     \/ FirstPromptFails(m)
  /\ UNCHANGED <<parent, scope, artifact, budgetVars>>

\* The timer of the request.
TimesOut(m) ==
  /\ m \in Open
  /\ \/ FollowUpFails(m) /\ UNCHANGED frames
     \/ FirstPromptFails(m)
  /\ UNCHANGED <<parent, scope, artifact, budgetVars>>

\* The next frame of a's queue is handled: no handler is under way.
Handles(a, kind) == Live(a) /\ call[a] = None /\ frames[a] # <<>> /\ Head(frames[a]).kind = kind
Popped(a) == frames' = [frames EXCEPT ![a] = Tail(@)]

\* A response that comes after the timer is dropped.
HandlesResponse(a) ==
  /\ Handles(a, "response")
  /\ LET f == Head(frames[a])
     IN \/ /\ f.message \notin Open
           /\ Popped(a)
           /\ UNCHANGED <<goal, sessionVars, postVars, omp, followUps, owed, lost>>
        \/ /\ f.message \in Open /\ f.accepted
           /\ Popped(a)
           /\ messages' = [messages EXCEPT ![f.message] = [status |-> "delivered"]]
           /\ UNCHANGED <<goal, sessionVars, stdin, omp, followUps, owed, lost>>
        \/ /\ f.message \in Open /\ ~f.accepted
           /\ FollowUpFails(f.message)
           /\ Popped(a)
        \/ /\ f.message \in Open /\ ~f.accepted
           /\ FirstPromptFails(f.message)
  /\ UNCHANGED <<parent, scope, artifact, budgetVars>>

-----------------------------------------------------------------------------
(* The frames of a turn *)

HandlesStart(a) ==
  /\ Handles(a, "agent_start")
  /\ Popped(a)
  /\ session' = [session EXCEPT ![a] = "streaming"]
  /\ UNCHANGED <<goalVars, awaited, defer, call, postVars, omp, followUps, budgetVars, historyVars>>

\* The request for input is declined, and the goal waits.
HandlesUiRequest(a) ==
  /\ Handles(a, "ui_request")
  /\ Popped(a)
  /\ goal' = [goal EXCEPT ![a] = IF @ = "running" THEN "waiting_input" ELSE @]
  /\ UNCHANGED <<parent, scope, artifact, sessionVars, postVars, omp, followUps, budgetVars, historyVars>>

\* Mutant of GoalAfterTurn: a turn without a candidate leaves the goal as it is.
GoalAfterTurnLenient(a, output) ==
  CASE defer[a] -> goal[a]
    [] ~defer[a] /\ awaited[a] # {} -> "waiting_input"
    [] ~defer[a] /\ awaited[a] = {} ->
         IF artifact[a] \/ (scope[a] = "none" /\ output) THEN "verifying" ELSE "running"

\* What becomes of a running goal at the end of a turn.
GoalAfterTurn(a, output) ==
  CASE defer[a] -> goal[a]
    [] ~defer[a] /\ awaited[a] # {} -> "waiting_input"
    [] ~defer[a] /\ awaited[a] = {} ->
         IF artifact[a] \/ (scope[a] = "none" /\ output) THEN "verifying" ELSE "blocked"

\* Mutant of HasOutcome: the reports that are awaited are not looked at.
HasOutcomeAnyway(a, output) == ~defer[a] /\ scope[a] = "none" /\ output

\* The output of a read-only goal is its outcome, unless a report is awaited
\* or about to be reconciled.
HasOutcome(a, output) == ~defer[a] /\ awaited[a] = {} /\ scope[a] = "none" /\ output

HandlesEnd(a) ==
  /\ Handles(a, "agent_end")
  /\ Popped(a)
  /\ session' = [session EXCEPT ![a] = "ready"]
  /\ defer' = [defer EXCEPT ![a] = FALSE]
  /\ LET output == Head(frames[a]).output
     IN /\ artifact' = [artifact EXCEPT ![a] = @ \/ HasOutcome(a, output)]
        /\ goal' = [goal EXCEPT ![a] = IF @ = "running" THEN GoalAfterTurn(a, output) ELSE @]
  /\ UNCHANGED <<parent, scope, awaited, call, postVars, omp, followUps, budgetVars, historyVars>>

-----------------------------------------------------------------------------
(* Host tools *)

\* execute's look at the role contract.
MayUse(a, tool) ==
  /\ tool \in {"create_child_goal", "start_child_agent", "request_verification"} => a \in Delegators
  /\ tool = "submit_candidate" => a \in Writers

\* handleHostToolCall's two conditions, and that one.
MayCall(a, tool) == session[a] = "streaming" /\ goal[a] = "running" /\ MayUse(a, tool)

Asked(a) == Head(frames[a]).asks
HandlesCall(a, tool) == Handles(a, "call") /\ Asked(a).tool = tool
Calls(a, tool) == HandlesCall(a, tool) /\ MayCall(a, tool)

\* The tool has its result at once, and the agent's turn goes on.
Answers(a) ==
  /\ Popped(a)
  /\ omp' = [omp EXCEPT ![a] = IF @ = "calling" THEN "turn" ELSE @]
  /\ UNCHANGED <<followUps, budgetVars>>

CallCreates(a) ==
  /\ Calls(a, "create_child_goal")
  /\ CreateChildGoal(a, Asked(a).target)
  /\ Answers(a)
  /\ UNCHANGED <<sessionVars, postVars, historyVars>>

CallRequestsVerification(a) ==
  /\ Calls(a, "request_verification")
  /\ CreateVerificationGoal(a, Asked(a).subject, Asked(a).target)
  /\ Answers(a)
  /\ UNCHANGED <<sessionVars, postVars, historyVars>>

CallSubmits(a) ==
  /\ Calls(a, "submit_candidate") /\ Bound(a)
  /\ artifact' = [artifact EXCEPT ![a] = TRUE]
  /\ Answers(a)
  /\ UNCHANGED <<goal, parent, scope, sessionVars, postVars, historyVars>>

\* start_child_agent: the child is awaited before anything is started, and
\* the handler waits for the answer to the child's first prompt.
CallStarts(a) ==
  LET t == Asked(a).target
  IN /\ Calls(a, "start_child_agent") /\ goal[t] # None /\ MayStart(a, t)
     /\ Launch(t)
     /\ awaited' = [awaited EXCEPT ![a] = @ \cup {t}]
     /\ owed' = [owed EXCEPT ![a] = @ \cup {t}]
     /\ call' = [call EXCEPT ![a] = [tool |-> "start_child_agent", target |-> t, message |-> Id]]
     /\ Popped(a)
     /\ UNCHANGED <<defer, omp, followUps, budgetVars, lost>>

\* Mutant of Unawaited: the catch of handleHostToolCall leaves the set alone.
StillAwaited(a, t) == awaited' = [awaited EXCEPT ![a] = @ \cup {t}]

\* The catch of handleHostToolCall, for start_child_agent.
Unawaited(a, t) == awaited' = [awaited EXCEPT ![a] = @ \ {t}]

\* The child's session does not come up.
CallStartFails(a) ==
  LET t == Asked(a).target
  IN /\ Calls(a, "start_child_agent") /\ MayStart(a, t)
     /\ session[t] = "none"
     /\ LaunchFails(t)
     /\ Unawaited(a, t)
     /\ Answers(a)
     /\ UNCHANGED <<session, defer, call, postVars, historyVars>>

\* The call is not allowed, or there is nothing (any more) to start.
CallStartRefused(a) ==
  LET t == Asked(a).target
  IN /\ HandlesCall(a, "start_child_agent")
     /\ ~MayCall(a, "start_child_agent") \/ ~MayStart(a, t) \/ goal[t] # "draft" \/ session[t] # "none"
     /\ Unawaited(a, t)
     /\ Answers(a)
     /\ UNCHANGED <<goalVars, session, defer, call, postVars, historyVars>>

\* relayReadOnlyMessage, before it looks for an awaited child.
MayRelay(a, t) ==
  /\ t # a /\ Live(t)
  /\ t \notin Writers \cup Verifiers
  /\ GoalsShareRoot(a, t)

\* A report is no longer awaited, and the turn it comes into is not the last.
CallSends(a) ==
  LET t == Asked(a).target
      report == a \in awaited[t]
  IN /\ Calls(a, "send_agent_message") /\ MayRelay(a, t)
     /\ FollowUp(t, IF report THEN a ELSE None)
     /\ awaited' = [awaited EXCEPT ![t] = @ \ {a}]
     /\ owed' = [owed EXCEPT ![t] = @ \ {a}]
     /\ defer' = [defer EXCEPT ![t] = @ \/ (report /\ session[t] = "streaming")]
     /\ call' = [call EXCEPT ![a] = [tool |-> "send_agent_message", target |-> t, message |-> Id]]
     /\ Popped(a)
     /\ UNCHANGED <<session, omp, followUps, budgetVars, lost>>

\* The recipient's goal takes no follow-up: the report is awaited again.
CallSendFails(a) ==
  LET t == Asked(a).target
      report == a \in awaited[t]
  IN /\ Calls(a, "send_agent_message") /\ MayRelay(a, t) /\ ~MayFollowUp(t)
     /\ defer' = [defer EXCEPT ![t] = @ \/ (report /\ session[t] = "streaming")]
     /\ lost' = (lost \/ report)
     /\ Answers(a)
     /\ UNCHANGED <<goalVars, session, awaited, call, postVars, owed>>

\* An agent that has a goal is taken for one that cannot be given another.
CallRefused(a) ==
  /\ Handles(a, "call") /\ Asked(a).tool # "start_child_agent"
  /\ \/ ~MayCall(a, Asked(a).tool)
     \/ /\ Asked(a).tool = "create_child_goal"
        /\ ~MayCreateChild(a, Asked(a).target) \/ goal[Asked(a).target] # None
     \/ /\ Asked(a).tool = "request_verification"
        /\ ~MayRequestVerification(a, Asked(a).subject, Asked(a).target) \/ goal[Asked(a).target] # None
     \/ Asked(a).tool = "submit_candidate" /\ ~Bound(a)
     \/ Asked(a).tool = "send_agent_message" /\ ~MayRelay(a, Asked(a).target)
  /\ Answers(a)
  /\ UNCHANGED <<goalVars, sessionVars, postVars, historyVars>>

\* The handler that waited for an answer has it.
CallReturns(a) ==
  /\ call[a] # None /\ call[a].message \notin Open
  /\ IF call[a].tool = "start_child_agent" /\ messages[call[a].message].status = "failed"
     THEN Unawaited(a, call[a].target)
     ELSE UNCHANGED awaited
  /\ call' = [call EXCEPT ![a] = None]
  /\ omp' = [omp EXCEPT ![a] = IF @ = "calling" THEN "turn" ELSE @]
  /\ UNCHANGED <<goalVars, session, defer, postVars, frames, followUps, budgetVars, historyVars>>

-----------------------------------------------------------------------------
(* The OMP processes: any behaviour the protocol allows *)

Emit(a, fs) == frames' = [frames EXCEPT ![a] = @ \o fs]

\* A prompt starts a turn, or is kept for after it; one that does not say it
\* is a follow-up is refused in a turn.
OmpReads(a) ==
  /\ omp[a] # "dead" /\ stdin[a] # <<>>
  /\ LET p == Head(stdin[a])
         answer(ok) == [kind |-> "response", message |-> p.message, accepted |-> ok]
     IN \/ /\ omp[a] = "idle"
           /\ omp' = [omp EXCEPT ![a] = "turn"]
           /\ Emit(a, <<answer(TRUE), [kind |-> "agent_start"]>>)
           /\ UNCHANGED followUps
        \/ /\ omp[a] # "idle" /\ p.follows
           /\ followUps' = [followUps EXCEPT ![a] = @ + 1]
           /\ Emit(a, <<answer(TRUE)>>)
           /\ UNCHANGED omp
        \/ /\ omp[a] # "idle" /\ ~p.follows
           /\ Emit(a, <<answer(FALSE)>>)
           /\ UNCHANGED <<omp, followUps>>
  /\ stdin' = [stdin EXCEPT ![a] = Tail(@)]
  /\ UNCHANGED <<goalVars, sessionVars, messages, budgetVars, historyVars>>

OmpAsks(a) ==
  /\ omp[a] = "turn"
  /\ \E i \in asked[a] + 1 .. Len(Asks[a]) :
       /\ asked' = [asked EXCEPT ![a] = i]
       /\ IF Asks[a][i].tool = "input"
          THEN Emit(a, <<[kind |-> "ui_request"]>>) /\ UNCHANGED omp
          ELSE /\ Emit(a, <<[kind |-> "call", asks |-> Asks[a][i]]>>)
               /\ omp' = [omp EXCEPT ![a] = "calling"]
  /\ UNCHANGED <<goalVars, sessionVars, postVars, followUps, written, crashes, historyVars>>

\* The turn ends, with public output or without, and the next one begins.
OmpEnds(a) ==
  /\ omp[a] = "turn"
  /\ \E output \in BOOLEAN :
       LET end == [kind |-> "agent_end", output |-> output]
       IN IF followUps[a] > 0
          THEN /\ Emit(a, <<end, [kind |-> "agent_start"]>>)
               /\ followUps' = [followUps EXCEPT ![a] = @ - 1]
               /\ UNCHANGED omp
          ELSE /\ Emit(a, <<end>>)
               /\ omp' = [omp EXCEPT ![a] = "idle"]
               /\ UNCHANGED followUps
  /\ UNCHANGED <<goalVars, sessionVars, postVars, budgetVars, historyVars>>

OmpDies(a) ==
  /\ Live(a) /\ omp[a] # "dead" /\ crashes < MaxCrashes
  /\ crashes' = crashes + 1
  /\ omp' = [omp EXCEPT ![a] = "dead"]
  /\ UNCHANGED <<goalVars, sessionVars, postVars, frames, followUps, written, asked, historyVars>>

\* handleExit, at the end of the queue of frames.
HandlesExit(a) ==
  /\ Live(a) /\ omp[a] = "dead" /\ frames[a] = <<>> /\ call[a] = None
  /\ goal' = [goal EXCEPT ![a] = IF @ \in ActiveStates THEN "failed" ELSE @]
  /\ SessionEnds(a)
  /\ UNCHANGED <<parent, scope, artifact, budgetVars>>

-----------------------------------------------------------------------------
HandlesFrame(a) ==
  \/ HandlesResponse(a) \/ HandlesStart(a) \/ HandlesUiRequest(a) \/ HandlesEnd(a)
  \/ CallCreates(a) \/ CallRequestsVerification(a) \/ CallSubmits(a)
  \/ CallStarts(a) \/ CallStartFails(a) \/ CallStartRefused(a)
  \/ CallSends(a) \/ CallSendFails(a) \/ CallRefused(a)

OwnerActs(a) ==
  \/ \E authority \in {"none", "isolated_repository"} : <<a, authority>> \in Commissioned /\ OwnerCreates(a, authority)
  \/ OwnerStarts(a) \/ OwnerWrites(a) \/ OwnerCompletes(a) \/ OwnerCancels(a)

OmpActs(a) == OmpReads(a) \/ OmpAsks(a) \/ OmpEnds(a) \/ OmpDies(a)

ConversationNext ==
  \/ \E a \in Agents : OwnerActs(a) \/ HandlesFrame(a) \/ CallReturns(a) \/ HandlesExit(a) \/ OmpActs(a)
  \/ \E m \in Open : TimesOut(m)

ConversationSpec == ConversationInit /\ [][ConversationNext]_conversationVars

\* The controller handles what has arrived, and its timers fire.
FairConversationSpec ==
  /\ ConversationSpec
  /\ \A a \in Agents :
       WF_conversationVars(HandlesFrame(a)) /\ WF_conversationVars(CallReturns(a))
  /\ \A m \in 1..MaxMessages : WF_conversationVars(m \in Open /\ TimesOut(m))

-----------------------------------------------------------------------------
\* A child that is awaited has been started: a call to start one that fails
\* takes it back, else the parent would wait for a report nobody will send.
AwaitedHaveStarted ==
  \A a \in Agents : \A c \in awaited[a] : session[c] # "none"

\* A running goal of a live session is being worked on, or something is on
\* its way that will move it: no turn ends without a verdict.  An awaited
\* report that could not be delivered can leave one behind.
Underway(a) ==
  \/ omp[a] # "idle" \/ stdin[a] # <<>> \/ frames[a] # <<>>
  \/ call[a] # None \/ OpenTo(a) # {}
RunningIsWorkedOn ==
  ~lost => \A a \in Agents : goal[a] = "running" /\ Live(a) => Underway(a)

\* Two agents that write to each other at once, each inside its own queue:
\* every queue is empty again and again.
QueuesDrain ==
  \A a \in Agents : []<>(frames[a] = <<>> /\ call[a] = None)

\* "The parent finalizes only after the child result arrives"
\* (tests/runtime-boundaries.test.ts).
ParentAwaitsReports ==
  [][\A a \in Agents : goal[a] = "running" /\ goal'[a] = "verifying" => owed[a] = {}]_conversationVars

\* What a has asked for so far may have two starts of the same child in it.
IsStart(asks, c) == asks.tool = "start_child_agent" /\ asks.target = c
StartedTwice(a, c) ==
  \E i, j \in 1..asked[a] : i < j /\ IsStart(Asks[a][i], c) /\ IsStart(Asks[a][j], c)

\* No turn makes the outcome of a goal, or hands the goal over to be verified,
\* before the children its agent has started have reported, but for those it
\* has tried to start again.  (A follow-up that fails puts back a goal that was
\* being verified when it came.)
TurnsAwaitReports ==
  [][\A a \in Agents :
       \/ scope[a] = "none" /\ ~artifact[a] /\ artifact'[a]
       \/ goal[a] = "running" /\ goal'[a] = "verifying" /\ UNCHANGED messages
       => \A c \in owed[a] : StartedTwice(a, c)]_conversationVars

=============================================================================
