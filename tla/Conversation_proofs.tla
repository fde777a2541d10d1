------------------------- MODULE Conversation_proofs -------------------------
(***************************************************************************)
(* Proofs about Conversation, for any organization, any scripts of its     *)
(* agents and any number of messages and crashes.                          *)
(*                                                                         *)
(* What an action may do to goals, sessions, awaited children and reports  *)
(* is stated once (Effect); there is a lemma for every action that it is   *)
(* type correct and has such an effect, and the invariant (ConversationInv)*)
(* is proved from the effect alone.                                        *)
(***************************************************************************)
EXTENDS Conversation, Organization, TLAPS

LEMMA ToolsTyped ==
  ASSUME NEW t \in Tools
  PROVE  /\ t.tool \in {"create_child_goal", "start_child_agent", "send_agent_message",
                        "request_verification"} => t.target \in Agents
         /\ t.tool = "request_verification" => t.subject \in Agents
BY DEF Tools

LEMMA FramesTyped ==
  ASSUME NEW f \in Frames
  PROVE  /\ f.kind = "response" => f.message \in Nat
         /\ f.kind = "agent_end" => f.output \in BOOLEAN
         /\ f.kind = "call" => f.asks \in Tools
BY DEF Frames

LEMMA HandledTyped ==
  ASSUME ConversationTypeOK, NEW a \in Agents, NEW kind, Handles(a, kind)
  PROVE  /\ Head(frames[a]) \in Frames
         /\ Head(frames[a]).kind = kind
BY DEF ConversationTypeOK, Handles

LEMMA PoppedTyped ==
  ASSUME ConversationTypeOK, NEW a \in Agents, frames[a] # <<>>, Popped(a)
  PROVE  frames' \in [Agents -> Seq(Frames)]
BY DEF ConversationTypeOK, Popped

LEMMA MessagesTyped ==
  ASSUME NEW m \in Messages
  PROVE  /\ m.status \in {"queued", "delivered", "failed"}
         /\ m.status = "queued" =>
              m \in [status : {"queued"}, to : Agents, first : BOOLEAN,
                     reopened : {None, "waiting_input", "verifying"}, report : Agents \cup {None}]
BY DEF Messages

LEMMA PostTyped ==
  ASSUME ConversationTypeOK, NEW a \in Agents, NEW first \in BOOLEAN,
         NEW reopened \in {None, "waiting_input", "verifying"},
         NEW report \in Agents \cup {None}, Post(a, first, reopened, report)
  PROVE  /\ messages' \in Seq(Messages) /\ Len(messages') <= MaxMessages
         /\ stdin' \in [Agents -> Seq([message : Nat, follows : BOOLEAN])]
<1> DEFINE new == [status |-> "queued", to |-> a, first |-> first,
                   reopened |-> reopened, report |-> report]
           prompt == [message |-> Id, follows |-> session[a] = "streaming"]
<1>1. new \in Messages
  BY DEF Messages
<1>2. messages \in Seq(Messages) /\ Len(messages) \in Nat
  BY DEF ConversationTypeOK
<1>3. prompt \in [message : Nat, follows : BOOLEAN]
  BY <1>2 DEF Id
<1>4. messages' \in Seq(Messages) /\ Len(messages') = Len(messages) + 1
  <2> HIDE DEF new
  <2>1. messages' = Append(messages, new)
    BY DEF Post, new
  <2> QED BY <1>1, <1>2, <2>1
<1>5. Len(messages') <= MaxMessages
  BY <1>2, <1>4, EnvironmentAssumption DEF Post
<1>6. stdin' \in [Agents -> Seq([message : Nat, follows : BOOLEAN])]
  <2> HIDE DEF prompt
  <2>1. stdin' = [stdin EXCEPT ![a] = Append(@, prompt)]
    BY DEF Post, prompt
  <2> QED BY <1>3, <2>1 DEF ConversationTypeOK
<1> QED BY <1>4, <1>5, <1>6

LEMMA FailTyped ==
  ASSUME ConversationTypeOK, NEW failing, Fail(failing)
  PROVE  messages' \in Seq(Messages) /\ Len(messages') <= MaxMessages
<1>1. messages \in Seq(Messages) /\ Len(messages) \in Nat /\ DOMAIN messages = 1..Len(messages)
      /\ Len(messages) <= MaxMessages
  BY DEF ConversationTypeOK
<1>2. [status |-> "failed"] \in Messages
  BY DEF Messages
<1>3. \A m \in 1..Len(messages) : messages[m] \in Messages
  BY <1>1
<1>4. messages' \in [1..Len(messages) -> Messages]
  BY <1>1, <1>2, <1>3 DEF Fail
<1>5. messages' \in Seq(Messages) /\ Len(messages') = Len(messages)
  BY <1>1, <1>4
<1> QED BY <1>1, <1>5

-----------------------------------------------------------------------------
(* What a step may do to the tree of goals, to sessions and to reports *)

GoalsStay == \A a \in Agents : goal[a] # None => goal'[a] # None
SessionsStay == \A a \in Agents : session[a] # "none" => session'[a] # "none"

\* A goal is created for a, under an existing goal or none, with no more
\* authority than that one and than a can use or pass on.  The one it is under
\* can delegate, unless a is there to judge it.
TreeGrows(a, under, authority) ==
  /\ CreateGoal(a, under, authority)
  /\ authority \in {"none", "isolated_repository"}
  /\ under = None \/ (under \in Agents /\ goal[under] # None)
  /\ under = None \/ under \in Delegators \/ a \in Verifiers
  /\ authority = "isolated_repository" =>
       /\ CanReceiveIsolatedAuthority(a)
       /\ under # None => scope[under] = "isolated_repository"

TreeStep ==
  \/ UNCHANGED <<parent, scope>>
  \/ \E a \in Agents, under \in Agents \cup {None}, authority \in {"none", "isolated_repository"} :
       TreeGrows(a, under, authority)

\* Who is awaited afterwards was so before, was the sender of a report that is
\* under way, or has started.
AwaitStep ==
  \A a \in Agents : \A c \in awaited'[a] :
    \/ c \in awaited[a]
    \/ session'[c] # "none"
    \/ \E m \in Open : messages[m].report = c

\* The prompts under way were so before, or report for one that has started.
ReportStep ==
  \A m \in Open' :
    \/ m \in Open /\ messages'[m] = messages[m]
    \/ messages'[m].report = None
    \/ session'[messages'[m].report] # "none"

Effect == GoalsStay /\ SessionsStay /\ TreeStep /\ AwaitStep /\ ReportStep

LEMMA PostReports ==
  ASSUME ConversationTypeOK, NEW a, NEW first, NEW reopened, NEW report,
         Post(a, first, reopened, report),
         report = None \/ session'[report] # "none"
  PROVE  ReportStep
<1> DEFINE new == [status |-> "queued", to |-> a, first |-> first,
                   reopened |-> reopened, report |-> report]
<1>1. messages \in Seq(Messages) /\ Len(messages) \in Nat
  BY DEF ConversationTypeOK
<1>2. new.report = report
  OBVIOUS
<1>3. messages' = Append(messages, new)
  BY DEF Post
<1> HIDE DEF new
<1>4. /\ DOMAIN messages' = 1..Len(messages) + 1 /\ DOMAIN messages = 1..Len(messages)
      /\ messages'[Len(messages) + 1] = new
      /\ \A m \in 1..Len(messages) : messages'[m] = messages[m]
  BY <1>1, <1>3
<1> QED BY <1>1, <1>2, <1>4 DEF ReportStep, Open

LEMMA FailReports ==
  ASSUME NEW failing, Fail(failing)
  PROVE  ReportStep
BY DEF Fail, ReportStep, Open

SessionPart ==
  /\ session \in [Agents -> {"none", "ready", "streaming", "exited"}]
  /\ awaited \in [Agents -> SUBSET Agents]
  /\ defer \in [Agents -> BOOLEAN]
  /\ call \in [Agents -> {None} \cup Waits]
MessagePart == messages \in Seq(Messages) /\ Len(messages) <= MaxMessages
StdinPart == stdin \in [Agents -> Seq([message : Nat, follows : BOOLEAN])]
OmpPart ==
  /\ frames \in [Agents -> Seq(Frames)]
  /\ omp \in [Agents -> {"idle", "turn", "calling", "dead"}]
  /\ followUps \in [Agents -> Nat]

LEMMA Parts ==
  ConversationTypeOK <=>
    DelegationTypeOK /\ SessionPart /\ MessagePart /\ StdinPart /\ OmpPart
      /\ asked \in [Agents -> Nat]
BY DEF ConversationTypeOK, SessionPart, MessagePart, StdinPart, OmpPart

LEMMA PartsNext ==
  ConversationTypeOK' <=>
    DelegationTypeOK' /\ SessionPart' /\ MessagePart' /\ StdinPart' /\ OmpPart'
      /\ asked' \in [Agents -> Nat]
BY DEF ConversationTypeOK, SessionPart, MessagePart, StdinPart, OmpPart

LEMMA SessionEndsEffect ==
  ASSUME ConversationTypeOK, NEW a \in Agents, SessionEnds(a)
  PROVE  SessionPart' /\ MessagePart' /\ StdinPart' /\ OmpPart'
         /\ SessionsStay /\ AwaitStep /\ ReportStep
<1> USE DEF SessionEnds
<1>1. SessionPart' BY Parts DEF SessionPart
<1>2. MessagePart' BY FailTyped DEF MessagePart
<1>3. StdinPart' BY Parts DEF StdinPart
<1>4. OmpPart' BY Parts DEF OmpPart
<1>5. SessionsStay BY Parts DEF SessionsStay, SessionPart
<1>6. AwaitStep BY Parts DEF AwaitStep, SessionPart
<1>7. ReportStep BY FailReports
<1> QED BY <1>1, <1>2, <1>3, <1>4, <1>5, <1>6, <1>7

-----------------------------------------------------------------------------
(* The owner *)

LEMMA CreateTyped ==
  ASSUME DelegationTypeOK, NEW a, NEW under \in Agents \cup {None},
         NEW authority \in {"none", "isolated_repository"},
         CreateGoal(a, under, authority)
  PROVE  DelegationTypeOK' /\ GoalsStay
BY HierarchyAssumption DEF DelegationTypeOK, CreateGoal, GoalsStay, GoalStates

LEMMA OwnerCreatesEffect ==
  ASSUME ConversationTypeOK, NEW a \in Agents,
         NEW authority \in {"none", "isolated_repository"}, OwnerCreates(a, authority)
  PROVE  ConversationTypeOK' /\ Effect
<1> USE DEF OwnerCreates, CreateOwnerGoal
<1>1. DelegationTypeOK' /\ GoalsStay BY CreateTyped, Parts
<1>2. UNCHANGED <<sessionVars, postVars, ompVars>> OBVIOUS
<1>3. ConversationTypeOK'
  BY <1>1, <1>2, Parts, PartsNext DEF SessionPart, MessagePart, StdinPart, OmpPart,
     sessionVars, postVars, ompVars, budgetVars
<1>4. TreeStep BY DEF TreeStep, TreeGrows
<1>5. SessionsStay /\ AwaitStep /\ ReportStep
  BY <1>2 DEF SessionsStay, AwaitStep, ReportStep, Open, sessionVars, postVars
<1> QED BY <1>1, <1>3, <1>4, <1>5 DEF Effect

LEMMA LaunchEffect ==
  ASSUME ConversationTypeOK, NEW a \in Agents, Launch(a)
  PROVE  /\ DelegationTypeOK' /\ MessagePart' /\ StdinPart'
         /\ session' \in [Agents -> {"none", "ready", "streaming", "exited"}]
         /\ session'[a] # "none"
         /\ GoalsStay /\ SessionsStay /\ TreeStep /\ ReportStep
<1>1. DelegationTypeOK' /\ GoalsStay
  BY Parts, HierarchyAssumption DEF Launch, DelegationTypeOK, GoalStates, GoalsStay
<1>2. MessagePart' /\ StdinPart'
  BY PostTyped DEF Launch, MessagePart, StdinPart
<1>3. session' \in [Agents -> {"none", "ready", "streaming", "exited"}] /\ session'[a] # "none"
      /\ SessionsStay
  BY Parts DEF Launch, SessionPart, SessionsStay
<1>4. ReportStep BY PostReports DEF Launch
<1>5. TreeStep BY DEF Launch, TreeStep
<1> QED BY <1>1, <1>2, <1>3, <1>4, <1>5

LEMMA LaunchFailsEffect ==
  ASSUME ConversationTypeOK, NEW a, LaunchFails(a)
  PROVE  DelegationTypeOK' /\ GoalsStay /\ TreeStep
BY Parts, HierarchyAssumption DEF LaunchFails, DelegationTypeOK, GoalStates, GoalsStay, TreeStep

LEMMA OwnerStartsEffect ==
  ASSUME ConversationTypeOK, NEW a \in Agents, OwnerStarts(a)
  PROVE  ConversationTypeOK' /\ Effect
<1> USE DEF OwnerStarts
<1>1. UNCHANGED <<awaited, defer, call, ompVars>> OBVIOUS
<1>2. AwaitStep BY <1>1 DEF AwaitStep
<1>3. OmpPart' /\ asked' \in [Agents -> Nat]
  BY <1>1, Parts DEF OmpPart, ompVars, budgetVars
<1>4. CASE Launch(a)
  <2>1. SessionPart' BY <1>1, <1>4, LaunchEffect, Parts DEF SessionPart
  <2> QED BY <1>2, <1>3, <1>4, <2>1, LaunchEffect, PartsNext DEF Effect
<1>5. CASE LaunchFails(a) /\ UNCHANGED <<session, postVars>>
  <2>1. SessionPart' /\ MessagePart' /\ StdinPart'
    BY <1>1, <1>5, Parts DEF SessionPart, MessagePart, StdinPart, postVars
  <2>2. SessionsStay /\ ReportStep
    BY <1>5 DEF SessionsStay, ReportStep, Open, postVars
  <2> QED BY <1>2, <1>3, <1>5, <2>1, <2>2, LaunchFailsEffect, PartsNext DEF Effect
<1> QED BY <1>4, <1>5

LEMMA FollowUpEffect ==
  ASSUME ConversationTypeOK, NEW a \in Agents, NEW report \in Agents \cup {None},
         FollowUp(a, report), report = None \/ session'[report] # "none"
  PROVE  /\ DelegationTypeOK' /\ MessagePart' /\ StdinPart'
         /\ GoalsStay /\ TreeStep /\ ReportStep
<1> DEFINE reopened == IF goal[a] = "running" THEN None ELSE goal[a]
<1>1. reopened \in {None, "waiting_input", "verifying"} /\ Post(a, FALSE, reopened, report)
  BY DEF FollowUp, MayFollowUp
<1>2. MessagePart' /\ StdinPart'
  BY <1>1, PostTyped DEF MessagePart, StdinPart
<1>3. ReportStep BY <1>1, PostReports
<1>4. DelegationTypeOK' /\ GoalsStay /\ TreeStep
  BY Parts, HierarchyAssumption DEF FollowUp, DelegationTypeOK, GoalStates, GoalsStay, TreeStep
<1> QED BY <1>2, <1>3, <1>4

LEMMA OwnerWritesEffect ==
  ASSUME ConversationTypeOK, NEW a \in Agents, OwnerWrites(a)
  PROVE  ConversationTypeOK' /\ Effect
<1> USE DEF OwnerWrites
<1>1. FollowUp(a, None) /\ UNCHANGED <<session, awaited, defer, call, frames, omp, followUps, asked>>
  OBVIOUS
<1>2. /\ DelegationTypeOK' /\ MessagePart' /\ StdinPart'
      /\ GoalsStay /\ TreeStep /\ ReportStep
  BY <1>1, FollowUpEffect
<1>3. SessionPart' /\ OmpPart' /\ asked' \in [Agents -> Nat]
  BY <1>1, Parts DEF SessionPart, OmpPart
<1>4. SessionsStay /\ AwaitStep
  BY <1>1 DEF SessionsStay, AwaitStep
<1> QED BY <1>2, <1>3, <1>4, PartsNext DEF Effect

\* The goal of a settles, and its session ends.
LEMMA EndEffect ==
  ASSUME ConversationTypeOK, NEW a \in Agents, SessionEnds(a),
         NEW state \in GoalStates \cup {None}, goal[a] # None => state # None,
         goal' = [goal EXCEPT ![a] = state],
         UNCHANGED <<parent, scope, artifact, budgetVars>>
  PROVE  ConversationTypeOK' /\ Effect
<1>1. DelegationTypeOK' /\ GoalsStay /\ TreeStep
  BY Parts DEF DelegationTypeOK, GoalsStay, TreeStep
<1>2. asked' \in [Agents -> Nat]
  BY Parts DEF budgetVars
<1> QED BY <1>1, <1>2, SessionEndsEffect, PartsNext DEF Effect

LEMMA OwnerCompletesEffect ==
  ASSUME ConversationTypeOK, NEW a \in Agents, OwnerCompletes(a)
  PROVE  ConversationTypeOK' /\ Effect
BY EndEffect, HierarchyAssumption DEF OwnerCompletes, GoalStates

LEMMA OwnerCancelsEffect ==
  ASSUME ConversationTypeOK, NEW a \in Agents, OwnerCancels(a)
  PROVE  ConversationTypeOK' /\ Effect
<1> DEFINE state == IF goal[a] \in ActiveStates \cup {"blocked"} THEN "cancelled" ELSE goal[a]
<1>1. goal' = [goal EXCEPT ![a] = state]
  BY DEF OwnerCancels
<1>2. state \in GoalStates \cup {None} /\ (goal[a] # None => state # None)
  BY Parts, HierarchyAssumption DEF DelegationTypeOK, GoalStates
<1> HIDE DEF state
<1> QED BY <1>1, <1>2, EndEffect DEF OwnerCancels

-----------------------------------------------------------------------------
(* The answer to a prompt *)

LEMMA OpenTyped ==
  ASSUME ConversationTypeOK, NEW m \in Open
  PROVE  /\ messages[m].to \in Agents
         /\ messages[m].reopened \in {None, "waiting_input", "verifying"}
         /\ messages[m].report \in Agents \cup {None}
<1>1. m \in 1..Len(messages) /\ messages[m] \in Messages /\ messages[m].status = "queued"
  BY DEF ConversationTypeOK, Open
<1> QED BY <1>1, MessagesTyped

LEMMA FollowUpFailsEffect ==
  ASSUME ConversationTypeOK, NEW m \in Open, FollowUpFails(m),
         frames' \in [Agents -> Seq(Frames)], UNCHANGED <<parent, scope, artifact, budgetVars>>
  PROVE  ConversationTypeOK' /\ Effect
<1> DEFINE a == messages[m].to
           report == {messages[m].report} \ {None}
<1>1. a \in Agents /\ report \subseteq Agents /\ messages[m].reopened \in {None, "waiting_input", "verifying"}
  BY OpenTyped
<1>2. /\ Fail({m})
      /\ goal' = [goal EXCEPT ![a] =
           IF @ = "running" /\ messages[m].reopened # None THEN messages[m].reopened ELSE @]
      /\ awaited' = [awaited EXCEPT ![a] = @ \cup report]
      /\ UNCHANGED <<session, defer, call, stdin, omp, followUps>>
  BY DEF FollowUpFails, Unsettled
<1>3. DelegationTypeOK' /\ GoalsStay /\ TreeStep
  BY <1>1, <1>2, Parts, HierarchyAssumption DEF DelegationTypeOK, GoalStates, GoalsStay, TreeStep
<1>4. MessagePart' /\ ReportStep
  BY <1>2, FailTyped, FailReports DEF MessagePart
<1>5. SessionPart' /\ StdinPart' /\ OmpPart' /\ asked' \in [Agents -> Nat]
  BY <1>1, <1>2, Parts DEF SessionPart, StdinPart, OmpPart, budgetVars
<1>6. SessionsStay BY <1>2 DEF SessionsStay
<1>7. AwaitStep
  BY <1>1, <1>2, Parts DEF AwaitStep, SessionPart
<1> QED BY <1>3, <1>4, <1>5, <1>6, <1>7, PartsNext DEF Effect

LEMMA FirstPromptFailsEffect ==
  ASSUME ConversationTypeOK, NEW m \in Open, FirstPromptFails(m),
         UNCHANGED <<parent, scope, artifact, budgetVars>>
  PROVE  ConversationTypeOK' /\ Effect
<1> DEFINE a == messages[m].to
           state == IF goal[a] \in ActiveStates THEN "cancelled" ELSE goal[a]
<1>1. a \in Agents
  BY OpenTyped
<1>2. goal' = [goal EXCEPT ![a] = state] /\ SessionEnds(a)
  BY DEF FirstPromptFails
<1>3. state \in GoalStates \cup {None} /\ (goal[a] # None => state # None)
  BY <1>1, Parts, HierarchyAssumption DEF DelegationTypeOK, GoalStates
<1> HIDE DEF state, a
<1> QED BY <1>1, <1>2, <1>3, EndEffect

LEMMA TimesOutEffect ==
  ASSUME ConversationTypeOK, NEW m \in Open, TimesOut(m)
  PROVE  ConversationTypeOK' /\ Effect
<1>1. CASE FollowUpFails(m) /\ UNCHANGED frames
  BY <1>1, FollowUpFailsEffect, Parts DEF TimesOut, OmpPart
<1>2. CASE FirstPromptFails(m)
  BY <1>2, FirstPromptFailsEffect DEF TimesOut
<1> QED BY <1>1, <1>2 DEF TimesOut

LEMMA SettledTyped ==
  ASSUME NEW ms \in Seq(Messages), NEW m, NEW d \in Messages
  PROVE  /\ [ms EXCEPT ![m] = d] \in Seq(Messages)
         /\ Len([ms EXCEPT ![m] = d]) = Len(ms)
<1>1. Len(ms) \in Nat /\ DOMAIN ms = 1..Len(ms) /\ \A i \in 1..Len(ms) : ms[i] \in Messages
  OBVIOUS
<1> DEFINE set == [ms EXCEPT ![m] = d]
<1>2. DOMAIN set = 1..Len(ms) /\ \A i \in 1..Len(ms) : set[i] = IF i = m THEN d ELSE ms[i]
  BY <1>1
<1>3. set = [i \in 1..Len(ms) |-> IF i = m THEN d ELSE ms[i]]
  BY <1>1
<1>4. set \in [1..Len(ms) -> Messages]
  BY <1>1, <1>3
<1> HIDE DEF set
<1>5. set \in Seq(Messages)
  BY <1>1, <1>4
<1>6. Len(set) = Len(ms)
  BY <1>1, <1>2, <1>5
<1> QED BY <1>5, <1>6 DEF set

\* Nothing happens to prompts, goals or the tree.
LEMMA QuietEffect ==
  ASSUME UNCHANGED <<parent, scope, messages>>
  PROVE  TreeStep /\ ReportStep
BY DEF TreeStep, ReportStep, Open

LEMMA HandlesResponseEffect ==
  ASSUME ConversationTypeOK, NEW a \in Agents, HandlesResponse(a)
  PROVE  ConversationTypeOK' /\ Effect
<1> DEFINE m == Head(frames[a]).message
<1>0. frames[a] # <<>> /\ UNCHANGED <<parent, scope, artifact, budgetVars>>
  BY DEF HandlesResponse, Handles
<1>1. CASE Popped(a) /\ UNCHANGED <<goal, sessionVars, postVars, omp, followUps, owed, lost>>
  <2>1. ConversationTypeOK'
    BY <1>0, <1>1, PoppedTyped DEF ConversationTypeOK, DelegationTypeOK, sessionVars, postVars, budgetVars
  <2>2. Effect
    BY <1>0, <1>1, QuietEffect DEF Effect, GoalsStay, SessionsStay, AwaitStep, sessionVars, postVars
  <2> QED BY <2>1, <2>2
<1>2. CASE /\ m \in Open /\ Popped(a)
           /\ messages' = [messages EXCEPT ![m] = [status |-> "delivered"]]
           /\ UNCHANGED <<goal, sessionVars, stdin, omp, followUps, owed, lost>>
  <2>1. [status |-> "delivered"] \in Messages
    BY DEF Messages
  <2>2. MessagePart'
    <3>1. messages \in Seq(Messages) /\ Len(messages) \in Nat /\ Len(messages) <= MaxMessages
      BY Parts DEF MessagePart
    <3>2. messages' \in Seq(Messages) /\ Len(messages') = Len(messages)
      BY <1>2, <2>1, <3>1, SettledTyped
    <3> QED BY <3>1, <3>2 DEF MessagePart
  <2>3. DelegationTypeOK' /\ SessionPart' /\ StdinPart' /\ OmpPart' /\ asked' \in [Agents -> Nat]
    BY <1>0, <1>2, PoppedTyped, Parts DEF DelegationTypeOK, SessionPart, StdinPart, OmpPart,
       sessionVars, budgetVars
  <2>4. ReportStep
    BY <1>2, <2>1 DEF ReportStep, Open
  <2>5. GoalsStay /\ SessionsStay /\ AwaitStep /\ TreeStep
    BY <1>0, <1>2 DEF GoalsStay, SessionsStay, AwaitStep, TreeStep, sessionVars
  <2> QED BY <2>2, <2>3, <2>4, <2>5, PartsNext DEF Effect
<1>3. CASE m \in Open /\ FollowUpFails(m) /\ Popped(a)
  BY <1>0, <1>3, PoppedTyped, FollowUpFailsEffect
<1>4. CASE m \in Open /\ FirstPromptFails(m)
  BY <1>0, <1>4, FirstPromptFailsEffect
<1> QED BY <1>1, <1>2, <1>3, <1>4 DEF HandlesResponse

-----------------------------------------------------------------------------
(* The frames of a turn *)

LEMMA HandlesStartEffect ==
  ASSUME ConversationTypeOK, NEW a \in Agents, HandlesStart(a)
  PROVE  ConversationTypeOK' /\ Effect
<1> USE DEF HandlesStart
<1>1. ConversationTypeOK'
  BY PoppedTyped DEF Handles, ConversationTypeOK, DelegationTypeOK, goalVars, postVars, budgetVars
<1>2. Effect
  BY QuietEffect DEF ConversationTypeOK, Effect, GoalsStay, SessionsStay, AwaitStep, goalVars, postVars
<1> QED BY <1>1, <1>2

LEMMA HandlesUiRequestEffect ==
  ASSUME ConversationTypeOK, NEW a \in Agents, HandlesUiRequest(a)
  PROVE  ConversationTypeOK' /\ Effect
<1> USE DEF HandlesUiRequest
<1>1. DelegationTypeOK' /\ GoalsStay
  BY Parts, HierarchyAssumption DEF DelegationTypeOK, GoalStates, GoalsStay
<1>2. SessionPart' /\ MessagePart' /\ StdinPart' /\ OmpPart' /\ asked' \in [Agents -> Nat]
  BY PoppedTyped, Parts DEF Handles, SessionPart, MessagePart, StdinPart, OmpPart,
     sessionVars, postVars, budgetVars
<1>3. SessionsStay /\ AwaitStep /\ TreeStep /\ ReportStep
  BY QuietEffect DEF SessionsStay, AwaitStep, sessionVars, postVars
<1> QED BY <1>1, <1>2, <1>3, PartsNext DEF Effect

LEMMA HandlesEndEffect ==
  ASSUME ConversationTypeOK, NEW a \in Agents, HandlesEnd(a)
  PROVE  ConversationTypeOK' /\ Effect
<1> DEFINE output == Head(frames[a]).output
           finalizes == ~defer[a] /\ awaited[a] = {} /\ scope[a] = "none" /\ output
           state == IF goal[a] = "running" THEN GoalAfterTurn(a, output) ELSE goal[a]
<1>0. Handles(a, "agent_end") /\ Popped(a)
  BY DEF HandlesEnd
<1>1. output \in BOOLEAN
  BY <1>0, HandledTyped, FramesTyped
<1>2. artifact' = [artifact EXCEPT ![a] = @ \/ finalizes]
  BY DEF HandlesEnd, HasOutcome
<1>3. goal' = [goal EXCEPT ![a] = state]
  BY DEF HandlesEnd
<1>4. artifact' \in [Agents -> BOOLEAN]
  BY <1>2, Parts DEF DelegationTypeOK
<1>5. state \in GoalStates \cup {None} /\ (goal[a] # None => state # None)
  <2>1. CASE goal[a] = "running"
    <3>1. defer[a] \in BOOLEAN
      BY Parts DEF SessionPart
    <3>2. GoalAfterTurn(a, output) \in {"running", "waiting_input", "verifying", "blocked"}
      BY <2>1, <3>1 DEF GoalAfterTurn
    <3> QED BY <2>1, <3>2, HierarchyAssumption DEF GoalStates
  <2>2. CASE goal[a] # "running"
    BY <2>2, Parts DEF DelegationTypeOK
  <2> QED BY <2>1, <2>2
<1>6. UNCHANGED <<parent, scope, awaited, call, postVars, omp, followUps, budgetVars>>
  BY DEF HandlesEnd
<1>7. DelegationTypeOK' /\ GoalsStay
  <2> HIDE DEF state
  <2> QED BY <1>3, <1>4, <1>5, <1>6, Parts DEF DelegationTypeOK, GoalsStay
<1>8. SessionPart' /\ MessagePart' /\ StdinPart' /\ OmpPart' /\ asked' \in [Agents -> Nat]
  BY <1>0, <1>6, PoppedTyped, Parts DEF HandlesEnd, Handles, SessionPart, MessagePart, StdinPart,
     OmpPart, postVars, budgetVars
<1>9. SessionsStay /\ AwaitStep /\ TreeStep /\ ReportStep
  BY <1>6, QuietEffect, Parts DEF HandlesEnd, SessionsStay, SessionPart, AwaitStep, postVars
<1> QED BY <1>7, <1>8, <1>9, PartsNext DEF Effect

-----------------------------------------------------------------------------
(* Host tools *)

\* What a call asks for names agents.
LEMMA AskedTyped ==
  ASSUME ConversationTypeOK, NEW a \in Agents, Handles(a, "call")
  PROVE  /\ Asked(a) \in Tools
         /\ Asked(a).tool \in {"create_child_goal", "start_child_agent", "send_agent_message",
                                "request_verification"} => Asked(a).target \in Agents
         /\ Asked(a).tool = "request_verification" => Asked(a).subject \in Agents
BY HandledTyped, FramesTyped, ToolsTyped DEF Asked

LEMMA AnswersTyped ==
  ASSUME ConversationTypeOK, NEW a \in Agents, Handles(a, "call"), Answers(a)
  PROVE  OmpPart' /\ asked' \in [Agents -> Nat]
BY PoppedTyped, Parts DEF Handles, Answers, OmpPart, budgetVars

LEMMA CallCreatesEffect ==
  ASSUME ConversationTypeOK, NEW a \in Agents, CallCreates(a)
  PROVE  ConversationTypeOK' /\ Effect
<1> DEFINE t == Asked(a).target
           authority == ChildScope(a, t)
<1>1. Handles(a, "call") /\ Asked(a).tool = "create_child_goal" /\ goal[a] = "running"
  BY DEF CallCreates, Calls, HandlesCall, MayCall
<1>2. t \in Agents BY <1>1, AskedTyped
<1>3. CreateGoal(t, a, authority) BY DEF CallCreates, CreateChildGoal
<1>4. authority \in {"none", "isolated_repository"}
      /\ (authority = "isolated_repository" =>
            scope[a] = "isolated_repository" /\ CanReceiveIsolatedAuthority(t))
  BY DEF ChildScope
<1>5. goal[a] # None /\ a \in Delegators
  BY <1>1, HierarchyAssumption DEF GoalStates, CallCreates, CreateChildGoal, MayCreateChild
<1> HIDE DEF t, authority
<1>6. TreeStep BY <1>2, <1>3, <1>4, <1>5 DEF TreeStep, TreeGrows
<1>7. DelegationTypeOK' /\ GoalsStay BY <1>3, <1>4, CreateTyped, Parts
<1>8. UNCHANGED <<sessionVars, postVars>> /\ Answers(a) BY DEF CallCreates
<1>9. ConversationTypeOK'
  BY <1>1, <1>7, <1>8, AnswersTyped, Parts, PartsNext
     DEF SessionPart, MessagePart, StdinPart, sessionVars, postVars
<1>10. SessionsStay /\ AwaitStep /\ ReportStep
  BY <1>8 DEF SessionsStay, AwaitStep, ReportStep, Open, sessionVars, postVars
<1> QED BY <1>6, <1>7, <1>9, <1>10 DEF Effect

LEMMA CallRequestsVerificationEffect ==
  ASSUME ConversationTypeOK, NEW a \in Agents, CallRequestsVerification(a)
  PROVE  ConversationTypeOK' /\ Effect
<1> DEFINE t == Asked(a).target
           subject == Asked(a).subject
<1>1. Handles(a, "call") /\ Asked(a).tool = "request_verification"
  BY DEF CallRequestsVerification, Calls, HandlesCall
<1>2. t \in Agents /\ subject \in Agents BY <1>1, AskedTyped
<1>3. CreateGoal(t, subject, "none") /\ goal[subject] # None /\ t \in Verifiers
  BY DEF CallRequestsVerification, CreateVerificationGoal, MayRequestVerification
<1> HIDE DEF t, subject
<1>4. TreeStep BY <1>2, <1>3 DEF TreeStep, TreeGrows
<1>5. DelegationTypeOK' /\ GoalsStay BY <1>2, <1>3, CreateTyped, Parts
<1>6. UNCHANGED <<sessionVars, postVars>> /\ Answers(a) BY DEF CallRequestsVerification
<1>7. ConversationTypeOK'
  BY <1>1, <1>5, <1>6, AnswersTyped, Parts, PartsNext
     DEF SessionPart, MessagePart, StdinPart, sessionVars, postVars
<1>8. SessionsStay /\ AwaitStep /\ ReportStep
  BY <1>6 DEF SessionsStay, AwaitStep, ReportStep, Open, sessionVars, postVars
<1> QED BY <1>4, <1>5, <1>7, <1>8 DEF Effect

LEMMA CallSubmitsEffect ==
  ASSUME ConversationTypeOK, NEW a \in Agents, CallSubmits(a)
  PROVE  ConversationTypeOK' /\ Effect
<1> USE DEF CallSubmits
<1>1. Handles(a, "call") BY DEF Calls, HandlesCall
<1>2. DelegationTypeOK' /\ GoalsStay BY Parts DEF DelegationTypeOK, GoalsStay
<1>3. ConversationTypeOK'
  BY <1>1, <1>2, AnswersTyped, Parts, PartsNext
     DEF SessionPart, MessagePart, StdinPart, sessionVars, postVars
<1>4. SessionsStay /\ AwaitStep /\ TreeStep /\ ReportStep
  BY QuietEffect DEF SessionsStay, AwaitStep, sessionVars, postVars
<1> QED BY <1>2, <1>3, <1>4 DEF Effect

LEMMA CallStartsEffect ==
  ASSUME ConversationTypeOK, NEW a \in Agents, CallStarts(a)
  PROVE  ConversationTypeOK' /\ Effect
<1> DEFINE t == Asked(a).target
           wait == [tool |-> "start_child_agent", target |-> t, message |-> Id]
<1>1. Handles(a, "call") /\ Asked(a).tool = "start_child_agent"
  BY DEF CallStarts, Calls, HandlesCall
<1>2. t \in Agents BY <1>1, AskedTyped
<1>3. wait \in Waits
  BY <1>2, Parts DEF Waits, Id, MessagePart
<1>4. /\ Launch(t) /\ Popped(a)
      /\ awaited' = [awaited EXCEPT ![a] = @ \cup {t}]
      /\ call' = [call EXCEPT ![a] = wait]
      /\ UNCHANGED <<defer, omp, followUps, budgetVars>>
  BY DEF CallStarts
<1> HIDE DEF t, wait
<1>5. /\ DelegationTypeOK' /\ MessagePart' /\ StdinPart'
      /\ session' \in [Agents -> {"none", "ready", "streaming", "exited"}]
      /\ session'[t] # "none"
      /\ GoalsStay /\ SessionsStay /\ TreeStep /\ ReportStep
  BY <1>2, <1>4, LaunchEffect
<1>6. SessionPart'
  BY <1>2, <1>3, <1>4, <1>5, Parts DEF SessionPart
<1>7. OmpPart' /\ asked' \in [Agents -> Nat]
  BY <1>1, <1>4, PoppedTyped, Parts DEF Handles, OmpPart, budgetVars
<1>8. AwaitStep
  BY <1>4, <1>5, Parts DEF AwaitStep, SessionPart
<1> QED BY <1>5, <1>6, <1>7, <1>8, PartsNext DEF Effect

\* A child that is not awaited after all.
LEMMA UnawaitedEffect ==
  ASSUME ConversationTypeOK, NEW a \in Agents, NEW t, Unawaited(a, t),
         UNCHANGED <<session, defer, messages>>, call' \in [Agents -> {None} \cup Waits]
  PROVE  SessionPart' /\ SessionsStay /\ AwaitStep /\ ReportStep
BY Parts DEF Unawaited, SessionPart, SessionsStay, AwaitStep, ReportStep, Open

LEMMA CallStartFailsEffect ==
  ASSUME ConversationTypeOK, NEW a \in Agents, CallStartFails(a)
  PROVE  ConversationTypeOK' /\ Effect
<1> USE DEF CallStartFails
<1>1. Handles(a, "call") BY DEF Calls, HandlesCall
<1>2. DelegationTypeOK' /\ GoalsStay /\ TreeStep BY LaunchFailsEffect
<1>3. SessionPart' /\ SessionsStay /\ AwaitStep /\ ReportStep
  BY UnawaitedEffect, Parts DEF SessionPart, postVars
<1>4. MessagePart' /\ StdinPart' BY Parts DEF MessagePart, StdinPart, postVars
<1> QED BY <1>1, <1>2, <1>3, <1>4, AnswersTyped, PartsNext DEF Effect

LEMMA CallStartRefusedEffect ==
  ASSUME ConversationTypeOK, NEW a \in Agents, CallStartRefused(a)
  PROVE  ConversationTypeOK' /\ Effect
<1> USE DEF CallStartRefused
<1>1. Handles(a, "call") BY DEF HandlesCall
<1>2. DelegationTypeOK' /\ GoalsStay /\ TreeStep
  BY Parts DEF DelegationTypeOK, GoalsStay, TreeStep, goalVars
<1>3. SessionPart' /\ SessionsStay /\ AwaitStep /\ ReportStep
  BY UnawaitedEffect, Parts DEF SessionPart, postVars
<1>4. MessagePart' /\ StdinPart' BY Parts DEF MessagePart, StdinPart, postVars
<1> QED BY <1>1, <1>2, <1>3, <1>4, AnswersTyped, PartsNext DEF Effect

LEMMA CallSendsEffect ==
  ASSUME ConversationTypeOK, NEW a \in Agents, CallSends(a)
  PROVE  ConversationTypeOK' /\ Effect
<1> DEFINE t == Asked(a).target
           report == a \in awaited[t]
           reporter == IF report THEN a ELSE None
           wait == [tool |-> "send_agent_message", target |-> t, message |-> Id]
<1>1. Handles(a, "call") /\ Asked(a).tool = "send_agent_message" /\ session[a] = "streaming"
  BY DEF CallSends, Calls, HandlesCall, MayCall
<1>2. t \in Agents BY <1>1, AskedTyped
<1>3. wait \in Waits
  BY <1>2, Parts DEF Waits, Id, MessagePart
<1>4. /\ FollowUp(t, reporter) /\ Popped(a)
      /\ awaited' = [awaited EXCEPT ![t] = @ \ {a}]
      /\ defer' = [defer EXCEPT ![t] = @ \/ (report /\ session[t] = "streaming")]
      /\ call' = [call EXCEPT ![a] = wait]
      /\ UNCHANGED <<session, omp, followUps, budgetVars>>
  BY DEF CallSends
<1>5. reporter \in Agents \cup {None} /\ (reporter = None \/ session'[reporter] # "none")
  BY <1>1, <1>4
<1> HIDE DEF t, wait, reporter
<1>6. /\ DelegationTypeOK' /\ MessagePart' /\ StdinPart'
      /\ GoalsStay /\ TreeStep /\ ReportStep
  BY <1>2, <1>4, <1>5, FollowUpEffect
<1>7. defer' \in [Agents -> BOOLEAN]
  BY <1>2, <1>4, Parts DEF SessionPart
<1>8. SessionPart'
  BY <1>3, <1>4, <1>7, Parts DEF SessionPart
<1>9. OmpPart' /\ asked' \in [Agents -> Nat]
  BY <1>1, <1>4, PoppedTyped, Parts DEF Handles, OmpPart, budgetVars
<1>10. SessionsStay /\ AwaitStep
  BY <1>4, Parts DEF SessionsStay, AwaitStep, SessionPart
<1> QED BY <1>6, <1>8, <1>9, <1>10, PartsNext DEF Effect

LEMMA CallSendFailsEffect ==
  ASSUME ConversationTypeOK, NEW a \in Agents, CallSendFails(a)
  PROVE  ConversationTypeOK' /\ Effect
<1> DEFINE t == Asked(a).target
           report == a \in awaited[t]
<1>1. Handles(a, "call") BY DEF CallSendFails, Calls, HandlesCall
<1>2. /\ defer' = [defer EXCEPT ![t] = @ \/ (report /\ session[t] = "streaming")]
      /\ UNCHANGED <<goalVars, session, awaited, call, postVars>> /\ Answers(a)
  BY DEF CallSendFails
<1> HIDE DEF t
<1>3. defer' \in [Agents -> BOOLEAN]
  BY <1>2, Parts DEF SessionPart
<1>4. DelegationTypeOK' /\ SessionPart' /\ MessagePart' /\ StdinPart'
  BY <1>2, <1>3, Parts DEF DelegationTypeOK, SessionPart, MessagePart, StdinPart, goalVars, postVars
<1>5. Effect
  BY <1>2, QuietEffect DEF Effect, GoalsStay, SessionsStay, AwaitStep, goalVars, postVars
<1> QED BY <1>1, <1>2, <1>4, <1>5, AnswersTyped, PartsNext

LEMMA CallRefusedEffect ==
  ASSUME ConversationTypeOK, NEW a \in Agents, CallRefused(a)
  PROVE  ConversationTypeOK' /\ Effect
<1>1. Handles(a, "call") /\ Answers(a) /\ UNCHANGED <<goalVars, sessionVars, postVars>>
  BY DEF CallRefused
<1>2. DelegationTypeOK' /\ SessionPart' /\ MessagePart' /\ StdinPart'
  BY <1>1, Parts DEF DelegationTypeOK, SessionPart, MessagePart, StdinPart,
     goalVars, sessionVars, postVars
<1>3. Effect
  BY <1>1, QuietEffect DEF Effect, GoalsStay, SessionsStay, AwaitStep, goalVars, sessionVars, postVars
<1> QED BY <1>1, <1>2, <1>3, AnswersTyped, PartsNext

LEMMA CallReturnsEffect ==
  ASSUME ConversationTypeOK, NEW a \in Agents, CallReturns(a)
  PROVE  ConversationTypeOK' /\ Effect
<1>1. /\ awaited' = [awaited EXCEPT ![a] = @ \ {call[a].target}] \/ UNCHANGED awaited
      /\ call' = [call EXCEPT ![a] = None]
      /\ omp' = [omp EXCEPT ![a] = IF @ = "calling" THEN "turn" ELSE @]
      /\ UNCHANGED <<goalVars, session, defer, postVars, frames, followUps, budgetVars>>
  BY DEF CallReturns, Unawaited
<1>2. DelegationTypeOK' /\ MessagePart' /\ StdinPart' /\ OmpPart' /\ asked' \in [Agents -> Nat]
  BY <1>1, Parts DEF DelegationTypeOK, MessagePart, StdinPart, OmpPart, goalVars, postVars, budgetVars
<1>3. SessionPart' /\ AwaitStep
  BY <1>1, Parts DEF SessionPart, AwaitStep
<1>4. GoalsStay /\ SessionsStay /\ TreeStep /\ ReportStep
  BY <1>1, QuietEffect DEF GoalsStay, SessionsStay, goalVars, postVars
<1> QED BY <1>2, <1>3, <1>4, PartsNext DEF Effect

-----------------------------------------------------------------------------
(* The OMP processes *)

LEMMA EmitTyped ==
  ASSUME ConversationTypeOK, NEW a \in Agents, NEW f \in Frames, NEW g \in Frames,
         Emit(a, <<f>>) \/ Emit(a, <<f, g>>)
  PROVE  frames' \in [Agents -> Seq(Frames)]
<1>1. <<f>> \in Seq(Frames) /\ <<f, g>> \in Seq(Frames)
  OBVIOUS
<1>2. \A fs \in Seq(Frames) : Emit(a, fs) => frames' \in [Agents -> Seq(Frames)]
  BY DEF ConversationTypeOK, Emit
<1> QED BY <1>1, <1>2

\* A process changes nothing but its own frames and what it has read.
LEMMA OmpEffect ==
  ASSUME ConversationTypeOK, UNCHANGED <<goalVars, sessionVars, messages>>,
         StdinPart', OmpPart', asked' \in [Agents -> Nat]
  PROVE  ConversationTypeOK' /\ Effect
<1>1. DelegationTypeOK' /\ SessionPart' /\ MessagePart'
  BY Parts DEF DelegationTypeOK, SessionPart, MessagePart, goalVars, sessionVars
<1>2. Effect
  BY QuietEffect DEF Effect, GoalsStay, SessionsStay, AwaitStep, goalVars, sessionVars
<1> QED BY <1>1, <1>2, PartsNext

LEMMA HeadTail ==
  ASSUME NEW S, NEW q \in Seq(S), q # <<>>
  PROVE  Head(q) \in S /\ Tail(q) \in Seq(S)
OBVIOUS

LEMMA OmpReadsEffect ==
  ASSUME ConversationTypeOK, NEW a \in Agents, OmpReads(a)
  PROVE  ConversationTypeOK' /\ Effect
<1> DEFINE p == Head(stdin[a])
           answer(ok) == [kind |-> "response", message |-> p.message, accepted |-> ok]
           begin == [kind |-> "agent_start"]
<1>1. stdin[a] # <<>> /\ stdin' = [stdin EXCEPT ![a] = Tail(@)]
      /\ UNCHANGED <<goalVars, sessionVars, messages, budgetVars>>
  BY DEF OmpReads
<1>2. p \in [message : Nat, follows : BOOLEAN] /\ StdinPart'
  <2>1. p \in [message : Nat, follows : BOOLEAN] /\ Tail(stdin[a]) \in Seq([message : Nat, follows : BOOLEAN])
    <3>1. stdin[a] \in Seq([message : Nat, follows : BOOLEAN])
      BY Parts DEF StdinPart
    <3> QED BY <1>1, <3>1, HeadTail
  <2> HIDE DEF p
  <2> QED BY <1>1, <2>1, Parts DEF StdinPart
<1>3. answer(TRUE) \in Frames /\ answer(FALSE) \in Frames /\ begin \in Frames
  BY <1>2 DEF Frames
<1>4. Emit(a, <<answer(TRUE), begin>>) \/ Emit(a, <<answer(TRUE)>>) \/ Emit(a, <<answer(FALSE)>>)
  BY DEF OmpReads
<1>5. /\ omp' = [omp EXCEPT ![a] = "turn"] \/ UNCHANGED omp
      /\ followUps' = [followUps EXCEPT ![a] = @ + 1] \/ UNCHANGED followUps
  BY DEF OmpReads
<1> HIDE DEF answer, begin, p
<1>6. frames' \in [Agents -> Seq(Frames)] BY <1>3, <1>4, EmitTyped
<1>7. omp' \in [Agents -> {"idle", "turn", "calling", "dead"}] BY <1>5, Parts DEF OmpPart
<1>8. followUps' \in [Agents -> Nat]
  <2>1. followUps \in [Agents -> Nat] /\ followUps[a] + 1 \in Nat
    BY Parts DEF OmpPart
  <2>2. CASE followUps' = [followUps EXCEPT ![a] = @ + 1]
    BY <2>1, <2>2
  <2> QED BY <1>5, <2>1, <2>2
<1>9. OmpPart' BY <1>6, <1>7, <1>8 DEF OmpPart
<1> QED BY <1>1, <1>2, <1>9, OmpEffect, Parts DEF budgetVars

LEMMA OmpAsksEffect ==
  ASSUME ConversationTypeOK, NEW a \in Agents, OmpAsks(a)
  PROVE  ConversationTypeOK' /\ Effect
<1>1. PICK i \in asked[a] + 1 .. Len(Asks[a]) :
        /\ asked' = [asked EXCEPT ![a] = i]
        /\ IF Asks[a][i].tool = "input"
           THEN Emit(a, <<[kind |-> "ui_request"]>>) /\ UNCHANGED omp
           ELSE /\ Emit(a, <<[kind |-> "call", asks |-> Asks[a][i]]>>)
                /\ omp' = [omp EXCEPT ![a] = "calling"]
  BY DEF OmpAsks
<1>2. i \in Nat /\ Asks[a][i] \in Tools \cup [tool : {"input"}]
  BY EnvironmentAssumption, Parts
<1>3. UNCHANGED <<goalVars, sessionVars, postVars, followUps>>
  BY DEF OmpAsks
<1>4. StdinPart' /\ asked' \in [Agents -> Nat]
  BY <1>1, <1>2, <1>3, Parts DEF StdinPart, postVars
<1>5. CASE Asks[a][i].tool = "input"
  <2>1. [kind |-> "ui_request"] \in Frames
    BY DEF Frames
  <2> DEFINE f == [kind |-> "ui_request"]
  <2>2. f \in Frames /\ Emit(a, <<f>>) /\ UNCHANGED omp
    BY <1>1, <1>5, <2>1
  <2> HIDE DEF f
  <2>3. frames' \in [Agents -> Seq(Frames)]
    BY <2>2, EmitTyped
  <2>4. OmpPart'
    BY <1>3, <2>2, <2>3, Parts DEF OmpPart
  <2> QED BY <1>3, <1>4, <2>4, OmpEffect DEF postVars
<1>6. CASE Asks[a][i].tool # "input"
  <2> DEFINE f == [kind |-> "call", asks |-> Asks[a][i]]
  <2>1. Asks[a][i] \in Tools
    BY <1>2, <1>6
  <2>2. f \in Frames
    BY <2>1 DEF Frames
  <2>3. Emit(a, <<f>>) /\ omp' = [omp EXCEPT ![a] = "calling"]
    BY <1>1, <1>6
  <2> HIDE DEF f
  <2>4. frames' \in [Agents -> Seq(Frames)]
    BY <2>2, <2>3, EmitTyped
  <2>5. OmpPart'
    BY <1>3, <2>3, <2>4, Parts DEF OmpPart
  <2> QED BY <1>3, <1>4, <2>5, OmpEffect DEF postVars
<1> QED BY <1>5, <1>6

LEMMA OmpEndsEffect ==
  ASSUME ConversationTypeOK, NEW a \in Agents, OmpEnds(a)
  PROVE  ConversationTypeOK' /\ Effect
<1> DEFINE begin == [kind |-> "agent_start"]
           end(output) == [kind |-> "agent_end", output |-> output]
<1>1. PICK output \in BOOLEAN : Emit(a, <<end(output), begin>>) \/ Emit(a, <<end(output)>>)
  BY DEF OmpEnds
<1>2. /\ omp' = [omp EXCEPT ![a] = "idle"] \/ UNCHANGED omp
      /\ (followUps[a] > 0 /\ followUps' = [followUps EXCEPT ![a] = @ - 1]) \/ UNCHANGED followUps
  BY DEF OmpEnds
<1>3. UNCHANGED <<goalVars, sessionVars, postVars, budgetVars>>
  BY DEF OmpEnds
<1>4. OmpPart'
  <2>1. begin \in Frames /\ end(output) \in Frames
    BY DEF Frames
  <2> HIDE DEF begin, end
  <2>2. frames' \in [Agents -> Seq(Frames)]
    BY <1>1, <2>1, EmitTyped
  <2>3. omp' \in [Agents -> {"idle", "turn", "calling", "dead"}]
    BY <1>2, Parts DEF OmpPart
  <2>4. followUps' \in [Agents -> Nat]
    BY <1>2, Parts DEF OmpPart
  <2> QED BY <2>2, <2>3, <2>4 DEF OmpPart
<1>5. StdinPart' /\ asked' \in [Agents -> Nat]
  BY <1>3, Parts DEF StdinPart, postVars, budgetVars
<1> QED BY <1>3, <1>4, <1>5, OmpEffect DEF postVars

LEMMA OmpDiesEffect ==
  ASSUME ConversationTypeOK, NEW a \in Agents, OmpDies(a)
  PROVE  ConversationTypeOK' /\ Effect
BY OmpEffect, Parts DEF OmpDies, StdinPart, OmpPart, postVars

LEMMA HandlesExitEffect ==
  ASSUME ConversationTypeOK, NEW a \in Agents, HandlesExit(a)
  PROVE  ConversationTypeOK' /\ Effect
<1> DEFINE state == IF goal[a] \in ActiveStates THEN "failed" ELSE goal[a]
<1>1. goal' = [goal EXCEPT ![a] = state]
  BY DEF HandlesExit
<1>2. state \in GoalStates \cup {None} /\ (goal[a] # None => state # None)
  BY Parts, HierarchyAssumption DEF DelegationTypeOK, GoalStates
<1> HIDE DEF state
<1> QED BY <1>1, <1>2, EndEffect DEF HandlesExit

-----------------------------------------------------------------------------
(* The invariant *)

LEMMA NextEffect ==
  ASSUME ConversationTypeOK, ConversationNext
  PROVE  ConversationTypeOK' /\ Effect
<1>1. ASSUME NEW a \in Agents, OwnerActs(a)
      PROVE  ConversationTypeOK' /\ Effect
  BY <1>1, OwnerCreatesEffect, OwnerStartsEffect, OwnerWritesEffect, OwnerCompletesEffect,
     OwnerCancelsEffect DEF OwnerActs
<1>2. ASSUME NEW a \in Agents, HandlesFrame(a)
      PROVE  ConversationTypeOK' /\ Effect
  BY <1>2, HandlesResponseEffect, HandlesStartEffect, HandlesUiRequestEffect, HandlesEndEffect,
     CallCreatesEffect, CallRequestsVerificationEffect, CallSubmitsEffect, CallStartsEffect,
     CallStartFailsEffect, CallStartRefusedEffect, CallSendsEffect, CallSendFailsEffect,
     CallRefusedEffect DEF HandlesFrame
<1>3. ASSUME NEW a \in Agents, OmpActs(a)
      PROVE  ConversationTypeOK' /\ Effect
  BY <1>3, OmpReadsEffect, OmpAsksEffect, OmpEndsEffect, OmpDiesEffect DEF OmpActs
<1> QED
  BY <1>1, <1>2, <1>3, CallReturnsEffect, HandlesExitEffect, TimesOutEffect DEF ConversationNext

\* A goal is created under one that exists, and none ever goes away.
ParentsExist == \A a \in Agents : parent[a] # None => goal[parent[a]] # None

\* A goal below another is a judgement of it, or was delegated.
ParentsDelegate ==
  \A a \in Agents : parent[a] # None =>
    goal[a] # None /\ (parent[a] \in Delegators \/ a \in Verifiers)

\* Whose report is under way has started: if it fails, its sender is awaited
\* again.
ReportersHaveStarted ==
  \A m \in Open : messages[m].report # None => session[messages[m].report] # "none"

ConversationInv ==
  /\ ConversationTypeOK
  /\ ParentsExist
  /\ ParentsDelegate
  /\ AuthorityNarrows
  /\ AwaitedHaveStarted
  /\ ReportersHaveStarted

LEMMA InitInv == ConversationInit => ConversationInv
<1> SUFFICES ASSUME ConversationInit PROVE ConversationInv
  OBVIOUS
<1> USE DEF ConversationInit, DelegationInit
<1>1. DelegationTypeOK BY DEF DelegationTypeOK
<1>2. SessionPart BY DEF SessionPart
<1>3. MessagePart BY EnvironmentAssumption DEF MessagePart
<1>4. StdinPart BY DEF StdinPart
<1>5. OmpPart BY DEF OmpPart
<1>6. asked \in [Agents -> Nat] OBVIOUS
<1>7. ConversationTypeOK BY <1>1, <1>2, <1>3, <1>4, <1>5, <1>6, Parts
<1>8. ParentsExist /\ ParentsDelegate /\ AuthorityNarrows
  BY DEF ParentsExist, ParentsDelegate, AuthorityNarrows
<1>9. AwaitedHaveStarted /\ ReportersHaveStarted
  BY DEF AwaitedHaveStarted, ReportersHaveStarted, Open
<1> QED BY <1>7, <1>8, <1>9 DEF ConversationInv

\* Nobody has a goal below one that does not exist, so that a new goal has no
\* children whose authority it could fall short of.
LEMMA TreeStepNarrows ==
  ASSUME DelegationTypeOK, DelegationTypeOK', GoalsStay, TreeStep, ParentsExist, AuthorityNarrows
  PROVE  ParentsExist' /\ AuthorityNarrows'
<1>0. None \notin Agents
  BY HierarchyAssumption
<1>1. CASE UNCHANGED <<parent, scope>>
  BY <1>0, <1>1 DEF DelegationTypeOK, GoalsStay, ParentsExist, AuthorityNarrows
<1>2. ASSUME NEW a \in Agents, NEW under \in Agents \cup {None},
             NEW authority \in {"none", "isolated_repository"}, TreeGrows(a, under, authority)
      PROVE  ParentsExist' /\ AuthorityNarrows'
  <2>1. /\ goal[a] = None
        /\ parent' = [parent EXCEPT ![a] = under]
        /\ scope' = [scope EXCEPT ![a] = authority]
    BY <1>2 DEF TreeGrows, CreateGoal
  <2>2. \A b \in Agents : parent[b] # a
    BY <2>1, <1>0 DEF ParentsExist
  <2>3. under # a /\ (under # None => goal'[under] # None)
    BY <1>0, <1>2, <2>1 DEF TreeGrows, GoalsStay
  <2>4. ParentsExist'
    BY <1>0, <2>1, <2>3 DEF ParentsExist, GoalsStay, DelegationTypeOK
  <2>5. ASSUME NEW b \in Agents, scope'[b] = "isolated_repository"
        PROVE  /\ CanReceiveIsolatedAuthority(b)
               /\ parent'[b] # None => scope'[parent'[b]] = "isolated_repository"
    <3>1. CASE b = a
      BY <1>2, <2>1, <2>3, <2>5, <3>1 DEF TreeGrows, DelegationTypeOK
    <3>2. CASE b # a
      BY <2>1, <2>2, <2>5, <3>2 DEF AuthorityNarrows, DelegationTypeOK
    <3> QED BY <3>1, <3>2
  <2> QED BY <2>4, <2>5 DEF AuthorityNarrows, CanReceiveIsolatedAuthority
<1> QED BY <1>1, <1>2 DEF TreeStep

LEMMA TreeStepDelegates ==
  ASSUME DelegationTypeOK, GoalsStay, TreeStep, ParentsDelegate
  PROVE  ParentsDelegate'
<1>1. CASE UNCHANGED <<parent, scope>>
  BY <1>1 DEF GoalsStay, ParentsDelegate
<1>2. ASSUME NEW a \in Agents, NEW under \in Agents \cup {None},
             NEW authority \in {"none", "isolated_repository"}, TreeGrows(a, under, authority)
      PROVE  ParentsDelegate'
  <2>1. goal'[a] # None /\ parent' = [parent EXCEPT ![a] = under]
    BY <1>2, HierarchyAssumption DEF TreeGrows, CreateGoal, DelegationTypeOK, GoalStates
  <2> QED BY <1>2, <2>1 DEF TreeGrows, GoalsStay, ParentsDelegate, DelegationTypeOK
<1> QED BY <1>1, <1>2 DEF TreeStep

LEMMA AwaitStepStarted ==
  ASSUME ConversationTypeOK, ConversationTypeOK', SessionsStay, AwaitStep, ReportStep,
         AwaitedHaveStarted, ReportersHaveStarted
  PROVE  AwaitedHaveStarted' /\ ReportersHaveStarted'
<1>1. \A m \in Open : messages[m].report # None => session'[messages[m].report] # "none"
  BY OpenTyped DEF ReportersHaveStarted, SessionsStay
<1>2. ASSUME NEW a \in Agents, NEW c \in awaited'[a]
      PROVE  session'[c] # "none"
  <2>1. CASE c \in awaited[a]
    BY <2>1, Parts DEF AwaitedHaveStarted, SessionsStay, SessionPart
  <2>2. CASE \E m \in Open : messages[m].report = c
    <3>1. c \in Agents /\ c # None
      BY <1>2, PartsNext, HierarchyAssumption DEF SessionPart
    <3> QED BY <2>2, <1>1, <3>1
  <2> QED BY <1>2, <2>1, <2>2 DEF AwaitStep
<1>3. ReportersHaveStarted'
  BY <1>1 DEF ReportersHaveStarted, ReportStep
<1> QED BY <1>2, <1>3 DEF AwaitedHaveStarted

\* The inductive invariant of agents that delegate and write to each other.
\* (Every goal is below one that exists, which can delegate or is judged by it; who is awaited, or has a report under
\* way, has started.)
THEOREM ConversationInvariant == ConversationSpec => []ConversationInv
<1>1. ConversationInv /\ [ConversationNext]_conversationVars => ConversationInv'
  <2> SUFFICES ASSUME ConversationInv, [ConversationNext]_conversationVars PROVE ConversationInv'
    OBVIOUS
  <2>1. CASE ConversationNext
    BY <2>1, NextEffect, TreeStepNarrows, TreeStepDelegates, AwaitStepStarted, Parts, PartsNext DEF ConversationInv, Effect
  <2>2. CASE UNCHANGED conversationVars
    BY <2>2 DEF conversationVars, goalVars, sessionVars, postVars, ompVars, budgetVars,
       ConversationInv, ConversationTypeOK, DelegationTypeOK, ParentsExist, ParentsDelegate,
       AuthorityNarrows, AwaitedHaveStarted, ReportersHaveStarted, Open
  <2> QED BY <2>1, <2>2
<1> QED BY <1>1, InitInv, PTL DEF ConversationSpec

\* Every behaviour of the conversation is type correct: in particular a
\* follow-up only ever reopens a goal that waits or is being verified
\* (submitPrompt).
THEOREM ConversationTypeCorrect == ConversationSpec => []ConversationTypeOK
BY ConversationInvariant, PTL DEF ConversationInv

\* However long the chain of delegation, no goal has more authority over the
\* repository than the one it was created under (createChildGoal,
\* createVerificationGoal).
THEOREM DelegationNarrows == ConversationSpec => []AuthorityNarrows
BY ConversationInvariant, PTL DEF ConversationInv

\* No agent awaits the report of a child that was never started, whichever
\* call to start it failed and whichever report could not be delivered
\* (handleHostToolCall, relayReadOnlyMessage).
THEOREM AwaitedWereStarted == ConversationSpec => []AwaitedHaveStarted
BY ConversationInvariant, PTL DEF ConversationInv

-----------------------------------------------------------------------------
(* Candidates and the gates they have to pass *)

\* Every gatekeeper is independent from everybody who writes.
WritersAreJudged == \A a \in Writers, v \in Gatekeepers : <<v, a>> \in Independent

LEMMA DelegatedFindGates ==
  ASSUME WritersAreJudged, DelegationTypeOK, ParentsDelegate
  PROVE  CandidatesFindGates
<1> SUFFICES ASSUME NEW a \in Writers, parent[a] # None, artifact[a], NEW v \in Gatekeepers
             PROVE  MayRequestVerification(parent[a], a, v)
  BY DEF CandidatesFindGates
<1>1. a \in Agents \ Verifiers /\ v \in Verifiers
  BY HierarchyAssumption
<1>2. goal[a] # None /\ parent[a] \in Delegators
  BY <1>1 DEF ParentsDelegate
<1> QED BY <1>1, <1>2 DEF WritersAreJudged, MayRequestVerification, SupervisesSubject

\* Where every gatekeeper may judge everybody who writes, whoever delegated the
\* making of a candidate can have every gate of it run (createChildGoal,
\* createVerificationGoal).
THEOREM DelegatedCandidatesFindGates ==
  ASSUME WritersAreJudged
  PROVE  ConversationSpec => []CandidatesFindGates
<1>1. ConversationInv => CandidatesFindGates
  BY DelegatedFindGates, Parts DEF ConversationInv
<1> QED BY <1>1, ConversationInvariant, PTL

LEMMA GatesJudgeBuilders == \A v \in GateRoles, b \in Builders : b \in Judged[v]
<1>1. "DIR-TECH" \in Directors /\ GateRoles \subseteq VerifyingRoles
  BY DEF Directors, GateRoles, VerifyingRoles
<1>2. Team["DIR-TECH"] = {"AGT-BACKEND", "AGT-WEB", "AGT-MOBILE", "AGT-INTEGRATIONS", "AGT-VOICE",
                          "AGT-DEPLOY", "AGT-OPS"}
  BY <1>1 DEF Team
<1> QED BY <1>1, <1>2 DEF GateRoles, Builders, Judged

\* The built-in organization is such a one, and so is every part of it: what a
\* verifier may judge is decided once for its role (roleContracts).
THEOREM BuiltInCandidatesFindGates ==
  ASSUME Writers = Builders \cap Agents,
         Gatekeepers \subseteq GateRoles,
         Independent = {j \in Verifiers \X Agents : j[2] \in Judged[j[1]]}
  PROVE  ConversationSpec => []CandidatesFindGates
<1>1. WritersAreJudged
  <2>1. ASSUME NEW a \in Writers, NEW v \in Gatekeepers
        PROVE  <<v, a>> \in Independent
    <3>1. a \in Builders /\ v \in GateRoles /\ <<v, a>> \in Verifiers \X Agents
      BY HierarchyAssumption
    <3>2. a \in Judged[v]
      BY <3>1, GatesJudgeBuilders
    <3> QED BY <3>1, <3>2
  <2> QED BY <2>1 DEF WritersAreJudged
<1> QED BY <1>1, DelegatedCandidatesFindGates

\* In the whole organization everybody reports to somebody of a higher rank,
\* the orchestrator to nobody: the assumption on the hierarchy holds of it
\* (roleContracts).
THEOREM ReportsGoUpwards ==
  ASSUME NEW nobody, nobody \notin Everybody
  PROVE  \E rank \in [Everybody -> 1..3] : \A a \in Everybody :
           ReportsTo(a, nobody) # nobody =>
             /\ ReportsTo(a, nobody) \in Everybody
             /\ rank[a] < rank[ReportsTo(a, nobody)]
<1> DEFINE rank == [a \in Everybody |->
                      IF a = Orchestrator THEN 3 ELSE IF a \in Directors THEN 2 ELSE 1]
<1>1. ASSUME NEW a \in Everybody, ReportsTo(a, nobody) # nobody
      PROVE  /\ ReportsTo(a, nobody) \in Everybody
             /\ rank[a] < rank[ReportsTo(a, nobody)]
  <2>1. CASE a = Orchestrator
    <3>1. a \notin Specialists \cup Directors \cup VerifyingRoles
      BY <2>1, TeamsAssumption DEF Coordinators, Orchestrator, Directors, VerifyingRoles
    <3> QED BY <1>1, <2>1, <3>1 DEF ReportsTo
  <2>2. CASE a \in Specialists
    <3>1. \E d \in Directors : a \in Team[d]
      BY <2>2 DEF Specialists
    <3>2. a \notin Directors \cup VerifyingRoles \cup {Orchestrator}
      BY <2>2, TeamsAssumption DEF Coordinators
    <3>3. ReportsTo(a, nobody) = CHOOSE d \in Directors : a \in Team[d]
      BY <2>2, <3>2 DEF ReportsTo
    <3>4. ReportsTo(a, nobody) \in Directors
      BY <3>1, <3>3
    <3>5. Orchestrator \notin Directors
      BY DEF Orchestrator, Directors
    <3> QED BY <3>2, <3>4, <3>5 DEF Everybody, Coordinators
  <2>3. CASE a \in Directors \cup VerifyingRoles
    <3>1. a # Orchestrator /\ a \notin Specialists
      BY <2>3, TeamsAssumption DEF Coordinators, Orchestrator, Directors, VerifyingRoles
    <3>2. ReportsTo(a, nobody) = Orchestrator
      BY <2>3, <3>1 DEF ReportsTo
    <3> QED BY <3>1, <3>2 DEF Everybody, Coordinators
  <2> QED BY <2>1, <2>2, <2>3 DEF Everybody, Coordinators
<1>2. rank \in [Everybody -> 1..3]
  OBVIOUS
<1> QED BY <1>1, <1>2
=============================================================================
