--------------------------- MODULE MCConversation ---------------------------
(* Parts of the organization, and what its agents do, for TLC.              *)
EXTENDS Conversation, Organization, TLC

Superiors == [a \in Agents |-> IF ReportsTo(a, None) \in Agents THEN ReportsTo(a, None) ELSE None]
CoordinatorsHere == Coordinators \cap Agents
BuildersHere == Builders \cap Agents
VerifiersHere == VerifyingRoles \cap Agents
GatesHere == GateRoles \cap Agents
JudgesHere == {<<v, a>> \in VerifiersHere \X Agents : a \in Judged[v]}
NoIntegrator == {}

Creates(a) == [tool |-> "create_child_goal", target |-> a]
Starts(a) == [tool |-> "start_child_agent", target |-> a]
Sends(a) == [tool |-> "send_agent_message", target |-> a]
Verifies(v, a) == [tool |-> "request_verification", target |-> v, subject |-> a]
Submits == [tool |-> "submit_candidate"]
Input == [tool |-> "input"]

\* A director and a specialist talk.
Talk ==
  "DIR-COMMS" :> <<Creates("AGT-TRIAGE"), Starts("AGT-TRIAGE"), Starts("AGT-TRIAGE"), Sends("AGT-TRIAGE")>>
    @@ "AGT-TRIAGE" :> <<Sends("DIR-COMMS")>>
TalkGoals == {<<"DIR-COMMS", "none">>}

\* A director has something made and judged.
Work ==
  "DIR-IMPROVE" :> <<Creates("AGT-EXPERIMENT"), Starts("AGT-EXPERIMENT"),
                     Verifies("DIR-QUALITY", "AGT-EXPERIMENT"), Starts("DIR-QUALITY")>>
    @@ "AGT-EXPERIMENT" :> <<Input, Submits>>
    @@ "DIR-QUALITY" :> <<Sends("DIR-IMPROVE")>>
    @@ "DIR-SECURITY" :> <<>>
WorkGoals == {<<"DIR-IMPROVE", "none">>, <<"DIR-IMPROVE", "isolated_repository">>}

\* The owner writes to an agent that waits, here.
OwnerAnswers == \A a \in written' \ written : goal[a] = "waiting_input"
=============================================================================
