----------------------------- MODULE Delegation -----------------------------
(***************************************************************************)
(* The tree of goals: who may create a goal for whom, with how much        *)
(* authority, and who may start it (control-center.ts).                    *)
(* Every agent has at most one goal here, which is named by its owner: the *)
(* supervisor gives an agent no second one before the first is settled.    *)
(***************************************************************************)
EXTENDS GoalLifecycle, Naturals, FiniteSets

CONSTANTS
  Agents,        \* the agents of the organization
  Superior,      \* the agent each one reports to, or None
  Delegators,    \* whose role may delegate
  Writers,       \* whose role may write in an isolated workspace
  Verifiers,     \* whose role is to verify
  Gatekeepers,   \* the verifiers whose passes a release needs
  Independent,   \* pairs of a verifier and a producer it is independent from
  Integrators,   \* pairs of a goal and the integration owner of its workspace
  None           \* no agent, no goal

\* Agents report upwards without a cycle.
ASSUME HierarchyAssumption ==
  /\ None \notin Agents \cup GoalStates
  /\ Superior \in [Agents -> Agents \cup {None}]
  /\ Delegators \cup Writers \cup Verifiers \subseteq Agents
  /\ Writers \cap (Verifiers \cup Delegators) = {}
  /\ Gatekeepers \subseteq Verifiers
  /\ \E rank \in [Agents -> 1..Cardinality(Agents)] :
       \A a \in Agents : Superior[a] # None => rank[a] < rank[Superior[a]]

VARIABLES
  goal,      \* the state of each agent's goal, or None
  parent,    \* the goal it was created under, or None
  scope,     \* its write scope
  artifact   \* whether it has a candidate or a durable outcome attached

goalVars == <<goal, parent, scope, artifact>>

DelegationTypeOK ==
  /\ goal \in [Agents -> GoalStates \cup {None}]
  /\ parent \in [Agents -> Agents \cup {None}]
  /\ scope \in [Agents -> {"none", "isolated_repository"}]
  /\ artifact \in [Agents -> BOOLEAN]

DelegationInit ==
  /\ goal = [a \in Agents |-> None]
  /\ parent = [a \in Agents |-> None]
  /\ scope = [a \in Agents |-> "none"]
  /\ artifact = [a \in Agents |-> FALSE]

-----------------------------------------------------------------------------
\* The superiors of an agent, all the way up.
Above[a \in Agents] ==
  IF Superior[a] = None THEN {} ELSE {Superior[a]} \cup Above[Superior[a]]

IsDescendant(a, ancestor) == ancestor \in Above[a]

\* The agent or one below it may write.
CanReceiveIsolatedAuthority(a) ==
  \E w \in Writers : w = a \/ IsDescendant(w, a)

SupervisesSubject(a, subject) ==
  \/ a = subject
  \/ a = parent[subject]
  \/ <<subject, a>> \in Integrators

\* Parents are never changed, and a goal is created under an existing one.
Root[a \in Agents] == IF parent[a] = None THEN a ELSE Root[parent[a]]
GoalsShareRoot(a, b) == Root[a] = Root[b]

-----------------------------------------------------------------------------
CreateGoal(a, under, authority) ==
  /\ goal[a] = None
  /\ goal' = [goal EXCEPT ![a] = "draft"]
  /\ parent' = [parent EXCEPT ![a] = under]
  /\ scope' = [scope EXCEPT ![a] = authority]
  /\ UNCHANGED artifact

CreateOwnerGoal(a, authority) ==
  /\ authority = "isolated_repository" => CanReceiveIsolatedAuthority(a)
  /\ CreateGoal(a, None, authority)

\* Mutant of ChildScope: the scope of the parent goal is not asked for.
ChildScopeByRole(under, a) ==
  IF CanReceiveIsolatedAuthority(a) THEN "isolated_repository" ELSE "none"

ChildScope(under, a) ==
  IF scope[under] = "isolated_repository" /\ CanReceiveIsolatedAuthority(a)
  THEN "isolated_repository" ELSE "none"

MayCreateChild(requester, a) == requester \in Delegators /\ IsDescendant(a, requester)

\* The requester's own goal is the parent.
CreateChildGoal(requester, a) ==
  /\ MayCreateChild(requester, a)
  /\ CreateGoal(a, requester, ChildScope(requester, a))

MayRequestVerification(requester, subject, v) ==
  /\ requester \in Delegators /\ goal[subject] # None /\ SupervisesSubject(requester, subject)
  /\ v \in Verifiers /\ <<v, subject>> \in Independent
  /\ artifact[subject]

CreateVerificationGoal(requester, subject, v) ==
  /\ MayRequestVerification(requester, subject, v)
  /\ CreateGoal(v, subject, "none")

\* startChildAgent, before it starts anything.
MayStart(requester, a) ==
  \/ IsDescendant(a, requester)
  \/ /\ a \in Verifiers /\ parent[a] # None
     /\ SupervisesSubject(requester, parent[a])
     /\ <<a, parent[a]>> \in Independent

-----------------------------------------------------------------------------
\* No goal below another has more authority over the repository than it, and
\* one that has authority belongs to somebody who can use it or pass it on.
AuthorityNarrows ==
  \A a \in Agents : scope[a] = "isolated_repository" =>
    /\ CanReceiveIsolatedAuthority(a)
    /\ parent[a] # None => scope[parent[a]] = "isolated_repository"

\* A candidate made for somebody's goal never ends up with a gate it cannot
\* get through for want of a verifier its supervisor may ask.
CandidatesFindGates ==
  \A a \in Writers :
    artifact[a] /\ scope[a] = "isolated_repository" /\ parent[a] # None =>
      \A v \in Gatekeepers : MayRequestVerification(parent[a], a, v)
=============================================================================
