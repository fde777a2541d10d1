-------------------------- MODULE ReleaseAuthority --------------------------
(***************************************************************************)
(* The ledger of authority over one repository-bound goal: the goal's      *)
(* lifecycle state and attached candidate (store.ts), the evidence, check  *)
(* runs and release gates recorded against candidates, and the owner's     *)
(* approvals with their expiry (approvals.ts).                             *)
(*                                                                         *)
(* Every operation here is one synchronous stretch of the controller: it   *)
(* runs on one Node thread against a synchronous SQLite handle, so nothing *)
(* interleaves inside it.  Who calls an operation and when is left open:   *)
(* the asynchronous callers are the subject of CandidatePipeline, whose    *)
(* steps are steps of this module.                                         *)
(*                                                                         *)
(* The statements of store.ts and approvals.ts all filter on goal_id, so   *)
(* one goal stands for each of them.  A candidate identity is the SHA-256  *)
(* of a worktree manifest and is an element of Hashes: equal hashes mean   *)
(* equal contents.                                                         *)
(***************************************************************************)
EXTENDS Integers, Sequences, FiniteSets, GoalLifecycle

CONSTANTS
  Hashes,            \* candidate identities
  NoHash,            \* goals.artifact_identity IS NULL
  Producer,          \* the agent that owns the goal
  Independent,       \* verifiers whose role is independent of the producer's
  SecurityDirectors, \* agents holding ROLE-SECURITY-DIRECTOR
  QualityDirectors,  \* agents holding ROLE-QUALITY-DIRECTOR
  Labels,            \* goals.required_checks_json
  ApprovalIds,       \* approval_id values
  Ttl,               \* lifetimes an approval request may have
  MaxTime,           \* bound: last instant of the clock
  MaxEvidence,       \* bound: rows of the evidence table
  MaxGates           \* bound: rows of the release_checks table

ASSUME NoHashAssumption == NoHash \notin Hashes
ASSUME ProducerAssumption == Producer \notin Independent
ASSUME RolesAssumption == SecurityDirectors \cap QualityDirectors = {}
ASSUME TimeAssumption == Ttl \subseteq Nat \ {0} /\ MaxTime \in Nat

VARIABLES
  goalState,     \* goals.state
  artifact,      \* goals.artifact_identity
  evidence,      \* evidence rows
  runs,          \* check_runs: result of the latest run of a label on a hash
  latestRun,     \* check_runs: the hash the latest run of a label was made on
  gates,         \* release_checks rows in rowid order
  approvals,     \* approvals rows by approval_id
  expiryEvents,  \* approvals with an approval.expired event
  now            \* Date.now()

vars == <<goalState, artifact, evidence, runs, latestRun, gates, approvals,
          expiryEvents, now>>

Results == {"pass", "fail", "unverified"}
GateNames == {"security", "quality"}
GateDirectors == [security |-> SecurityDirectors, quality |-> QualityDirectors]
LiveStatus == {"pending", "approved"}
SettledStatus == {"rejected", "expired", "invalidated"}

EvidenceRow == [verifier : Independent, artifact : Hashes, result : Results]
GateRow == [gate : GateNames, artifact : Hashes,
            result : {"pass", "fail", "invalidated"}, by : Independent]
ApprovalRow == [status   : {"absent"} \cup LiveStatus \cup SettledStatus,
                artifact : Hashes \cup {NoHash},
                action   : {"release", "other"},
                expires  : Nat]

TypeOK ==
  /\ goalState \in GoalStates
  /\ artifact \in Hashes \cup {NoHash}
  /\ evidence \subseteq EvidenceRow
  /\ runs \in [Labels -> [Hashes -> {"none", "pass", "fail"}]]
  /\ latestRun \in [Labels -> Hashes \cup {NoHash}]
  /\ gates \in Seq(GateRow)
  /\ approvals \in [ApprovalIds -> ApprovalRow]
  /\ expiryEvents \subseteq ApprovalIds
  /\ now \in Nat

NoApproval == [status |-> "absent", artifact |-> NoHash, action |-> "other",
               expires |-> 0]

Init ==
  /\ goalState = "draft"
  /\ artifact = NoHash
  /\ evidence = {}
  /\ runs = [l \in Labels |-> [h \in Hashes |-> "none"]]
  /\ latestRun = [l \in Labels |-> NoHash]
  /\ gates = <<>>
  /\ approvals = [a \in ApprovalIds |-> NoApproval]
  /\ expiryEvents = {}
  /\ now = 0

ledger == <<evidence, runs, latestRun, expiryEvents, now>>

-----------------------------------------------------------------------------
(* The candidate attached to the goal *)

IsLive(a) == approvals[a].status \in LiveStatus

\* Seeded fault: the WHERE clause on the status is missing.
StripApprovalsOfAnyStatus ==
  [a \in ApprovalIds |->
     IF approvals[a].status = "absent"
       THEN approvals[a]
       ELSE [approvals[a] EXCEPT !.status = "invalidated"]]

\* UPDATE approvals SET status = 'invalidated' WHERE status IN (...)
StripApprovals ==
  [a \in ApprovalIds |->
     IF IsLive(a) THEN [approvals[a] EXCEPT !.status = "invalidated"]
                  ELSE approvals[a]]

\* Seeded fault: failed verdicts are invalidated together with passes.
StripGatesOfAnyResult(keep) ==
  [i \in 1 .. Len(gates) |->
     IF gates[i].artifact # keep
       THEN [gates[i] EXCEPT !.result = "invalidated"]
       ELSE gates[i]]

\* UPDATE release_checks SET result = 'invalidated'
\*   WHERE result = 'pass' AND artifact_hash != keep
StripGates(keep) ==
  [i \in 1 .. Len(gates) |->
     IF gates[i].result = "pass" /\ gates[i].artifact # keep
       THEN [gates[i] EXCEPT !.result = "invalidated"]
       ELSE gates[i]]

\* Seeded fault: approvals survive the replacement of the candidate.
AttachKeepingApprovals(h) ==
  /\ artifact' = h
  /\ IF artifact \in {NoHash, h} THEN UNCHANGED gates ELSE gates' = StripGates(h)
  /\ UNCHANGED <<goalState, approvals, ledger>>

\* A candidate identity is attached, replacing the previous one.
AttachArtifact(h) ==
  /\ artifact' = h
  /\ IF artifact \in {NoHash, h}
       THEN UNCHANGED <<approvals, gates>>
       ELSE approvals' = StripApprovals /\ gates' = StripGates(h)
  /\ UNCHANGED <<goalState, ledger>>

\* Seeded fault: passing gates survive the loss of the candidate.
InvalidationKeepingGates ==
  /\ artifact' = NoHash
  /\ IF artifact = NoHash THEN UNCHANGED approvals
                         ELSE approvals' = StripApprovals
  /\ UNCHANGED <<gates, ledger>>

\* The candidate loses its identity and with it every live authority.
Invalidation ==
  /\ artifact' = NoHash
  /\ IF artifact = NoHash
       THEN UNCHANGED <<approvals, gates>>
       ELSE approvals' = StripApprovals /\ gates' = StripGates(NoHash)
  /\ UNCHANGED ledger

InvalidateArtifact == Invalidation /\ UNCHANGED goalState

\* Recomputation found other contents than those attached: the candidate is
\* invalidated and an active goal is blocked.
DetectDrift ==
  /\ Invalidation
  /\ goalState' = IF goalState \in ActiveStates THEN "blocked" ELSE goalState

\* The owner authorizes another attempt.
RetryGoal ==
  /\ goalState \in Retryable
  /\ Invalidation
  /\ goalState' = "queued"

\* The owner abandons the attempt.
RollbackGoal ==
  /\ goalState \in Abandonable
  /\ Invalidation
  /\ goalState' = "rolled_back"

\* Every other lifecycle transition (dispatch, turn end, crash, cancel ...).
TransitionGoal(next) ==
  /\ next \in Transitions[goalState] \ {"complete", "rolled_back"}
  /\ next = "queued" => goalState = "draft"
  /\ goalState' = next
  /\ UNCHANGED <<artifact, gates, approvals, ledger>>

-----------------------------------------------------------------------------
(* Evidence, check runs and gates *)

\* An independent verifier submits its verdict on the current candidate.
SubmitEvidence(v, r) ==
  /\ artifact # NoHash
  /\ Cardinality(evidence) < MaxEvidence
  /\ evidence' = evidence \cup
                   {[verifier |-> v, artifact |-> artifact, result |-> r]}
  /\ UNCHANGED <<goalState, artifact, runs, latestRun, gates, approvals,
                 expiryEvents, now>>

\* A check run with label l is inserted for the identity h the runner computed.
RecordCheckRun(l, h, r) ==
  /\ runs' = [runs EXCEPT ![l][h] = r]
  /\ latestRun' = [latestRun EXCEPT ![l] = h]
  /\ UNCHANGED <<goalState, artifact, evidence, gates, approvals,
                 expiryEvents, now>>

\* Seeded fault: the evidence may be another verifier's.
RecordGateOnAnyEvidence(v, g, e) ==
  /\ v \in GateDirectors[g]
  /\ e.artifact = artifact
  /\ Len(gates) < MaxGates
  /\ gates' = Append(gates,
                [gate |-> g, artifact |-> e.artifact, by |-> v,
                 result |-> IF e.result = "pass" THEN "pass" ELSE "fail"])
  /\ UNCHANGED <<goalState, artifact, approvals, ledger>>

\* Seeded fault: the verdict is stored as the evidence states it.
RecordGateVerbatim(v, g, e) ==
  /\ v \in GateDirectors[g]
  /\ e.verifier = v
  /\ e.artifact = artifact
  /\ Len(gates) < MaxGates
  /\ gates' = Append(gates, [gate |-> g, artifact |-> e.artifact, by |-> v,
                             result |-> e.result])
  /\ UNCHANGED <<goalState, artifact, approvals, ledger>>

\* Verifier v turns its evidence row e into a verdict of gate g; a result
\* other than pass is stored as fail.
RecordGate(v, g, e) ==
  /\ v \in GateDirectors[g]
  /\ e.verifier = v
  /\ e.artifact = artifact
  /\ Len(gates) < MaxGates
  /\ gates' = Append(gates,
                [gate |-> g, artifact |-> e.artifact, by |-> v,
                 result |-> IF e.result = "pass" THEN "pass" ELSE "fail"])
  /\ UNCHANGED <<goalState, artifact, approvals, ledger>>

\* Completion needs independent passing evidence for the current candidate
\* and, for every required label, a latest run that passed on it.
CompletionEvaluates ==
  /\ goalState = "verifying"
  /\ artifact # NoHash
  /\ \E e \in evidence : e.artifact = artifact /\ e.result = "pass"
  /\ \A l \in Labels : latestRun[l] = artifact /\ runs[l][artifact] = "pass"

CompleteGoal ==
  /\ CompletionEvaluates
  /\ goalState' = "complete"
  /\ UNCHANGED <<artifact, gates, approvals, ledger>>
-----------------------------------------------------------------------------
(* Approvals *)

\* The producer asks the owner to approve an action on the current candidate.
RequestApproval(a, action, ttl) ==
  /\ approvals[a].status = "absent"
  /\ artifact # NoHash
  /\ now + ttl <= MaxTime
  /\ approvals' = [approvals EXCEPT ![a] =
                     [status |-> "pending", artifact |-> artifact,
                      action |-> action, expires |-> now + ttl]]
  /\ UNCHANGED <<goalState, artifact, gates, ledger>>

\* What becomes of a pending request when the owner answers it: a request
\* that has run out or whose candidate changed is settled instead of decided.
Settlement(a, decision) ==
  IF approvals[a].expires <= now THEN "expired"
  ELSE IF approvals[a].artifact # artifact THEN "invalidated"
  ELSE decision

\* The owner decides a pending request.  No branch that settles the request
\* records approval.expired.
Decide(a, decision) ==
  /\ approvals[a].status = "pending"
  /\ approvals' = [approvals EXCEPT ![a].status = Settlement(a, decision)]
  /\ UNCHANGED <<goalState, artifact, gates, ledger>>

\* Seeded fault: only unanswered requests run out.
LapsedRequest(a) == approvals[a].status = "pending" /\ approvals[a].expires <= now

Lapsed(a) == IsLive(a) /\ approvals[a].expires <= now

\* The approval timer, and the first step of every release evaluation.
ExpireAuthorizations ==
  /\ \E a \in ApprovalIds : Lapsed(a)
  /\ approvals' = [a \in ApprovalIds |->
                     IF Lapsed(a) THEN [approvals[a] EXCEPT !.status = "expired"]
                                  ELSE approvals[a]]
  /\ expiryEvents' = expiryEvents \cup {a \in ApprovalIds : Lapsed(a)}
  /\ UNCHANGED <<goalState, artifact, evidence, runs, latestRun, gates, now>>

Tick ==
  /\ now < MaxTime
  /\ now' = now + 1
  /\ UNCHANGED <<goalState, artifact, evidence, runs, latestRun, gates,
                 approvals, expiryEvents>>

-----------------------------------------------------------------------------
(* The release decision, as a function of the ledger *)

Failed(g, h) == \E i \in DOMAIN gates :
                  /\ gates[i].gate = g
                  /\ gates[i].artifact = h
                  /\ gates[i].result = "fail"

\* The latest row of the gate for this candidate is a pass.
LatestPasses(g, h) ==
  \E i \in DOMAIN gates :
    /\ gates[i].gate = g
    /\ gates[i].artifact = h
    /\ gates[i].result = "pass"
    /\ \A j \in DOMAIN gates :
         gates[j].gate = g /\ gates[j].artifact = h => j <= i

ReleaseReady(h) ==
  /\ artifact = h
  /\ \A g \in GateNames : ~Failed(g, h) /\ LatestPasses(g, h)
  /\ goalState = "complete"
  /\ \A l \in Labels : runs[l][h] = "pass"
  /\ \E a \in ApprovalIds :
       /\ approvals[a].status = "approved"
       /\ approvals[a].artifact = h
       /\ approvals[a].action = "release"
       /\ approvals[a].expires > now

-----------------------------------------------------------------------------
Next ==
  \/ \E h \in Hashes : AttachArtifact(h)
  \/ InvalidateArtifact
  \/ DetectDrift
  \/ RetryGoal
  \/ RollbackGoal
  \/ \E next \in GoalStates : TransitionGoal(next)
  \/ \E v \in Independent, r \in Results : SubmitEvidence(v, r)
  \/ \E l \in Labels, h \in Hashes, r \in {"pass", "fail"} :
        RecordCheckRun(l, h, r)
  \/ \E v \in Independent, g \in GateNames, e \in evidence : RecordGate(v, g, e)
  \/ CompleteGoal
  \/ \E a \in ApprovalIds, action \in {"release", "other"}, ttl \in Ttl :
        RequestApproval(a, action, ttl)
  \/ \E a \in ApprovalIds, d \in {"approved", "rejected"} : Decide(a, d)
  \/ ExpireAuthorizations
  \/ Tick

Spec == Init /\ [][Next]_vars

\* The approval timer runs for as long as the controller does and time passes;
\* nothing else is promised: agents and the owner may stop at any point.
FairSpec == Spec /\ WF_vars(Tick) /\ WF_vars(ExpireAuthorizations)

-----------------------------------------------------------------------------
(* Properties *)

\* No approval outlives its candidate: whatever sequence of submissions,
\* writes, retries and rollbacks occurs, a pending or approved request always
\* names the candidate attached now.  (attachArtifact and invalidateArtifact
\* must each strip every live approval, and request must bind to the current
\* identity; returning to an earlier candidate must not revive its approval.)
LiveApprovalIsCurrent ==
  \A a \in ApprovalIds :
    IsLive(a) => artifact # NoHash /\ approvals[a].artifact = artifact

\* No passing verdict outlives its candidate: a release_checks row with
\* result 'pass' always names the candidate attached now.
PassingGateIsCurrent ==
  \A i \in DOMAIN gates :
    gates[i].result = "pass" => artifact # NoHash /\ gates[i].artifact = artifact

\* A release-ready candidate was passed, on evidence of their own, by two
\* different verifiers, one holding each director role, neither of which is
\* the agent that produced it (recordGate together with evaluateRelease).
ReadyTakesTwoVerifiers ==
  \A h \in Hashes : ReleaseReady(h) =>
    \E s \in SecurityDirectors, q \in QualityDirectors :
      /\ s # q
      /\ Producer \notin {s, q}
      /\ \A v \in {s, q} :
           [verifier |-> v, artifact |-> h, result |-> "pass"] \in evidence

\* A failed verdict on a candidate is never erased, not by later passes, nor by
\* replacing the candidate and submitting the same contents again.
FailureIsTerminal ==
  [][\A g \in GateNames, h \in Hashes : Failed(g, h) => Failed(g, h)']_vars

\* An approval row only moves forward: what is requested never changes, a
\* settled row never changes at all, and an approval is only ever withdrawn
\* by expiry or by the loss of its candidate.
Forward ==
  [absent      |-> {"pending"},
   pending     |-> {"approved", "rejected", "expired", "invalidated"},
   approved    |-> {"expired", "invalidated"},
   rejected    |-> {},
   expired     |-> {},
   invalidated |-> {}]

ApprovalsOnlyMoveForward ==
  [][\A a \in ApprovalIds :
       approvals[a]' # approvals[a] =>
         /\ approvals[a].status' \in Forward[approvals[a].status]
         /\ approvals[a].status # "absent" =>
              approvals[a]' = [approvals[a] EXCEPT !.status = approvals[a].status']]_vars

\* Authority never lasts: every pending or approved request stops being live,
\* because the approval timer keeps running while time passes.
EveryAuthorityLapses ==
  \A a \in ApprovalIds : IsLive(a) ~> ~IsLive(a)
=============================================================================
