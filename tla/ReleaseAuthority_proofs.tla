---------------------- MODULE ReleaseAuthority_proofs ----------------------
(***************************************************************************)
(* Proofs about ReleaseAuthority, for every set of identities, agents,     *)
(* labels, approvals and lifetimes.  LedgerInv is the inductive invariant: *)
(* the types, the two freshness invariants, and the fact that every row of *)
(* release_checks that reads 'pass' still rests on a passing evidence row  *)
(* of the director that recorded it.                                       *)
(***************************************************************************)
EXTENDS ReleaseAuthority, SequenceTheorems, TLAPS

-----------------------------------------------------------------------------
(* What the two UPDATE statements return *)

LEMMA StripApprovalsFacts ==
  ASSUME TypeOK
  PROVE  /\ StripApprovals \in [ApprovalIds -> ApprovalRow]
         /\ \A a \in ApprovalIds : StripApprovals[a].status \notin LiveStatus
<1>1. ASSUME NEW a \in ApprovalIds
      PROVE  /\ StripApprovals[a] \in ApprovalRow
             /\ StripApprovals[a].status \notin LiveStatus
  <2>1. approvals[a] \in ApprovalRow
    BY DEF TypeOK
  <2>2. CASE IsLive(a)
    <3>1. StripApprovals[a] = [approvals[a] EXCEPT !.status = "invalidated"]
      BY <2>2 DEF StripApprovals
    <3>2. QED
      BY <2>1, <3>1 DEF ApprovalRow, LiveStatus, SettledStatus
  <2>3. CASE ~IsLive(a)
    BY <2>1, <2>3 DEF StripApprovals, IsLive
  <2>4. QED
    BY <2>2, <2>3
<1>2. StripApprovals = [a \in ApprovalIds |-> StripApprovals[a]]
  BY DEF StripApprovals
<1>3. QED
  BY <1>1, <1>2

LEMMA StripGatesFacts ==
  ASSUME TypeOK, NEW keep
  PROVE  /\ StripGates(keep) \in Seq(GateRow)
         /\ Len(StripGates(keep)) = Len(gates)
         /\ \A i \in 1 .. Len(gates) :
              /\ StripGates(keep)[i].gate = gates[i].gate
              /\ StripGates(keep)[i].artifact = gates[i].artifact
              /\ StripGates(keep)[i].by = gates[i].by
              /\ StripGates(keep)[i].result = "pass" =>
                   gates[i].result = "pass" /\ gates[i].artifact = keep
              /\ gates[i].result = "fail" => StripGates(keep)[i].result = "fail"
<1>1. Len(gates) \in Nat /\ \A i \in 1 .. Len(gates) : gates[i] \in GateRow
  BY ElementOfSeq, LenProperties DEF TypeOK
<1>2. StripGates(keep) \in [1 .. Len(gates) -> GateRow]
  <2>1. ASSUME NEW i \in 1 .. Len(gates)
        PROVE  (IF gates[i].result = "pass" /\ gates[i].artifact # keep
                  THEN [gates[i] EXCEPT !.result = "invalidated"]
                  ELSE gates[i]) \in GateRow
    BY <1>1 DEF GateRow
  <2>2. QED
    BY <2>1 DEF StripGates
<1>3. StripGates(keep) \in Seq(GateRow) /\ Len(StripGates(keep)) = Len(gates)
  <2>1. StripGates(keep) \in Seq(GateRow)
    BY <1>1, <1>2, SeqDef
  <2>2. QED
    BY <1>1, <1>2, <2>1, LenProperties
<1>4. ASSUME NEW i \in 1 .. Len(gates)
      PROVE  /\ StripGates(keep)[i].gate = gates[i].gate
             /\ StripGates(keep)[i].artifact = gates[i].artifact
             /\ StripGates(keep)[i].by = gates[i].by
             /\ StripGates(keep)[i].result = "pass" =>
                  gates[i].result = "pass" /\ gates[i].artifact = keep
             /\ gates[i].result = "fail" => StripGates(keep)[i].result = "fail"
  <2>1. StripGates(keep)[i] = IF gates[i].result = "pass" /\ gates[i].artifact # keep
                                THEN [gates[i] EXCEPT !.result = "invalidated"]
                                ELSE gates[i]
    BY DEF StripGates
  <2>2. QED
    BY <1>1, <2>1 DEF GateRow
<1>5. QED
  BY <1>3, <1>4

-----------------------------------------------------------------------------
(* The inductive invariant *)

\* A row that reads 'pass' was recorded by a director of its gate, on a passing
\* evidence row of that same director for that same candidate.
PassRestsOnEvidence ==
  \A i \in DOMAIN gates : gates[i].result = "pass" =>
    /\ gates[i].by \in GateDirectors[gates[i].gate]
    /\ [verifier |-> gates[i].by, artifact |-> gates[i].artifact,
        result |-> "pass"] \in evidence

LedgerInv ==
  /\ TypeOK
  /\ LiveApprovalIsCurrent
  /\ PassingGateIsCurrent
  /\ PassRestsOnEvidence

LEMMA GatesAreRows ==
  ASSUME TypeOK
  PROVE  /\ Len(gates) \in Nat
         /\ DOMAIN gates = 1 .. Len(gates)
         /\ \A i \in 1 .. Len(gates) : gates[i] \in GateRow
BY ElementOfSeq, LenProperties DEF TypeOK

LEMMA LedgerInvInit == Init => LedgerInv
<1> SUFFICES ASSUME Init PROVE LedgerInv
  OBVIOUS
<1>1. TypeOK
  <2>1. gates \in Seq(GateRow)
    BY EmptySeq DEF Init
  <2>2. approvals \in [ApprovalIds -> ApprovalRow]
    BY DEF Init, NoApproval, ApprovalRow
  <2>3. QED
    BY <2>1, <2>2 DEF Init, TypeOK, GoalStates
<1>2. LiveApprovalIsCurrent
  BY DEF Init, LiveApprovalIsCurrent, NoApproval, IsLive, LiveStatus
<1>3. DOMAIN gates = {}
  BY DEF Init
<1>4. QED
  BY <1>1, <1>2, <1>3 DEF LedgerInv, PassingGateIsCurrent, PassRestsOnEvidence

\* Losing the candidate strips every live approval and every passing verdict.
LEMMA InvalidationKeepsLedgerInv ==
  ASSUME LedgerInv, Invalidation, goalState' \in GoalStates
  PROVE  LedgerInv'
<1> USE DEF LedgerInv
<1>1. CASE artifact = NoHash
  <2>1. UNCHANGED <<artifact, approvals, gates, evidence, runs, latestRun,
                    expiryEvents, now>>
    BY <1>1 DEF Invalidation, ledger
  <2>2. QED
    BY <2>1 DEF TypeOK, LiveApprovalIsCurrent, PassingGateIsCurrent,
                PassRestsOnEvidence, IsLive
<1>2. CASE artifact # NoHash
  <2>1. /\ artifact' = NoHash
        /\ approvals' = StripApprovals
        /\ gates' = StripGates(NoHash)
        /\ UNCHANGED <<evidence, runs, latestRun, expiryEvents, now>>
    BY <1>2 DEF Invalidation, ledger
  <2>2. TypeOK'
    BY <2>1, StripApprovalsFacts, StripGatesFacts DEF TypeOK
  <2>3. \A a \in ApprovalIds : ~IsLive(a)'
    BY <2>1, StripApprovalsFacts DEF IsLive
  <2>4. \A i \in DOMAIN gates' : gates'[i].result # "pass"
    <3> SUFFICES ASSUME NEW i \in DOMAIN gates', gates'[i].result = "pass"
                 PROVE  FALSE
      OBVIOUS
    <3>1. i \in 1 .. Len(gates)
      BY <2>1, StripGatesFacts, LenProperties
    <3>2. gates[i].artifact = NoHash /\ gates[i] \in GateRow
      BY <2>1, <3>1, StripGatesFacts, GatesAreRows
    <3>3. QED
      BY <3>2, NoHashAssumption DEF GateRow
  <2>5. QED
    BY <2>2, <2>3, <2>4 DEF LiveApprovalIsCurrent, PassingGateIsCurrent,
                            PassRestsOnEvidence
<1>3. QED
  BY <1>1, <1>2

LEMMA AttachKeepsLedgerInv ==
  ASSUME LedgerInv, NEW h \in Hashes, AttachArtifact(h)
  PROVE  LedgerInv'
<1> USE DEF LedgerInv
<1>0. artifact' = h /\ h # NoHash /\ UNCHANGED <<goalState, evidence, runs,
                                    latestRun, expiryEvents, now>>
  BY NoHashAssumption DEF AttachArtifact, ledger
<1>1. CASE artifact \in {NoHash, h}
  <2>1. UNCHANGED <<approvals, gates>>
    BY <1>1 DEF AttachArtifact
  <2>2. TypeOK'
    BY <1>0, <2>1 DEF TypeOK
  <2>3. LiveApprovalIsCurrent'
    BY <1>0, <1>1, <2>1 DEF LiveApprovalIsCurrent, IsLive
  <2>4. PassingGateIsCurrent'
    BY <1>0, <1>1, <2>1 DEF PassingGateIsCurrent
  <2>5. PassRestsOnEvidence'
    BY <1>0, <2>1 DEF PassRestsOnEvidence
  <2>6. QED
    BY <2>2, <2>3, <2>4, <2>5
<1>2. CASE artifact \notin {NoHash, h}
  <2>1. approvals' = StripApprovals /\ gates' = StripGates(h)
    BY <1>2 DEF AttachArtifact
  <2>2. TypeOK'
    BY <1>0, <2>1, StripApprovalsFacts, StripGatesFacts DEF TypeOK
  <2>3. LiveApprovalIsCurrent'
    BY <2>1, StripApprovalsFacts DEF LiveApprovalIsCurrent, IsLive
  <2>4. ASSUME NEW i \in DOMAIN gates', gates'[i].result = "pass" PROVE FALSE
    <3>1. i \in 1 .. Len(gates)
      BY <2>1, StripGatesFacts, LenProperties
    <3>2. gates[i].result = "pass" /\ gates[i].artifact = h
      BY <2>1, <2>4, <3>1, StripGatesFacts
    <3>3. gates[i].artifact = artifact
      BY <3>1, <3>2, GatesAreRows DEF PassingGateIsCurrent
    <3>4. QED
      BY <1>2, <3>2, <3>3
  <2>5. QED
    BY <2>2, <2>3, <2>4 DEF PassingGateIsCurrent, PassRestsOnEvidence
<1>3. QED
  BY <1>1, <1>2

\* A director's verdict adds a row for the current candidate that rests on the
\* director's own evidence.
LEMMA RecordGateKeepsLedgerInv ==
  ASSUME LedgerInv, NEW v \in Independent, NEW g \in GateNames,
         NEW e \in evidence, RecordGate(v, g, e)
  PROVE  LedgerInv'
<1> USE DEF LedgerInv
<1> DEFINE row == [gate |-> g, artifact |-> e.artifact, by |-> v,
                   result |-> IF e.result = "pass" THEN "pass" ELSE "fail"]
<1>1. /\ gates' = Append(gates, row)
      /\ UNCHANGED <<goalState, artifact, evidence, runs, latestRun, approvals,
                     expiryEvents, now>>
  BY DEF RecordGate, ledger
<1>2. e \in EvidenceRow /\ e.artifact = artifact /\ e.verifier = v
      /\ v \in GateDirectors[g] /\ artifact # NoHash
  BY NoHashAssumption DEF RecordGate, TypeOK, EvidenceRow
<1>3. row \in GateRow
  BY <1>2 DEF GateRow, EvidenceRow
<1>4. gates' \in Seq(GateRow)
  BY <1>1, <1>3 DEF TypeOK
<1>5. /\ Len(gates') = Len(gates) + 1
      /\ DOMAIN gates' = 1 .. Len(gates) + 1
      /\ \A i \in 1 .. Len(gates) : gates'[i] = gates[i]
      /\ gates'[Len(gates) + 1] = row
  BY <1>1, <1>3, <1>4, LenProperties DEF TypeOK
<1>6. TypeOK'
  BY <1>1, <1>4 DEF TypeOK
<1>7. LiveApprovalIsCurrent'
  BY <1>1 DEF LiveApprovalIsCurrent, IsLive
<1>8. row.result = "pass" => [verifier |-> v, artifact |-> e.artifact,
                              result |-> "pass"] \in evidence
  <2>1. e.result = "pass" => e = [verifier |-> v, artifact |-> e.artifact,
                                  result |-> "pass"]
    BY <1>2 DEF EvidenceRow
  <2>2. QED
    BY <2>1
<1>9. ASSUME NEW i \in DOMAIN gates', gates'[i].result = "pass"
      PROVE  /\ artifact' # NoHash /\ gates'[i].artifact = artifact'
             /\ gates'[i].by \in GateDirectors[gates'[i].gate]
             /\ [verifier |-> gates'[i].by, artifact |-> gates'[i].artifact,
                 result |-> "pass"] \in evidence'
  <2>1. CASE i = Len(gates) + 1
    BY <1>1, <1>2, <1>5, <1>8, <1>9, <2>1
  <2>2. CASE i # Len(gates) + 1
    <3>1. i \in 1 .. Len(gates) /\ i \in DOMAIN gates
      BY <1>5, <2>2, GatesAreRows
    <3>2. gates'[i] = gates[i] /\ gates[i].result = "pass"
      BY <1>5, <1>9, <3>1
    <3>3. QED
      BY <1>1, <3>1, <3>2 DEF PassingGateIsCurrent, PassRestsOnEvidence
  <2>3. QED
    BY <2>1, <2>2
<1>10. QED
  BY <1>6, <1>7, <1>9 DEF PassingGateIsCurrent, PassRestsOnEvidence

\* A step that leaves the candidate, the verdicts and the evidence in place
\* keeps the invariant if no approval row starts to name another candidate.
LEMMA ApprovalStepKeepsLedgerInv ==
  ASSUME LedgerInv, TypeOK', UNCHANGED <<artifact, gates, evidence>>,
         \A a \in ApprovalIds :
           IsLive(a)' => approvals'[a].artifact = artifact /\ artifact # NoHash
  PROVE  LedgerInv'
BY DEF LedgerInv, LiveApprovalIsCurrent, PassingGateIsCurrent,
       PassRestsOnEvidence

LEMMA RequestKeepsLedgerInv ==
  ASSUME LedgerInv, NEW a \in ApprovalIds, NEW action \in {"release", "other"},
         NEW ttl \in Ttl, RequestApproval(a, action, ttl)
  PROVE  LedgerInv'
<1> USE DEF LedgerInv
<1> DEFINE row == [status |-> "pending", artifact |-> artifact,
                   action |-> action, expires |-> now + ttl]
<1>1. /\ approvals' = [approvals EXCEPT ![a] = row]
      /\ artifact # NoHash
      /\ UNCHANGED <<goalState, artifact, evidence, runs, latestRun, gates,
                     expiryEvents, now>>
  BY DEF RequestApproval, ledger
<1>2. row \in ApprovalRow
  BY <1>1, TimeAssumption DEF TypeOK, ApprovalRow, LiveStatus
<1>3. TypeOK'
  BY <1>1, <1>2 DEF TypeOK
<1>4. ASSUME NEW b \in ApprovalIds, IsLive(b)'
      PROVE  approvals'[b].artifact = artifact
  <2>1. CASE b = a
    BY <1>1, <2>1 DEF TypeOK
  <2>2. CASE b # a
    BY <1>1, <1>4, <2>2 DEF TypeOK, IsLive, LiveApprovalIsCurrent
  <2>3. QED
    BY <2>1, <2>2
<1>5. QED
  BY <1>1, <1>3, <1>4, ApprovalStepKeepsLedgerInv

LEMMA DecideKeepsLedgerInv ==
  ASSUME LedgerInv, NEW a \in ApprovalIds, NEW d \in {"approved", "rejected"},
         Decide(a, d)
  PROVE  LedgerInv'
<1> USE DEF LedgerInv
<1>1. /\ approvals' = [approvals EXCEPT ![a].status = Settlement(a, d)]
      /\ IsLive(a)
      /\ UNCHANGED <<goalState, artifact, evidence, runs, latestRun, gates,
                     expiryEvents, now>>
  BY DEF Decide, ledger, IsLive, LiveStatus
<1>2. Settlement(a, d) \in LiveStatus \cup SettledStatus
  BY DEF Settlement, LiveStatus, SettledStatus
<1>3. approvals'[a] \in ApprovalRow
  BY <1>1, <1>2 DEF TypeOK, ApprovalRow
<1>4. TypeOK'
  BY <1>1, <1>3 DEF TypeOK
<1>5. \A b \in ApprovalIds : approvals'[b].artifact = approvals[b].artifact
  BY <1>1 DEF TypeOK, ApprovalRow
<1>6. \A b \in ApprovalIds : IsLive(b)' => IsLive(b)
  BY <1>1 DEF TypeOK, IsLive
<1>7. QED
  BY <1>1, <1>4, <1>5, <1>6, ApprovalStepKeepsLedgerInv
     DEF LiveApprovalIsCurrent

LEMMA ExpireKeepsLedgerInv ==
  ASSUME LedgerInv, ExpireAuthorizations
  PROVE  LedgerInv'
<1> USE DEF LedgerInv
<1>1. /\ approvals' = [a \in ApprovalIds |->
                         IF Lapsed(a)
                           THEN [approvals[a] EXCEPT !.status = "expired"]
                           ELSE approvals[a]]
      /\ expiryEvents' = expiryEvents \cup {a \in ApprovalIds : Lapsed(a)}
      /\ UNCHANGED <<goalState, artifact, evidence, runs, latestRun, gates, now>>
  BY DEF ExpireAuthorizations
<1>2. ASSUME NEW a \in ApprovalIds
      PROVE  /\ approvals'[a] \in ApprovalRow
             /\ approvals'[a].artifact = approvals[a].artifact
             /\ IsLive(a)' => IsLive(a)
  BY <1>1 DEF TypeOK, ApprovalRow, SettledStatus, IsLive, Lapsed
<1>3. TypeOK'
  <2>1. approvals' \in [ApprovalIds -> ApprovalRow]
    BY <1>1, <1>2
  <2>2. QED
    BY <1>1, <2>1 DEF TypeOK
<1>4. QED
  BY <1>1, <1>2, <1>3, ApprovalStepKeepsLedgerInv DEF LiveApprovalIsCurrent

LEMMA TransitionsAreStates ==
  \A s \in GoalStates : Transitions[s] \subseteq GoalStates
BY DEF GoalStates, Transitions

LEMMA EvidenceKeepsLedgerInv ==
  ASSUME LedgerInv, NEW v \in Independent, NEW r \in Results,
         SubmitEvidence(v, r)
  PROVE  LedgerInv'
<1> USE DEF LedgerInv
<1>1. [verifier |-> v, artifact |-> artifact, result |-> r] \in EvidenceRow
  BY DEF SubmitEvidence, TypeOK, EvidenceRow
<1>2. evidence \subseteq evidence' /\ evidence' \subseteq EvidenceRow
  BY <1>1 DEF SubmitEvidence, TypeOK
<1>3. UNCHANGED <<goalState, artifact, runs, latestRun, gates, approvals,
                  expiryEvents, now>>
  BY DEF SubmitEvidence
<1>4. TypeOK' /\ LiveApprovalIsCurrent' /\ PassingGateIsCurrent'
  BY <1>2, <1>3 DEF TypeOK, LiveApprovalIsCurrent, PassingGateIsCurrent, IsLive
<1>5. PassRestsOnEvidence'
  BY <1>2, <1>3 DEF PassRestsOnEvidence
<1>6. QED
  BY <1>4, <1>5

LEMMA CheckRunKeepsLedgerInv ==
  ASSUME LedgerInv, NEW l \in Labels, NEW h \in Hashes,
         NEW r \in {"pass", "fail"}, RecordCheckRun(l, h, r)
  PROVE  LedgerInv'
<1> USE DEF LedgerInv
<1>1. /\ runs' = [runs EXCEPT ![l][h] = r]
      /\ latestRun' = [latestRun EXCEPT ![l] = h]
      /\ UNCHANGED <<goalState, artifact, evidence, gates, approvals,
                     expiryEvents, now>>
  BY DEF RecordCheckRun
<1>2. TypeOK'
  BY <1>1 DEF TypeOK
<1>3. QED
  BY <1>1, <1>2, ApprovalStepKeepsLedgerInv DEF LiveApprovalIsCurrent, IsLive

\* A step of the lifecycle or of the clock, which leaves the ledger in place.
LEMMA LifecycleStepKeepsLedgerInv ==
  ASSUME LedgerInv, goalState' \in GoalStates, now' \in Nat,
         UNCHANGED <<artifact, evidence, runs, latestRun, gates, approvals,
                     expiryEvents>>
  PROVE  LedgerInv'
BY DEF LedgerInv, TypeOK, LiveApprovalIsCurrent, PassingGateIsCurrent,
       PassRestsOnEvidence, IsLive

LEMMA LedgerInvStep == LedgerInv /\ [Next]_vars => LedgerInv'
<1> SUFFICES ASSUME LedgerInv, [Next]_vars PROVE LedgerInv'
  OBVIOUS
<1>0. goalState \in GoalStates /\ now \in Nat
  BY DEF LedgerInv, TypeOK
<1>1. ASSUME NEW h \in Hashes, AttachArtifact(h) PROVE LedgerInv'
  BY <1>1, AttachKeepsLedgerInv
<1>2. CASE InvalidateArtifact
  BY <1>0, <1>2, InvalidationKeepsLedgerInv DEF InvalidateArtifact
<1>3. CASE DetectDrift
  BY <1>0, <1>3, InvalidationKeepsLedgerInv DEF DetectDrift, GoalStates
<1>4. CASE RetryGoal
  BY <1>4, InvalidationKeepsLedgerInv DEF RetryGoal, GoalStates
<1>5. CASE RollbackGoal
  BY <1>5, InvalidationKeepsLedgerInv DEF RollbackGoal, GoalStates
<1>6. ASSUME NEW next \in GoalStates, TransitionGoal(next) PROVE LedgerInv'
  BY <1>0, <1>6, LifecycleStepKeepsLedgerInv DEF TransitionGoal, ledger
<1>7. ASSUME NEW v \in Independent, NEW r \in Results, SubmitEvidence(v, r)
      PROVE  LedgerInv'
  BY <1>7, EvidenceKeepsLedgerInv
<1>8. ASSUME NEW l \in Labels, NEW h \in Hashes, NEW r \in {"pass", "fail"},
             RecordCheckRun(l, h, r)
      PROVE  LedgerInv'
  BY <1>8, CheckRunKeepsLedgerInv
<1>9. ASSUME NEW v \in Independent, NEW g \in GateNames, NEW e \in evidence,
             RecordGate(v, g, e)
      PROVE  LedgerInv'
  BY <1>9, RecordGateKeepsLedgerInv
<1>10. CASE CompleteGoal
  BY <1>0, <1>10, LifecycleStepKeepsLedgerInv DEF CompleteGoal, ledger, GoalStates
<1>11. ASSUME NEW a \in ApprovalIds, NEW action \in {"release", "other"},
              NEW ttl \in Ttl, RequestApproval(a, action, ttl)
       PROVE  LedgerInv'
  BY <1>11, RequestKeepsLedgerInv
<1>12. ASSUME NEW a \in ApprovalIds, NEW d \in {"approved", "rejected"},
              Decide(a, d)
       PROVE  LedgerInv'
  BY <1>12, DecideKeepsLedgerInv
<1>13. CASE ExpireAuthorizations
  BY <1>13, ExpireKeepsLedgerInv
<1>14. CASE Tick
  BY <1>0, <1>14, LifecycleStepKeepsLedgerInv DEF Tick
<1>15. CASE UNCHANGED vars
  BY <1>0, <1>15, LifecycleStepKeepsLedgerInv DEF vars
<1>16. QED
  BY <1>1, <1>2, <1>3, <1>4, <1>5, <1>6, <1>7, <1>8, <1>9, <1>10, <1>11,
     <1>12, <1>13, <1>14, <1>15 DEF Next

\* The inductive invariant holds of every behaviour of the ledger.
THEOREM LedgerInvariant == Spec => []LedgerInv
BY LedgerInvInit, LedgerInvStep, PTL DEF Spec

\* The rows written by store.ts and approvals.ts always have their types.
THEOREM TypeCorrect == Spec => []TypeOK
<1>1. LedgerInv => TypeOK
  BY DEF LedgerInv
<1>2. QED
  BY <1>1, LedgerInvariant, PTL

\* No pending or approved request outlives the candidate it was made for
\* (attachArtifact, invalidateArtifact and ApprovalAuthority.request).
THEOREM ApprovalsAreCurrent == Spec => []LiveApprovalIsCurrent
<1>1. LedgerInv => LiveApprovalIsCurrent
  BY DEF LedgerInv
<1>2. QED
  BY <1>1, LedgerInvariant, PTL

\* No passing row of release_checks outlives its candidate.
THEOREM PassesAreCurrent == Spec => []PassingGateIsCurrent
<1>1. LedgerInv => PassingGateIsCurrent
  BY DEF LedgerInv
<1>2. QED
  BY <1>1, LedgerInvariant, PTL

-----------------------------------------------------------------------------
(* What follows from it *)

LEMMA ReadyNeedsTwo == LedgerInv => ReadyTakesTwoVerifiers
<1> SUFFICES ASSUME LedgerInv, NEW h \in Hashes, ReleaseReady(h)
             PROVE  \E s \in SecurityDirectors, q \in QualityDirectors :
                      /\ s # q
                      /\ Producer \notin {s, q}
                      /\ \A v \in {s, q} :
                           [verifier |-> v, artifact |-> h,
                            result |-> "pass"] \in evidence
  BY DEF ReadyTakesTwoVerifiers
<1>1. ASSUME NEW g \in GateNames
      PROVE  \E v \in GateDirectors[g] \cap Independent :
               [verifier |-> v, artifact |-> h, result |-> "pass"] \in evidence
  <2>1. PICK i \in DOMAIN gates : /\ gates[i].gate = g
                                  /\ gates[i].artifact = h
                                  /\ gates[i].result = "pass"
    BY DEF ReleaseReady, LatestPasses
  <2>2. gates[i] \in GateRow
    BY <2>1, GatesAreRows DEF LedgerInv
  <2>3. gates[i].by \in Independent
    BY <2>2 DEF GateRow
  <2>4. QED
    BY <2>1, <2>3 DEF LedgerInv, PassRestsOnEvidence
<1>2. PICK s \in SecurityDirectors \cap Independent :
        [verifier |-> s, artifact |-> h, result |-> "pass"] \in evidence
  BY <1>1 DEF GateNames, GateDirectors
<1>3. PICK q \in QualityDirectors \cap Independent :
        [verifier |-> q, artifact |-> h, result |-> "pass"] \in evidence
  BY <1>1 DEF GateNames, GateDirectors
<1>4. s # q /\ Producer \notin {s, q}
  BY RolesAssumption, ProducerAssumption
<1>5. QED
  BY <1>2, <1>3, <1>4

\* A release-ready candidate was passed by two verifiers with different roles,
\* neither of them its producer, each on evidence of its own.
THEOREM ReadyRestsOnTwoVerifiers == Spec => []ReadyTakesTwoVerifiers
BY LedgerInvariant, ReadyNeedsTwo, PTL

\* A row that survives a step keeps a failed verdict failed.
LEMMA FailurePersists ==
  ASSUME TypeOK, [Next]_vars, NEW g, NEW h, Failed(g, h)
  PROVE  Failed(g, h)'
<1>1. PICK i \in 1 .. Len(gates) : /\ gates[i].gate = g
                                   /\ gates[i].artifact = h
                                   /\ gates[i].result = "fail"
  BY GatesAreRows DEF Failed
<1>2. \/ UNCHANGED gates
      \/ \E keep : gates' = StripGates(keep)
      \/ \E row : gates' = Append(gates, row)
  BY DEF Next, vars, ledger, AttachArtifact, InvalidateArtifact, DetectDrift,
         RetryGoal, RollbackGoal, Invalidation, TransitionGoal, SubmitEvidence,
         RecordCheckRun, RecordGate, CompleteGoal, RequestApproval, Decide,
         ExpireAuthorizations, Tick
<1>3. CASE UNCHANGED gates
  BY <1>1, <1>3 DEF Failed
<1>4. ASSUME NEW keep, gates' = StripGates(keep) PROVE Failed(g, h)'
  <2>1. i \in DOMAIN gates'
    BY <1>4, StripGatesFacts, LenProperties
  <2>2. QED
    BY <1>1, <1>4, <2>1, StripGatesFacts DEF Failed
<1>5. ASSUME NEW row, gates' = Append(gates, row) PROVE Failed(g, h)'
  <2>1. DOMAIN gates' = 1 .. Len(gates) + 1 /\ gates'[i] = gates[i]
    BY <1>5, GatesAreRows DEF TypeOK
  <2>2. i \in DOMAIN gates'
    BY <2>1, GatesAreRows
  <2>3. QED
    BY <1>1, <2>1, <2>2 DEF Failed
<1>6. QED
  BY <1>2, <1>3, <1>4, <1>5

\* A failed verdict on a candidate is never erased (neither UPDATE statement
\* touches a row whose result is 'fail', and recordGate only adds rows).
THEOREM FailuresAreTerminal == Spec => FailureIsTerminal
<1>1. TypeOK /\ [Next]_vars =>
        [\A g \in GateNames, h \in Hashes : Failed(g, h) => Failed(g, h)']_vars
  BY FailurePersists
<1>2. QED
  BY <1>1, TypeCorrect, PTL DEF Spec, FailureIsTerminal

\* One row moves forward when all that changes is its status, along Forward.
Moves(a) ==
  approvals[a]' # approvals[a] =>
    /\ approvals[a].status' \in Forward[approvals[a].status]
    /\ approvals[a].status # "absent" =>
         approvals[a]' = [approvals[a] EXCEPT !.status = approvals[a].status']

LEMMA RowsMoveForward ==
  ASSUME TypeOK, [Next]_vars, NEW a \in ApprovalIds
  PROVE  Moves(a)
<1>0. approvals[a] \in ApprovalRow /\ approvals \in [ApprovalIds -> ApprovalRow]
  BY DEF TypeOK
<1>1. CASE UNCHANGED approvals
  BY <1>1 DEF Moves
<1>2. CASE approvals' = StripApprovals
  <2>1. approvals'[a] = IF IsLive(a)
                          THEN [approvals[a] EXCEPT !.status = "invalidated"]
                          ELSE approvals[a]
    BY <1>2 DEF StripApprovals
  <2>2. QED
    BY <1>0, <2>1 DEF Moves, IsLive, LiveStatus, Forward, ApprovalRow
<1>3. CASE \E b \in ApprovalIds, action \in {"release", "other"}, ttl \in Ttl :
             RequestApproval(b, action, ttl)
  <2>1. PICK b \in ApprovalIds, action \in {"release", "other"}, ttl \in Ttl :
          RequestApproval(b, action, ttl)
    BY <1>3
  <2>2. CASE a = b
    BY <1>0, <2>1, <2>2 DEF RequestApproval, Moves, Forward
  <2>3. CASE a # b
    BY <1>0, <2>1, <2>3 DEF RequestApproval, Moves
  <2>4. QED
    BY <2>2, <2>3
<1>4. CASE \E b \in ApprovalIds, d \in {"approved", "rejected"} : Decide(b, d)
  <2>1. PICK b \in ApprovalIds, d \in {"approved", "rejected"} : Decide(b, d)
    BY <1>4
  <2>2. CASE a = b
    BY <1>0, <2>1, <2>2 DEF Decide, Settlement, Moves, Forward, ApprovalRow
  <2>3. CASE a # b
    BY <1>0, <2>1, <2>3 DEF Decide, Moves
  <2>4. QED
    BY <2>2, <2>3
<1>5. CASE ExpireAuthorizations
  <2>1. approvals'[a] = IF Lapsed(a)
                          THEN [approvals[a] EXCEPT !.status = "expired"]
                          ELSE approvals[a]
    BY <1>5 DEF ExpireAuthorizations
  <2>2. QED
    BY <1>0, <2>1 DEF Moves, Lapsed, IsLive, LiveStatus, Forward, ApprovalRow
<1>6. \/ UNCHANGED approvals
      \/ approvals' = StripApprovals
      \/ \E b \in ApprovalIds, action \in {"release", "other"}, ttl \in Ttl :
           RequestApproval(b, action, ttl)
      \/ \E b \in ApprovalIds, d \in {"approved", "rejected"} : Decide(b, d)
      \/ ExpireAuthorizations
  BY DEF Next, vars, ledger, AttachArtifact, InvalidateArtifact, DetectDrift,
         RetryGoal, RollbackGoal, Invalidation, TransitionGoal, SubmitEvidence,
         RecordCheckRun, RecordGate, CompleteGoal, Tick
<1>7. QED
  BY <1>1, <1>2, <1>3, <1>4, <1>5, <1>6

\* An approval row never changes what it authorizes and never moves backwards,
\* so a rejected, expired or invalidated request cannot become authority again.
THEOREM ApprovalsMoveForward == Spec => ApprovalsOnlyMoveForward
<1>1. TypeOK /\ [Next]_vars => [\A a \in ApprovalIds : Moves(a)]_vars
  BY RowsMoveForward
<1>2. QED
  BY <1>1, TypeCorrect, PTL DEF Spec, ApprovalsOnlyMoveForward, Moves
=============================================================================
