SPECIFICATION FairSpec
CONSTANTS
  h1 = h1
  h2 = h2
  builder = builder
  security = security
  quality = quality
  critic = critic
  l1 = l1
  ap1 = ap1
  ap2 = ap2
  Hashes = {h1, h2}
  NoHash = NoHash
  Producer = builder
  Independent = {security, quality}
  SecurityDirectors = {security}
  QualityDirectors = {quality}
  Labels = {}
  ApprovalIds = {ap1}
  Ttl = {1}
  MaxTime = 1
  MaxEvidence = 2
  MaxGates = 2
INVARIANTS TypeOK LiveApprovalIsCurrent PassingGateIsCurrent ReadyTakesTwoVerifiers
PROPERTIES FailureIsTerminal ApprovalsOnlyMoveForward EveryAuthorityLapses
