SPECIFICATION PipelineSpec
CONSTANTS
  h1 = h1
  h2 = h2
  builder = builder
  security = security
  quality = quality
  l1 = l1
  ap1 = ap1
  s1 = s1
  s2 = s2
  Hashes = {h1, h2}
  NoHash = NoHash
  Producer = builder
  Independent = {security}
  SecurityDirectors = {security}
  QualityDirectors = {}
  Labels = {l1}
  ApprovalIds = {ap1}
  Ttl = {1}
  MaxTime = 1
  MaxEvidence = 1
  MaxGates = 0
  Sessions = {s1, s2}
  Inspectors = {security}
  Owner = Owner
  NoLabel = NoLabel
  MaxCalls = 3
  MaxDrift = 1
CONSTRAINT ClockStandsStill
SYMMETRY Interchangeable
CHECK_DEADLOCK FALSE
INVARIANTS PipelineTypeOK AttachedIsOnDisk AbandonedHasNoAuthority
PROPERTIES ImplementsLedger
