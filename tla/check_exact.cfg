SPECIFICATION PipelineSpec
CONSTANTS
  h1 = h1
  h2 = h2
  builder = builder
  security = security
  quality = quality
  l1 = l1
  ap1 = ap1
  s1 = s1
  s2 = s2
  Hashes = {h1, h2}
  NoHash = NoHash
  Producer = builder
  Independent = {security}
  SecurityDirectors = {security}
  QualityDirectors = {}
  Labels = {l1}
  ApprovalIds = {}
  Ttl = {1}
  MaxTime = 1
  MaxEvidence = 1
  MaxGates = 0
  Sessions = {s1}
  Inspectors = {security}
  Owner = Owner
  NoLabel = NoLabel
  MaxCalls = 5
  MaxDrift = 0
SYMMETRY Interchangeable
CHECK_DEADLOCK FALSE
INVARIANTS CompletionIsOfCheckedContents
