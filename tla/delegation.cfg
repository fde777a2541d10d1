SPECIFICATION ConversationSpec
CONSTANTS
  None = None
  Agents = {"DIR-IMPROVE", "AGT-EXPERIMENT", "DIR-QUALITY", "DIR-SECURITY"}
  Superior <- Superiors
  Delegators <- CoordinatorsHere
  Writers <- BuildersHere
  Verifiers <- VerifiersHere
  Independent <- JudgesHere
  Gatekeepers <- GatesHere
  Integrators <- NoIntegrator
  Asks <- Work
  Commissioned <- WorkGoals
  Addressees = {"DIR-IMPROVE"}
  MaxMessages = 6
  MaxCrashes = 0
ACTION_CONSTRAINT OwnerAnswers
CHECK_DEADLOCK FALSE
INVARIANTS ConversationTypeOK AuthorityNarrows AwaitedHaveStarted RunningIsWorkedOn CandidatesFindGates
PROPERTIES TurnsAwaitReports
