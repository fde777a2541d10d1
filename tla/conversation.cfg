SPECIFICATION FairConversationSpec
CONSTANTS
  None = None
  Agents = {"DIR-COMMS", "AGT-TRIAGE"}
  Superior <- Superiors
  Delegators <- CoordinatorsHere
  Writers <- BuildersHere
  Verifiers <- VerifiersHere
  Independent <- JudgesHere
  Gatekeepers <- GatesHere
  Integrators <- NoIntegrator
  Asks <- Talk
  Commissioned <- TalkGoals
  Addressees = {}
  MaxMessages = 4
  MaxCrashes = 1
CHECK_DEADLOCK FALSE
INVARIANTS RunningIsWorkedOn
PROPERTIES QueuesDrain
