SPECIFICATION FairHostSpec
CONSTANTS
  p1 = p1
  p2 = p2
  p3 = p3
  l1 = l1
  l2 = l2
  l3 = l3
  None = None
  Controllers = {p1, p2}
  Launchers = {l1, l2}
  MaxCrashes = 1
CHECK_DEADLOCK FALSE
INVARIANTS HostTypeOK LifecycleIsExclusive ServingIsRecorded PriorSurvives
PROPERTIES ImplementsOwnership CheckMeansStopped EverybodySettles
