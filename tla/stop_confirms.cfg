SPECIFICATION HostSpec
CONSTANTS
  p1 = p1
  p2 = p2
  p3 = p3
  l1 = l1
  l2 = l2
  l3 = l3
  None = None
  Controllers = {p1, p2}
  Launchers = {l1, l2}
  MaxCrashes = 0
SYMMETRY Interchangeable
CHECK_DEADLOCK FALSE
INVARIANTS StopConfirmsStopped
