SPECIFICATION Spec
CONSTANTS
  a1 = a1
  a2 = a2
  g1 = g1
  g2 = g2
  Agents = {a1, a2}
  Goals = {g1, g2}
  NoGoal = NoGoal
  Owner <- MCOwner
  Paths <- MCPaths
  Ttl = {1}
  FullTtl = 1
  w1 = w1
  w2 = w2
  Workspaces = {w1, w2}
  None = None
  MaxLeases = 2
  MaxTime = 1
  MaxFaults = 1
SYMMETRY Interchangeable
INVARIANTS TerritoryTypeOK ExclusiveTerritory OneActiveWorkspace SettledHoldsNothing PreparationIsAllOrNothing NeverBothMayWrite
CHECK_DEADLOCK FALSE
