SPECIFICATION Spec
CONSTANTS
  MaxAttempts = 2
  MaxFrames = 3
  MaxRestarts = 0
CHECK_DEADLOCK FALSE
INVARIANTS RollbackStopsSession
