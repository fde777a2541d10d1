SPECIFICATION FairSpec
CONSTANTS
  MaxAttempts = 2
  MaxFrames = 2
  MaxRestarts = 1
CHECK_DEADLOCK FALSE
INVARIANTS SupervisorTypeOK OneProcessPerAgent
PROPERTIES StartsConclude CrashSettlesGoal RunningGoalKeepsSession
