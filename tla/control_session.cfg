CONSTANTS
  CompletionEventEnabled = TRUE
  None = None
  Durabilities = {"transient_local", "volatile", "system_default"}
SPECIFICATION StartupSpec
INVARIANTS
  SessionMatchesRuntime
  IdleHoldsNoGoal
  ScheduledStartWaitsInColdIdle
  SourcesFollowSession
  OneEventPerSession
PROPERTIES
  RespectsGoalSlot
  StopCompletes
  QuitHonoured
  SessionGetsMaps
CHECK_DEADLOCK FALSE
