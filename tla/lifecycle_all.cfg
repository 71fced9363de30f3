CONSTANTS
  Frontier = {f1, f2}
  NoFrontier = none
  Bucket <- OwnBuckets
  RequiredHits = 1
  MaxHits = 2
  MaxDispatch = 2
  MaxCancels = 2
  GoalPreemptionEnabled = TRUE
  SkipOnBlockedGoal = TRUE
  CompletionDistance = TRUE
  PostGoalSettle = TRUE
  ReturnOnComplete = TRUE
  SuppressionEnabled = TRUE
  ReturnWhenSuppressed = TRUE
  TimerMode = FALSE
  ForeignCancel = TRUE
SPECIFICATION FairSpec
INVARIANTS
  IdleMeansOver
  QueueExcludesFinalReturn
  UnattendedOnlyAfterRefusal
PROPERTY
  StopDrains
CHECK_DEADLOCK FALSE
