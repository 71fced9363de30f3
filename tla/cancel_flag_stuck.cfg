CONSTANTS
  Frontier = {f1, f2}
  NoFrontier = none
  Bucket <- OwnBuckets
  RequiredHits = 2
  MaxHits = 3
  MaxDispatch = 3
  MaxCancels = 2
  GoalPreemptionEnabled = FALSE
  SkipOnBlockedGoal = TRUE
  CompletionDistance = FALSE
  PostGoalSettle = FALSE
  ReturnOnComplete = FALSE
  SuppressionEnabled = TRUE
  ReturnWhenSuppressed = TRUE
  TimerMode = FALSE
  ForeignCancel = FALSE
SPECIFICATION Spec
INVARIANT CancelFlagMatchesState
CHECK_DEADLOCK FALSE
