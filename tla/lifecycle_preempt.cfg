CONSTANTS
  Frontier = {f1, f2}
  NoFrontier = none
  Bucket <- OwnBuckets
  RequiredHits = 2
  MaxHits = 3
  MaxDispatch = 3
  MaxCancels = 2
  GoalPreemptionEnabled = TRUE
  SkipOnBlockedGoal = TRUE
  CompletionDistance = TRUE
  PostGoalSettle = FALSE
  ReturnOnComplete = FALSE
  SuppressionEnabled = FALSE
  ReturnWhenSuppressed = FALSE
  TimerMode = FALSE
  ForeignCancel = FALSE
SPECIFICATION Spec
SYMMETRY Symmetry
INVARIANTS
  TypeOK
  WaitsForLiveGoal
PROPERTIES
  NeverDispatchesBlocked
  ReplacementChangesTarget
  ImplementsGoalSlot
CHECK_DEADLOCK FALSE
