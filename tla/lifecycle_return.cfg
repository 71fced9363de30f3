CONSTANTS
  Frontier = {f1, f2}
  NoFrontier = none
  Bucket <- OneBucket
  RequiredHits = 2
  MaxHits = 3
  MaxDispatch = 3
  MaxCancels = 2
  GoalPreemptionEnabled = FALSE
  SkipOnBlockedGoal = FALSE
  CompletionDistance = FALSE
  PostGoalSettle = TRUE
  ReturnOnComplete = TRUE
  SuppressionEnabled = TRUE
  ReturnWhenSuppressed = TRUE
  TimerMode = TRUE
  ForeignCancel = FALSE
SPECIFICATION Spec
SYMMETRY Symmetry
INVARIANTS
  CancelFlagMatchesState
  SettleOnlyBetweenGoals
  ReturnLatchHasGoal
PROPERTIES
  NoDispatchAfterStop
  NoDispatchAfterCompletion
  SettleHoldsDispatch
  CompletionIsFinal
CHECK_DEADLOCK FALSE
