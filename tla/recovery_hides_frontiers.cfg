\* A search from an unknown cell misses frontiers around the free cells it finds.
SPECIFICATION Spec
CONSTANTS
  Scenes <- MCScenes
  MinSize = 1
  MinDistance2 = 4
  Infinity = 1000
  MaxPool = 3
  MaxFound = 3
  Solvers <- MCSolvers
  Costs <- MCCosts
INVARIANT
  RecoveryHidesNothing
CHECK_DEADLOCK FALSE
