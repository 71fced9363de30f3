\* The map queue walks through occupied cells: goals behind a wall are candidates.
SPECIFICATION Spec
CONSTANTS
  Scenes <- MCScenes
  MinSize = 1
  MinDistance2 = 4
  Infinity = 1000
  MaxPool = 3
  MaxFound = 3
  Solvers <- MCSolvers
  Costs <- MCCosts
INVARIANT
  GoalsAreReachable
CHECK_DEADLOCK FALSE
