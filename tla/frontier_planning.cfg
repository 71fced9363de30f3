\* Every search and every order it leads to: clusters, routes and the end of both.
SPECIFICATION Spec
CONSTANTS
  Scenes <- MCScenes
  MinSize = 1
  MinDistance2 = 4
  Infinity = 1000
  MaxPool = 3
  MaxFound = 3
  Solvers <- MCSolvers
  Costs <- MCCosts
INVARIANTS
  FoundIsTheFrontier
  RouteIsCheapest
PROPERTY
  PlanningEnds
\* A call ends.
CHECK_DEADLOCK FALSE
