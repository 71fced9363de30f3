\* Failure memory, snapshot and order caches between map updates and a goal.
SPECIFICATION Spec
CONSTANTS
  None = None
  Points <- MCPoints
  Robots <- MCRobots
  Maps <- MCMaps
  Decision <- MCDecision
  Search <- MCSearch
  Costs <- MCCosts
  MinDistances = {0, 1}
  BaseDistance = 0
  SkipBlocked = TRUE
  Suppression = TRUE
  Grace = 1
  ReturnsToStart = TRUE
  MaxTime = 3
  MaxUpdates = 4
  Threshold = 2
  BaseSize = 16
  ExpansionSize = 8
  Ttl = 2
  MaxAttempts = 2
  MaxRegions = 1
  Quantum = 8
INVARIANTS
  TypeOK
  RegionsAbsorbFailures
  SnapshotIsFresh
PROPERTIES
  DispatchesCurrentTargets
  SuppressionLasts
\* Without a session only the bounds are left to run into.
CHECK_DEADLOCK FALSE
