SPECIFICATION Spec
CONSTANTS
  Owner <- Owners
  MaxSlices = 4
  Orders = {"ice", "off", "mm"}
  Detail <- Book1
  Levels <- Ladder1
  Mids = {10}
  Spread = 1
  Depth = 1
  Takers <- Takers1
  MaxTime = 1
  MaxRefreshes = 1
  MaxExecutions = 2
  MaxDeferred = 2
  Removals = {"off"}
  Reductions <- Reduce1
INVARIANTS TypeOK PlanKeepsContract
PROPERTIES KeepsPromise
CHECK_DEADLOCK FALSE
