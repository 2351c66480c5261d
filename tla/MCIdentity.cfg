SPECIFICATION Spec
CONSTANTS
  Requests = {"q1", "q2"}
  MaxCalls = 5
  MaxRows = 3
  MaxLapses = 1
  MaxCrashes = 1
  Take = 2
INVARIANTS OneUsablePerCode CutStaysCut
CHECK_DEADLOCK FALSE
