SPECIFICATION FairSpec
CONSTANTS
  None = None
  Keys = {"k1"}
  Bodies = {"b1", "b2"}
  Clients = {"c1", "c2"}
  Readers = {"r1", "r2"}
  MaxStreams = 2
  MaxCalls = 3
  MaxReads = 2
  MaxTroubles = 1
  MaxStops = 1
INVARIANTS CarriedOutOnce AnswersAreTrue SnapshotShowsAnswer
PROPERTIES StopsInTheEnd
CHECK_DEADLOCK FALSE
