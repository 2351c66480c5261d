SPECIFICATION ChatSpec
CONSTANTS
  Requests = {q1, q2}
  Viewers = {v1}
  Files = {f1}
  NoFile = NoFile
  PerTick = 2
  PageSize = 1
  OrphanTtl = 1
  MaxMessages = 3
  MaxClock = 2
  MaxCrashes = 1
INVARIANTS NothingMissed  SentFilesStay
SYMMETRY Sym
CHECK_DEADLOCK FALSE
