SPECIFICATION Spec
CONSTANTS
  Users = {"u1", "u2"}
  Accounts = {"a1", "a2", "b1"}
  Owner <- Owners
  Callbacks = {"t1"}
  InitEquity <- StartOf
  Worth = {}
  Preset = 5
  Prize <- Prizes
  Durations <- Days
  MaxSeasons = 1
  MaxCrashes = 1
  Scenes <- PairScenes
INVARIANTS PaidOnce
CHECK_DEADLOCK FALSE
