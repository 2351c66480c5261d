SPECIFICATION FairSpec
CONSTANTS
  Users = {"u1", "u2"}
  Accounts = {"a1", "a2", "b1"}
  Owner <- Owners
  Callbacks = {"t1", "t2"}
  InitEquity <- StartOf
  Worth = {3}
  Preset = 5
  Prize <- Prize1
  Durations <- Days
  MaxSeasons = 2
  MaxCrashes = 1
  Scenes <- AllScenes
INVARIANTS OneLiveSeason PrizesFollowReturns
PROPERTIES SettledIsFinal DueIsSettled
CHECK_DEADLOCK FALSE
