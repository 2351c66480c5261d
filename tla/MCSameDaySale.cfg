SPECIFICATION Spec
CONSTANTS
  MaxDate = 2
  Minutes = 1
  ExDays = {2}
  UserOps = {"buy","sell"}
  MaxCalls = 2
  MaxTroubles = 0
  Failing = {"persistClosing", "navs", "persistAdvanced", "settle"}
  MaxHangs = 1
  Slow = FALSE
  LoneLeverage = TRUE
CHECK_DEADLOCK FALSE
INVARIANTS NoSameDaySale
