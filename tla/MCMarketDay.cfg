SPECIFICATION FairSpec
CONSTANTS
  MaxDate = 2
  Minutes = 1
  ExDays = {2}
  UserOps = {"transfer", "reset", "redeem", "subscribe", "buy", "sell", "leverage", "late"}
  MaxCalls = 1
  MaxTroubles = 1
  Failing = {"persistClosing", "navs", "persistAdvanced", "settle"}
  MaxHangs = 1
  Slow = FALSE
  LoneLeverage = TRUE
INVARIANTS   LateOrdersDie 
PROPERTIES KnownDateCloses
CHECK_DEADLOCK FALSE
