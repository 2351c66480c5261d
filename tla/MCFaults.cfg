SPECIFICATION FairSpec
CONSTANTS
  Accounts = {"ann", "bob", "cid"}
  Orders = {"o1", "o2", "o3", "o4", "o5", "p1", "p2", "p3"}
  Detail <- FaultOrders
  Scenes <- FaultScenes
  InitCash <- Cash
  InitShares <- Shares
  Marks = {10}
  Spread = 1
  Depth = 2
  Fee = 1
  MaxQty = 3
  MaxTicks = 1
  MaxRetries = 2
  Cancellable = {}
  AgentOrders <- AgentMarketOrders
  Marginal = {"ann"}
  Faults = TRUE
  Sweeps = FALSE
  
PROPERTIES EveryOrderAnswered
CHECK_DEADLOCK FALSE
