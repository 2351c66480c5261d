SPECIFICATION Spec
CONSTANTS
  Accounts = {"ann", "bob"}
  Orders = {"c1", "c2", "c3", "t1", "t2", "t3"}
  Detail <- ClientOrders
  Scenes <- ClientScenes
  InitCash <- MoreCash
  InitShares <- Shares
  Marks = {10, 11}
  Spread = 1
  Depth = 1
  Fee = 1
  MaxQty = 3
  MaxTicks = 1
  MaxRetries = 2
  Cancellable = {"c1", "t3"}
  AgentOrders = {}
  Marginal = {}
  Faults = FALSE
  Sweeps = TRUE
INVARIANTS  Conserved BookBacked OneTradePerKey  
PROPERTIES TerminalIsFinal
