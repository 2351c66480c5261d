SPECIFICATION Spec
CONSTANTS
  Accounts = {"ann", "bob", "cid"}
  Orders = {"o1", "o2", "o3", "o4"}
  Detail <- ForcedSale
  Scenes <- ForcedScenes
  InitCash <- Cash
  InitShares <- Shares
  Marks = {10, 11}
  Spread = 1
  Depth = 2
  Fee = 1
  MaxQty = 3
  MaxTicks = 1
  MaxRetries = 2
  Cancellable = {}
  AgentOrders = {}
  Marginal = {"ann"}
  Faults = FALSE
  Sweeps = FALSE
INVARIANTS Conserved
CHECK_DEADLOCK FALSE
