SPECIFICATION Spec
CONSTANTS
  Nobody = Nobody
  Accounts = {"ann", "bob", "cid"}
  Ids = {i1, i2, i3, i4}
  Prices = {2, 3}
  MaxQuantity = 2
  FeeRate = 1
  FeeUnit = 4
  Start <- Funds
  MaxEvents = 4
INVARIANTS ReservesMatchBook ReservesCovered Conserved NotCrossed NobodyPassedOver SearchFindsMost
SYMMETRY IdSymmetry
CHECK_DEADLOCK FALSE
