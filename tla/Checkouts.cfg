SPECIFICATION FairSpec
CONSTANTS
  c1 = c1  c2 = c2  k1 = k1  k2 = k2  i1 = i1  r1 = r1  r2 = r2
  Customers = {c1, c2}
  Keys = {k1}
  Items = {i1}
  Requests = {r1, r2}
  NoRequest = NoRequest
  Owner = Owner
  Stock = 2
  Funds = 2
  CouponLimit = 1
  PerUserLimit = 1
  MaxCheckouts = 3
  MaxRefills = 1
  MaxCrashes = 1
  MaxExpiries = 1
INVARIANTS
  StockAccounted WalletAccounted AnswersAreOwnOrders OneOrderPerKey
PROPERTY LockIsReleased
CHECK_DEADLOCK FALSE
