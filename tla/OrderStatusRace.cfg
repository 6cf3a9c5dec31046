SPECIFICATION Spec
CONSTANTS
  o1 = o1  o2 = o2  p1 = p1  p2 = p2  r1 = r1  r2 = r2  s1 = s1
  Orders = {o1}
  Partners = {p1}
  Items = {"line"}
  Requests = {r1, r2}
  Schedulers = {}
  NoPartner = NoPartner
  Idle = Idle
  Profiles <- CashGrocery
  MaxRequests = 6  MaxOffers = 0
PROPERTY StatusFollowsMachine
CHECK_DEADLOCK FALSE
