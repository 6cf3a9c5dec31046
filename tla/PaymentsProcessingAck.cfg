SPECIFICATION Spec
CONSTANTS
  x1 = x1  x2 = x2  x3 = x3  k1 = k1  q1 = q1  p1 = p1  p2 = p2  f1 = f1  f2 = f2
  r1 = r1  r2 = r2  w1 = w1  c1 = c1  d1 = d1
  Customer = c1  Partner = d1  NoUser = NoUser  None = None
  Orders = {x1}
  Rides = {}
  TopUps = {}
  IdempotencyKeys = {k1}
  ProviderOrders = {q1}
  PaymentIds = {p1}
  RefundIds = {f1}
  Requests = {r1, r2}
  Writers = {}
  EventsHaveIds = TRUE
  Fare = 3  Fee = 1  Part = 1
  Faults <- Crashing
INVARIANT AckedIsRecorded
CHECK_DEADLOCK FALSE
