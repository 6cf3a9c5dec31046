SPECIFICATION Spec
CONSTANTS
  b1 = b1  p1 = p1  p2 = p2  r1 = r1  r2 = r2  u1 = u1
  Bookings = {b1}
  Partners = {p1, p2}
  Requests = {r1, r2}
  Customer = u1
  NoPartner = NoPartner
  NoBooking = NoBooking
  Idle = Idle
  Profiles <- AnyKind
  Fare = 5  Fee = 1  Deposit = 9
  MaxRequests = 8  MaxOffers = 2
SYMMETRY Interchangeable
INVARIANTS
  WalletMoneyArrives ChargedExactly RideRewardedOnce RatingsNeverDoubled
PROPERTY OnlyStaleCopiesLeaveTheMachine
CHECK_DEADLOCK FALSE
