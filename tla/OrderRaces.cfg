SPECIFICATION Spec
CONSTANTS
  o1 = o1  o2 = o2  p1 = p1  p2 = p2  r1 = r1  r2 = r2  s1 = s1
  Orders = {o1}
  Partners = {p1, p2}
  Items = {"line"}
  Requests = {r1, r2}
  Schedulers = {s1}
  NoPartner = NoPartner
  Idle = Idle
  Profiles <- PharmacyAndWallet
  MaxRequests = 6  MaxOffers = 1
SYMMETRY Interchangeable
INVARIANTS
  TimelineLegal HandoffHasPartner CancelledGoodsReturned
  RefundedIsBacked TimelineAnnounced AcceptedWasVerified DeliveryRewardedOnce
PROPERTY PartnerIsFinal
CHECK_DEADLOCK FALSE
