SPECIFICATION FairSpec
CONSTANTS
  u1 = u1  u2 = u2  k1 = k1  r1 = r1  r2 = r2
  Users = {u1, u2}
  MaxEntries = 2
  Keys = {k1}
  Requests = {r1, r2}
  Outcomes = {"PROCESSING"}
  Noted = {"PENDING", "PAID"}
  None = None
  MaxRequests = 2
  MaxFaults = 2
INVARIANTS
  PayoutsMatchSettled SweptOncePerKey TransferredOnce
PROPERTY RepeatFinishesSweep
CHECK_DEADLOCK FALSE
