SPECIFICATION Spec
CONSTANTS
  t1 = t1  t2 = t2  o1 = o1  o2 = o2  r1 = r1  r2 = r2
  Tokens = {t1, t2}
  Objects = {o1, o2}
  Requests = {r1, r2}
  None = None
  MaxRequests = 4
INVARIANTS
  RevokedIsRefused NoStaleAccess ReviewIsWhole OneLiveDocument DocumentsMatchStorage
SYMMETRY Symmetry
CHECK_DEADLOCK FALSE
