SPECIFICATION ApiSpec
CONSTANTS
  s1 = s1
  s2 = s2
  q1 = q1
  q2 = q2
  Staff <- TwoStaff
  Request <- TwoRequests
  Source = {"oso-lounge", "unknown"}
  Tills = {"oso-lounge"}
  Secret = TRUE
  Calls <- AllCalls
  TTL = 2
  MaxEntries = 1
  LastTime = 2
  MaxChanges = 1
SYMMETRY Symmetric
INVARIANTS
  ApiTypeOK
  AccessEndsInTime
  RefusalsAreFresh
  OnlyTheEntitledAct
CHECK_DEADLOCK FALSE
