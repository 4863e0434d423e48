SPECIFICATION FairSpec
CONSTANTS
  u1 = u1
  p1 = p1
  p2 = p2
  w1 = w1
  w2 = w2
  h1 = h1
  h2 = h2
  User = {u1}
  Channel = {"sms"}
  Publisher = {p1, p2}
  Worker = {w1, w2}
  Handler = {}
  Kind = {}
  MaxAttempts = 2
  MaxFaults = 1
  Restless = {u1}
  FaultSites = {"publisher", "worker"}
INVARIANTS TypeOK AtMostOneSend ClaimIsExclusive SuccessIsReal OptOutIsHonoured NothingForgotten JobHasRow
PROPERTIES ImplementsContract RowsSettle
