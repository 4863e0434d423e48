SPECIFICATION Spec
CONSTANTS
  u1 = u1
  p1 = p1
  p2 = p2
  w1 = w1
  w2 = w2
  h1 = h1
  h2 = h2
  User = {u1}
  Channel = {"email", "sms"}
  Publisher = {p1}
  Worker = {w1}
  Handler = {h1, h2}
  Kind = {"Delivery", "HardBounce", "SpamComplaint", "Open", "sent", "delivered", "undelivered", "unsubscribed"}
  MaxAttempts = 1
  MaxFaults = 1
  Restless = {}
  FaultSites = {"callback"}
SYMMETRY Symmetry
INVARIANTS RecordedIsApplied
PROPERTIES OnlyLateWritesRegress
CHECK_DEADLOCK FALSE
