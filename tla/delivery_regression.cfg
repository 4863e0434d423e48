SPECIFICATION Spec
CONSTANTS
  u1 = u1
  p1 = p1
  p2 = p2
  w1 = w1
  w2 = w2
  h1 = h1
  h2 = h2
  User = {u1}
  Channel = {"email"}
  Publisher = {p1}
  Worker = {w1}
  Handler = {h1, h2}
  Kind = {"Delivery", "HardBounce", "SpamComplaint"}
  MaxAttempts = 1
  MaxFaults = 0
  Restless = {}
  FaultSites = {}
PROPERTIES StatusNeverRegresses
CHECK_DEADLOCK FALSE
