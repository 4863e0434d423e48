SPECIFICATION ClientSpec
CONSTANTS
  Tab = {t1, t2}
  Socket = {s1, s2}
  MaxInbox = 2
  MaxRetries = 2
SYMMETRY Symmetry
INVARIANTS ClientTypeOK OnlyLeadersUseSockets LeaderIsConnecting
CHECK_DEADLOCK FALSE
