SPECIFICATION TabFairSpec
CONSTANTS
  Tab = {t1, t2, t3}
  MaxInbox = 2
INVARIANTS TabTypeOK FollowersWatch RivalsHaveMail
PROPERTIES LeaderReturns
CHECK_DEADLOCK FALSE
