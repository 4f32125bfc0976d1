SPECIFICATION FairSpec
CONSTANTS
  Posts <- TwoPosts
  InBuffer = 0
  OutBuffer = 0
  MaxSessions = 2
  p1 = p1
  p2 = p2
INVARIANTS
  AcceptedIsNotLost
PROPERTIES
  DisconnectCleansUp
  LookUpsNeverWait
  OnlyClientsHoldUpShutdown
CHECK_DEADLOCK FALSE
