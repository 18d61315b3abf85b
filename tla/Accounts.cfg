SPECIFICATION AccountsSpec
CONSTANTS
  Visitors = {v1, v2}
  NOBODY = NOBODY
  MaxCrashes = 1
  Callers = {c1, c2}
  MaxFails = 1
  MaxHashes = 3
  MaxCookies = 1
INVARIANTS
  OneClaimOnly
  OneSuperuser
  ThrottleHolds
PROPERTIES
  EndedSessionsStayEnded
  OpenGetsLanes
