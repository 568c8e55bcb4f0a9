SPECIFICATION FairSpec
CONSTANTS
  Session = {s1, s2}
  OwnGame = {}
  OtherGame = {}
  NoGame = NoGame
  Absent = Absent
  UserSessionsCap = 2
  Late = {s1, s2}
  ViewCap = 0
  RedisMayFail = TRUE
  MayRefresh = TRUE
  OtherGateway = TRUE
INVARIANTS
  OwnSessionsSpared
PROPERTIES
  OrphanExpires
CHECK_DEADLOCK FALSE
