SPECIFICATION Spec
CONSTANTS
  Game = {g1, g2}
  NoGame = NoGame
  ChatMayFail = TRUE
  MaxCrashes = 1
  MaxSent = 2
  LiveGame = {l1, l2, l3}
  ListCap = 2
  MaxRewinds = 2
  RatedUser = {u1, u2}
  RatedGame = {r1, r2}
  NoRated = NoRated
  Instance = {i1, i2}
  MinScore = 10
  KnightTop = 12
  RookTop = 14
  KNew = 4
  KIntermediate = 3
  KExpert = 2
  Expected <- MCExpected
  MaxConns = 2
  RepoMayFail = TRUE
  MaxDeliveries = 2
  Email = {e1, e2}
  NoId = NoId
  Login = {a1, a2}
  Change = {c1, c2}
  AuthMayFail = TRUE
  SubCap = 1
  OutCap = 1
  NoSub = NoSub
  Plies = 3
  MaxIncidents = 1
INVARIANTS
  FollowersTypeOK
  AtMostOneLateMessage
  ChatAnnouncedOnce
  ChatFollowsGame
  OneRefreshSettles
  RowAgreesWithHistory
  AcknowledgedUpdateKept
  BoardInStep
  NoSendAfterClose
CONSTRAINT Bounds
CHECK_DEADLOCK FALSE
