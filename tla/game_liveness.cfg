SPECIFICATION FairSpec
CONSTANTS
  Player = {p1, p2}
  NoPlayer = NoPlayer
  Instance = {i1}
  Match = {m1}
  Game = {g1}
  NoGame = NoGame
  NoMatch = NoMatch
  MaxMoves = 2
  Kinds = {"move", "offer", "accept", "reject", "resign"}
  RedisMayFail = FALSE
  PublishMayFail = FALSE
  MayCrash = FALSE
  MayRejoin = FALSE
  HttpResign = FALSE
PROPERTIES
  EndIsAnnounced
  AbsenceEndsGame
  ImplementsTopic
CHECK_DEADLOCK FALSE
