SPECIFICATION Spec
CONSTANTS
  Player = {p1, p2}
  NoPlayer = NoPlayer
  Instance = {i1, i2}
  Match = {m1}
  Game = {g1, g2}
  NoGame = NoGame
  NoMatch = NoMatch
  MaxMoves = 0
  Kinds = {}
  RedisMayFail = FALSE
  PublishMayFail = FALSE
  MayCrash = FALSE
  MayRejoin = TRUE
  HttpResign = FALSE
INVARIANTS
  IdempotentCreation
CHECK_DEADLOCK FALSE
