SPECIFICATION Spec
CONSTANTS
  Player = {p1, p2}
  NoPlayer = NoPlayer
  Instance = {i1}
  Match = {m1}
  Game = {g1}
  NoGame = NoGame
  NoMatch = NoMatch
  MaxMoves = 0
  Kinds = {"claim", "resign"}
  RedisMayFail = FALSE
  PublishMayFail = FALSE
  MayCrash = FALSE
  MayRejoin = TRUE
  HttpResign = TRUE
SYMMETRY Symmetry
INVARIANTS
  AnnouncedOnce
  NoZombieGame
  DroppedGameFreesPlayers
CHECK_DEADLOCK FALSE
