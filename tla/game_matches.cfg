SPECIFICATION Spec
CONSTANTS
  Player = {p1, p2, p3}
  NoPlayer = NoPlayer
  Instance = {i1}
  Match = {m1, m2}
  Game = {g1, g2}
  NoGame = NoGame
  NoMatch = NoMatch
  MaxMoves = 0
  Kinds = {}
  RedisMayFail = TRUE
  PublishMayFail = FALSE
  MayCrash = FALSE
  MayRejoin = TRUE
  HttpResign = FALSE
SYMMETRY Symmetry
INVARIANTS
  OneGamePerPlayer
CHECK_DEADLOCK FALSE
