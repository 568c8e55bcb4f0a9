SPECIFICATION Spec
CONSTANTS
  Player = {p1, p2}
  NoPlayer = NoPlayer
  Instance = {i1}
  Match = {m1}
  Game = {g1}
  NoGame = NoGame
  NoMatch = NoMatch
  MaxMoves = 2
  Kinds = {"move", "claim", "resign"}
  RedisMayFail = TRUE
  PublishMayFail = TRUE
  MayCrash = TRUE
  MayRejoin = TRUE
  HttpResign = FALSE
INVARIANTS
  TypeOK
  EndHasOutcome
  HandlerEndRecorded
PROPERTIES
  ImplementsTopic
SYMMETRY Symmetry
CHECK_DEADLOCK FALSE
