SPECIFICATION Spec
CONSTANTS
  Session = {s1, s2}
  Game = {g1}
  NoGame = NoGame
  Nobody = Nobody
  EventCap = 1
  MsgCap = 1
  ViewCap = 1
  End = 3
  MaxSaid = 1
  MayRefuse = TRUE
  MayPing = TRUE
  MayClean = TRUE
  Leaver = {s1}
  Apart = TRUE
  Player = {s1}
  RedisMayFail = TRUE
INVARIANTS
  TypeOK
  SubscriptionIsListed
  AllDeadlocksKnown
PROPERTIES
  EventsInOrder
CHECK_DEADLOCK FALSE
