SPECIFICATION FairSpec
CONSTANTS
  Session = {s1}
  Game = {g1}
  NoGame = NoGame
  Nobody = Nobody
  EventCap = 1
  MsgCap = 1
  ViewCap = 1
  End = 2
  MaxSaid = 0
  MayRefuse = TRUE
  MayPing = FALSE
  MayClean = FALSE
  Leaver = {s1}
  Apart = TRUE
  Player = {}
  RedisMayFail = TRUE
PROPERTIES
  StoppedIsDisconnected
CHECK_DEADLOCK FALSE
