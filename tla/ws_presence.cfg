SPECIFICATION Spec
CONSTANTS
  Session = {s1, s2}
  OwnGame = {g1}
  OtherGame = {o1}
  NoGame = NoGame
  Absent = Absent
  UserSessionsCap = 2
  Late = {}
  ViewCap = 1
  RedisMayFail = FALSE
  MayRefresh = FALSE
  OtherGateway = FALSE
SYMMETRY Symmetry
INVARIANTS
  TypeOK
  LastOutIsAnnounced
  NoOrphan
  CountedIsPlayed
CHECK_DEADLOCK FALSE
