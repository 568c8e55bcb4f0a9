SPECIFICATION Spec
CONSTANTS
  u4 = u4
  User = {u1, u2, u3, u4}
  NoUser = NoUser
  Request = {r1, r2, r3, r4}
  MaxLevel = 2
  PublishMayFail = TRUE
  MayStop = TRUE
SYMMETRY Symmetry
CONSTRAINT FourInPeace
INVARIANTS
  TypeOK
  QueuedOnce
  SweepPairsNeighbours
  NobodyGoneIsQueued
  AnsweredMatchIsOnItsWay
CHECK_DEADLOCK FALSE
