SPECIFICATION FairSpec
CONSTANTS
  game = "game"
  chat = "game_chat"
  direct = "direct_chat"
  p1 = p1
  p2 = p2
  p3 = p3
  Sub <- MCSub
  Service <- MCService
  Program <- MCProgram
  Filter <- MCFilter
  Partition <- MCPartition
  Event <- MCEvent
  PartitionOf <- MCPartitionOf
  Decodable <- MCDecodable
  ReadersFirst <- MCReadersFirst
  MaxEvents <- MCMaxEvents
  MaxSessionEnds = 1
  MaxCrashes = 1
  JoinMayFail = TRUE
  CommitMayFail = TRUE
  SendMayRepeat = TRUE
INVARIANTS
  TypeOK
  OneSession
  ConsumptionGoesOn
PROPERTIES
  ImplementsDelivery
  EverythingIsHandedOut
CHECK_DEADLOCK FALSE
