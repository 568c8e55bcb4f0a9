------------------------- MODULE GameServiceProofs -------------------------
(***************************************************************************)
(* What TLAPS proves of GameService for every number of players, games,    *)
(* matches and instances, and every setting of the failure constants: its  *)
(* type correctness, and from it that a player is in one game of an        *)
(* instance at most and that an announced end has an outcome.              *)
(***************************************************************************)
EXTENDS GameService, TLAPS

-----------------------------------------------------------------------------
(* The game entity: its operations stay in GameRecord *)

LEMMA WinForColour ==
  ASSUME NEW g \in GameRecord, NEW p
  PROVE  WinFor(g, p) \in {"white", "black"}
BY DEF WinFor

LEMMA NewGameType ==
  ASSUME NEW w \in PlayerOrNone, NEW b \in PlayerOrNone
  PROVE  NewGame(w, b) \in GameRecord
BY DEF NewGame, GameRecord, Status, Outcome, PlayerOrNone

LEMMA NoRecordType == NoRecord \in GameRecord
BY NewGameType DEF NoRecord, PlayerOrNone

LEMMA MovedType ==
  ASSUME NEW g \in GameRecord, NEW res \in PlyResult
  PROVE  Moved(g, res) \in GameRecord
<1>. DEFINE m == g.moves + 1  o == PlyOutcome(g, res)
<1>1. o \in Outcome
  BY WinForColour DEF PlyOutcome, PlyResult, Outcome, GameRecord
<1>2. m \in Nat
  BY DEF GameRecord
<1>3. Moved(g, res) = [g EXCEPT !.moves = m, !.outcome = o]
  BY DEF Moved
<1>. HIDE DEF m, o
<1>. QED
  BY <1>1, <1>2, <1>3 DEF GameRecord

LEMMA DrawType ==
  ASSUME NEW g \in GameRecord, NEW p \in PlayerOrNone
  PROVE  /\ DrawOffered(g, p) \in GameRecord
         /\ DrawAccepted(g) \in GameRecord
         /\ DrawRejected(g) \in GameRecord
         /\ DrawClaimed(g) \in GameRecord
         /\ Deactivated(g) \in GameRecord
         /\ Encoded(g) \in GameRecord
BY DEF DrawOffered, DrawAccepted, DrawRejected, DrawClaimed, Deactivated, Encoded,
       GameRecord, Outcome, Status, PlayerOrNone

LEMMA ResignedType ==
  ASSUME NEW g \in GameRecord, NEW p
  PROVE  /\ Resigned(g, p) \in GameRecord
         /\ Resigned(g, p).outcome # "none"
<1>1. WinFor(g, Opponent(g, p)) \in {"white", "black"}
  BY WinForColour
<1>. QED
  BY <1>1 DEF Resigned, Deactivated, GameRecord, Outcome, Status

-----------------------------------------------------------------------------
(* Type correctness *)

\* A goroutine at work on a game has one to work on.
ThreadsOK ==
  \A i \in Instance :
    /\ matchTh[i].pc # "idle" => matchTh[i].game \in Game
    /\ gameTh[i].pc # "idle" => gameTh[i].game \in Game
    /\ tickTh[i].pc = "left" => tickTh[i].game \in Game
    /\ httpTh[i].pc # "idle" => httpTh[i].game \in Game

TypeInv == TypeOK /\ ThreadsOK

LEMMA ThreadTypes ==
  /\ MatchIdle \in MatchThread /\ GameIdle \in GameThread
  /\ TickIdle \in TickThread /\ HttpIdle \in HttpThread
  /\ Absent \in CacheEntry /\ NobodyGone \in GoneRecord
<1>. USE NoRecordType
<1>1. MatchIdle \in MatchThread
  BY DEF MatchIdle, MatchThread, GameOrNone
<1>2. GameIdle \in GameThread
  BY DEF GameIdle, GameThread, GameOrNone, PlayerOrNone, EventKind
<1>3. TickIdle \in TickThread
  BY DEF TickIdle, TickThread, GameOrNone, PlayerOrNone, Outcome
<1>4. HttpIdle \in HttpThread
  BY DEF HttpIdle, HttpThread, GameOrNone, PlayerOrNone
<1>5. Absent \in CacheEntry
  BY DEF Absent, CacheEntry
<1>6. NobodyGone \in GoneRecord
  BY DEF NobodyGone, GoneRecord, PlayerOrNone
<1>. QED
  BY <1>1, <1>2, <1>3, <1>4, <1>5, <1>6

LEMMA InitTypeInv == Init => TypeInv
<1>. SUFFICES ASSUME Init PROVE TypeInv
  OBVIOUS
<1>1. TypeOK
  BY ThreadTypes, NoRecordType DEF Init, TypeOK, GameOrNone
<1>2. ThreadsOK
  BY DEF Init, ThreadsOK, MatchIdle, GameIdle, TickIdle, HttpIdle
<1>. QED
  BY <1>1, <1>2 DEF TypeInv

\* One transaction over Redis, whatever it is given of the right type.
LEMMA DeactivateInRedisType ==
  ASSUME cached \in [Game -> CacheEntry], playerGame \in [Player -> GameOrNone],
         NEW gs \in SUBSET Game, NEW copy, \A g \in gs : copy[g] \in GameRecord,
         DeactivateInRedis(gs, copy)
  PROVE  /\ cached' \in [Game -> CacheEntry]
         /\ playerGame' \in [Player -> GameOrNone]
BY DEF DeactivateInRedis, CacheEntry, GameOrNone

LEMMA ApproveMoveType ==
  ASSUME TypeOK, NEW g, NEW n \in Nat, ApproveMove(g, n)
  PROVE  /\ approved' \in [Game -> Seq(Nat)]
         /\ late' \in [Game -> Nat]
<1>1. approved' \in [Game -> Seq(Nat)]
  <2>1. approved \in [Game -> Seq(Nat)] /\ approved' = [approved EXCEPT ![g] = Append(@, n)]
    BY DEF ApproveMove, TypeOK
  <2>2. ASSUME NEW s \in Seq(Nat) PROVE Append(s, n) \in Seq(Nat)
    OBVIOUS
  <2>3. QED
    <3>1. \A h \in Game : approved'[h] \in Seq(Nat)
      BY <2>1, <2>2
    <3>2. QED
      BY <2>1, <3>1
<1>2. late' \in [Game -> Nat]
  <2>1. late \in [Game -> Nat]
    BY DEF TypeOK
  <2>2. \A h \in Game : late[h] + 1 \in Nat
    BY <2>1
  <2>3. late' = [late EXCEPT ![g] = IF ended[g] # {} THEN late[g] + 1 ELSE late[g]]
    BY DEF ApproveMove
  <2>4. \A h \in Game : late'[h] \in Nat
    BY <2>1, <2>2, <2>3
  <2>5. QED
    BY <2>1, <2>3, <2>4
<1>. QED
  BY <1>1, <1>2

\* The match service and the expiry of keys.
LEMMA EnvironmentTypeInv ==
  ASSUME TypeInv,
         \/ \E m \in Match, p, q \in Player : MatchFound(m, p, q)
         \/ \E g \in Game : Expire(g)
  PROVE  TypeInv'
<1>. USE DEF TypeInv, ThreadsOK, redis, bus, memory
<1>1. ASSUME NEW m \in Match, NEW p \in Player, NEW q \in Player, MatchFound(m, p, q)
      PROVE  TypeInv'
  BY <1>1 DEF MatchFound, TypeOK
<1>2. ASSUME NEW g \in Game, Expire(g)
      PROVE  TypeInv'
  BY <1>2, ThreadTypes DEF Expire, TypeOK
<1>3. QED
  BY <1>1, <1>2

\* The match-topic subscription, and a restart.
LEMMA MatchTypeInv ==
  ASSUME TypeInv, NEW i \in Instance, MatchStep(i) \/ Crash(i)
  PROVE  TypeInv'
<1>. USE DEF TypeInv, ThreadsOK, redis, bus, memory
<1>2. ASSUME NEW m \in Match, ReceiveMatch(i, m)
      PROVE  TypeInv'
  <2>1. CASE \E p \in matches[m] : HasGame(i, p)
    BY <1>2, <2>1 DEF ReceiveMatch, TypeOK
  <2>2. CASE \A p \in matches[m] : ~HasGame(i, p)
    <3>1. PICK g \in Game, w \in matches[m], b \in matches[m] :
             /\ origin' = [origin EXCEPT ![g] = m]
             /\ object' = [object EXCEPT ![g] = NewGame(w, b)]
             /\ matchTh' = [matchTh EXCEPT ![i] = [pc |-> "cache", match |-> m, game |-> g]]
      BY <1>2, <2>2 DEF ReceiveMatch
    <3>2. NewGame(w, b) \in GameRecord
      BY NewGameType DEF TypeOK, PlayerOrNone
    <3>3. [pc |-> "cache", match |-> m, game |-> g] \in MatchThread
      BY DEF MatchThread, GameOrNone
    <3>4. QED
      BY <1>2, <3>1, <3>2, <3>3 DEF ReceiveMatch, TypeOK
  <2>3. QED
    BY <2>1, <2>2
<1>3. CASE CacheNewGame(i)
  <2>. DEFINE next == [matchTh[i] EXCEPT !.pc = "manage"]
  <2>1. \A g \in Game : Encoded(object[g]) \in GameRecord
    BY DrawType DEF TypeOK, PlayerOrNone
  <2>2. /\ matchTh[i].game \in Game
        /\ next \in MatchThread /\ next.game \in Game
    <3>1. matchTh[i] \in MatchThread /\ matchTh[i].pc = "cache" /\ matchTh[i].game \in Game
      BY <1>3 DEF CacheNewGame, TypeOK
    <3>2. next \in MatchThread /\ next.game = matchTh[i].game
      BY <3>1 DEF MatchThread
    <3>3. QED
      BY <3>1, <3>2
  <2>. HIDE DEF next
  <2>6. \/ matchTh' = [matchTh EXCEPT ![i] = next]
        \/ matchTh' = [matchTh EXCEPT ![i] = MatchIdle]
    BY <1>3 DEF CacheNewGame, next
  <2>3. cached' \in [Game -> CacheEntry] /\ playerGame' \in [Player -> GameOrNone]
    <3>1. matchTh[i].game \in Game
      BY <2>2
    <3>2. [kept |-> "forever", game |-> Encoded(object[matchTh[i].game])] \in CacheEntry
      BY <2>1, <3>1 DEF CacheEntry
    <3>3. CASE UNCHANGED redis
      BY <3>3 DEF TypeOK
    <3>4. CASE /\ cached' = [cached EXCEPT ![matchTh[i].game] =
                   [kept |-> "forever", game |-> Encoded(object[matchTh[i].game])]]
               /\ playerGame' = [p \in Player |->
                   IF p \in PlayersOf(object[matchTh[i].game])
                     THEN matchTh[i].game ELSE playerGame[p]]
      BY <3>1, <3>2, <3>4 DEF TypeOK, GameOrNone
    <3>5. QED
      BY <1>3, <3>3, <3>4 DEF CacheNewGame
  <2>4. matchTh' \in [Instance -> MatchThread]
    BY <2>2, <2>6, ThreadTypes DEF TypeOK
  <2>5. \A j \in Instance : matchTh'[j].pc # "idle" => matchTh'[j].game \in Game
    <3>1. MatchIdle.pc = "idle"
      BY DEF MatchIdle
    <3>2. matchTh \in [Instance -> MatchThread]
      BY DEF TypeOK
    <3>3. \A j \in Instance : matchTh'[j] \in {matchTh[j], next, MatchIdle}
      BY <3>2, <2>6
    <3>4. QED
      BY <2>2, <3>1, <3>3
  <2>7. QED
    BY <1>3, <2>3, <2>4, <2>5 DEF CacheNewGame, TypeOK
<1>4. CASE ManageGame(i)
  BY ZenonT(30), <1>4 DEF ManageGame, TypeOK, MatchThread
<1>5. CASE PublishCreated(i)
  BY <1>5, ThreadTypes DEF PublishCreated, TypeOK, MatchIdle
<1>6. CASE Crash(i)
  <2>1. inbox' \in [Instance -> SUBSET Match]
    <3>1. matchTh[i].match # NoMatch => matchTh[i].match \in Match
      BY DEF TypeOK, MatchThread
    <3>2. \/ UNCHANGED inbox
          \/ /\ matchTh[i].match # NoMatch
             /\ inbox' = [inbox EXCEPT ![i] = @ \cup {matchTh[i].match}]
      BY <1>6 DEF Crash
    <3>3. inbox \in [Instance -> SUBSET Match]
      BY DEF TypeOK
    <3>4. matchTh[i].match # NoMatch => inbox[i] \cup {matchTh[i].match} \in SUBSET Match
      BY <3>1, <3>3
    <3>5. QED
      BY <3>2, <3>3, <3>4
  <2>2. /\ games' \in [Instance -> SUBSET Game]
        /\ away' \in [Instance -> [Game -> GoneRecord]]
    BY <1>6, ThreadTypes DEF Crash, TypeOK
  <2>3. /\ matchTh' \in [Instance -> MatchThread] /\ gameTh' \in [Instance -> GameThread]
        /\ tickTh' \in [Instance -> TickThread] /\ httpTh' \in [Instance -> HttpThread]
    BY <1>6, ThreadTypes DEF Crash, TypeOK
  <2>4. \A j \in Instance :
          /\ matchTh'[j] = matchTh[j] \/ matchTh'[j] = MatchIdle
          /\ gameTh'[j] = gameTh[j] \/ gameTh'[j] = GameIdle
          /\ tickTh'[j] = tickTh[j] \/ tickTh'[j] = TickIdle
          /\ httpTh'[j] = httpTh[j] \/ httpTh'[j] = HttpIdle
    BY <1>6 DEF Crash, TypeOK
  <2>5. MatchIdle.pc = "idle" /\ GameIdle.pc = "idle" /\ TickIdle.pc = "idle" /\ HttpIdle.pc = "idle"
    BY DEF MatchIdle, GameIdle, TickIdle, HttpIdle
  <2>6. ThreadsOK'
    BY <2>4, <2>5
  <2>7. QED
    BY <1>6, <2>1, <2>2, <2>3, <2>6 DEF Crash, TypeOK
<1>7. QED
  BY <1>2, <1>3, <1>4, <1>5, <1>6 DEF MatchStep

\* The game-topic subscription.
LEMMA GameThreadTypes ==
  ASSUME NEW t \in GameThread, t.game \in Game
  PROVE  /\ \A pc \in {"branch", "encodeMove", "approve", "encode", "announce", "remove"} :
              /\ [t EXCEPT !.pc = pc] \in GameThread
              /\ [t EXCEPT !.pc = pc].game \in Game
              /\ [t EXCEPT !.pc = pc, !.copy = NoRecord] \in GameThread
              /\ [t EXCEPT !.pc = pc, !.copy = NoRecord].game \in Game
         /\ \A pc \in {"save", "saveMove"}, g \in GameRecord :
              /\ [t EXCEPT !.pc = pc, !.copy = g] \in GameThread
              /\ [t EXCEPT !.pc = pc, !.copy = g].game \in Game
         /\ t.copy \in GameRecord /\ t.ply \in Nat
BY NoRecordType DEF GameThread

\* What a step does to gameTh.
GameThreadStep(i) ==
  \E t \in GameThread :
    /\ gameTh' = [gameTh EXCEPT ![i] = t]
    /\ t = GameIdle \/ t.game \in Game

LEMMA GameThreadStepOK ==
  ASSUME TypeInv, NEW i \in Instance, GameThreadStep(i)
  PROVE  /\ gameTh' \in [Instance -> GameThread]
         /\ \A j \in Instance : gameTh'[j].pc # "idle" => gameTh'[j].game \in Game
<1>1. /\ gameTh \in [Instance -> GameThread]
      /\ \A j \in Instance : gameTh[j].pc # "idle" => gameTh[j].game \in Game
  BY DEF TypeInv, TypeOK, ThreadsOK
<1>2. PICK t \in GameThread : /\ gameTh' = [gameTh EXCEPT ![i] = t]
                              /\ t = GameIdle \/ t.game \in Game
  BY DEF GameThreadStep
<1>3. GameIdle.pc = "idle"
  BY DEF GameIdle
<1>4. QED
  BY <1>1, <1>2, <1>3

\* The part of the state only the entity methods and gameTh change.
LEMMA ActTypeInv ==
  ASSUME TypeInv, NEW i \in Instance, NEW kind, NEW accepts, NEW game \in GameRecord,
         NEW next \in {"idle", "branch", "encode"}, Act(i, kind, accepts, game, next)
  PROVE  TypeInv'
<1>1. gameTh[i] \in GameThread /\ gameTh[i].game \in Game
  BY DEF TypeInv, TypeOK, ThreadsOK, Act
<1>2. GameThreadStep(i)
  <2>1. CASE gameTh' = [gameTh EXCEPT ![i] = GameIdle]
    BY <2>1, ThreadTypes DEF GameThreadStep
  <2>2. CASE next # "idle" /\ gameTh' = [gameTh EXCEPT ![i] = [gameTh[i] EXCEPT !.pc = next]]
    BY <1>1, <2>2, GameThreadTypes DEF GameThreadStep
  <2>3. QED
    BY <2>1, <2>2 DEF Act
<1>3. object' \in [Game -> GameRecord]
  BY ZenonT(30) DEF Act, TypeInv, TypeOK
<1>4. UNCHANGED <<redis, bus, origin, games, away, matchTh, tickTh, httpTh>>
  BY DEF Act
<1>5. QED
  BY <1>2, <1>3, <1>4, GameThreadStepOK DEF TypeInv, TypeOK, ThreadsOK, redis, bus

LEMMA GoneType ==
  ASSUME NEW r \in GoneRecord, NEW p \in Player
  PROVE  Gone(r, p) \in GoneRecord /\ Back(r, p) \in GoneRecord
<1>. DEFINE rest == r.gone \ {p}
<1>1. rest \subseteq Player
  BY DEF GoneRecord
<1>2. rest # {} => (CHOOSE q \in rest : TRUE) \in Player
  BY <1>1
<1>3. QED
  BY <1>1, <1>2 DEF Gone, Back, GoneRecord, PlayerOrNone

LEMMA GameEventTypeInv ==
  ASSUME TypeInv, NEW i \in Instance, GameEvent(i)
  PROVE  TypeInv'
<1>1. ASSUME NEW g \in Game, NEW p \in Player, NEW kind \in Kinds, NEW n \in 0..MaxMoves,
             ReceiveGameEvent(i, g, p, kind, n)
      PROVE  TypeInv'
  <2>. DEFINE t == [GameIdle EXCEPT !.pc = "act", !.kind = kind, !.game = g, !.by = p, !.ply = n]
  <2>1. t \in GameThread /\ t.game = g
    <3>1. kind \in EventKind /\ n \in Nat
      BY ServiceAssumption
    <3>2. GameIdle \in GameThread
      BY ThreadTypes
    <3>3. QED
      BY <3>1, <3>2 DEF GameIdle, GameThread, PlayerOrNone, GameOrNone
  <2>2. gameTh' = [gameTh EXCEPT ![i] = t]
    BY <1>1 DEF ReceiveGameEvent
  <2>3. GameThreadStep(i)
    BY <2>1, <2>2 DEF GameThreadStep
  <2>4. UNCHANGED <<redis, bus, memory, matchTh, tickTh, httpTh>>
    BY <1>1 DEF ReceiveGameEvent
  <2>5. QED
    BY <2>3, <2>4, GameThreadStepOK DEF TypeInv, TypeOK, ThreadsOK, redis, bus, memory
<1>2. ASSUME NEW g \in Game, NEW p \in Player, PlayerLeft(i, g, p) \/ PlayerJoined(i, g, p)
      PROVE  TypeInv'
  <2>1. away' \in [Instance -> [Game -> GoneRecord]]
    <3>1. away \in [Instance -> [Game -> GoneRecord]]
      BY DEF TypeInv, TypeOK
    <3>2. PICK r \in GoneRecord : away' = [away EXCEPT ![i][g] = r]
      BY <1>2, <3>1, GoneType DEF PlayerLeft, PlayerJoined
    <3>3. QED
      BY <3>1, <3>2
  <2>2. UNCHANGED <<redis, bus, origin, object, games, matchTh, gameTh, tickTh, httpTh>>
    BY <1>2 DEF PlayerLeft, PlayerJoined
  <2>3. QED
    BY <2>1, <2>2 DEF TypeInv, TypeOK, ThreadsOK, redis, bus
<1>3. ASSUME NEW g \in Game, ForgetConnections(i, g)
      PROVE  TypeInv'
  <2>1. away' \in [Instance -> [Game -> GoneRecord]]
    BY <1>3, ThreadTypes DEF ForgetConnections, TypeInv, TypeOK
  <2>2. UNCHANGED <<redis, bus, origin, object, games, matchTh, gameTh, tickTh, httpTh>>
    BY <1>3 DEF ForgetConnections
  <2>3. QED
    BY <2>1, <2>2 DEF TypeInv, TypeOK, ThreadsOK, redis, bus
<1>4. QED
  BY <1>1, <1>2, <1>3 DEF GameEvent

LEMMA GameStepTypeInv ==
  ASSUME TypeInv, NEW i \in Instance, GameStep(i)
  PROVE  TypeInv'
<1>. DEFINE t == gameTh[i]
<1>1. ASSUME t.pc # "idle"
      PROVE  t \in GameThread /\ t.game \in Game /\ object[t.game] \in GameRecord
  BY <1>1 DEF TypeInv, TypeOK, ThreadsOK
<1>2. t \in GameThread /\ t.by \in PlayerOrNone
  BY DEF TypeInv, TypeOK, GameThread
<1>3. CASE ActMove(i)
  BY <1>1, <1>3, ActTypeInv, MovedType DEF ActMove, Act
<1>4. CASE ActOffer(i)
  BY <1>1, <1>2, <1>4, ActTypeInv, DrawType DEF ActOffer, Act
<1>5. CASE ActReject(i)
  BY <1>1, <1>2, <1>5, ActTypeInv, DrawType DEF ActReject, Act
<1>6. CASE ActAccept(i)
  BY <1>1, <1>2, <1>6, ActTypeInv, DrawType DEF ActAccept, Act
<1>7. CASE ActClaim(i)
  BY <1>1, <1>2, <1>7, ActTypeInv, DrawType DEF ActClaim, Act
<1>8. CASE ActResign(i)
  BY <1>1, <1>8, ActTypeInv, ResignedType DEF ActResign, Act
<1>9. CASE BranchOnOutcome(i)
  <2>1. t \in GameThread /\ t.game \in Game /\ Deactivated(object[t.game]) \in GameRecord
    BY <1>1, <1>2, <1>9, DrawType DEF BranchOnOutcome
  <2>2. object' \in [Game -> GameRecord]
    BY <1>9, <2>1 DEF BranchOnOutcome, TypeInv, TypeOK
  <2>3. GameThreadStep(i)
    BY <1>9, <2>1, GameThreadTypes DEF BranchOnOutcome, GameThreadStep
  <2>4. UNCHANGED <<redis, bus, origin, games, away, matchTh, tickTh, httpTh>>
    BY <1>9 DEF BranchOnOutcome
  <2>5. QED
    BY <2>2, <2>3, <2>4, GameThreadStepOK DEF TypeInv, TypeOK, ThreadsOK, redis, bus
<1>10. CASE EncodeGame(i)
  <2>1. t \in GameThread /\ t.game \in Game /\ Encoded(object[t.game]) \in GameRecord
    BY <1>1, <1>2, <1>10, DrawType DEF EncodeGame
  <2>2. GameThreadStep(i)
    <3>. DEFINE copy == Encoded(object[t.game])
    <3>1. \/ gameTh' = [gameTh EXCEPT ![i] = [t EXCEPT !.pc = "save", !.copy = copy]]
          \/ gameTh' = [gameTh EXCEPT ![i] = [t EXCEPT !.pc = "saveMove", !.copy = copy]]
      BY <1>10 DEF EncodeGame, TypeInv, TypeOK, GameThread
    <3>. HIDE DEF copy
    <3>2. copy \in GameRecord
      BY <2>1 DEF copy
    <3>3. QED
      BY <2>1, <3>1, <3>2, GameThreadTypes DEF GameThreadStep
  <2>3. UNCHANGED <<redis, bus, memory, matchTh, tickTh, httpTh>>
    BY <1>10 DEF EncodeGame
  <2>4. QED
    BY <2>2, <2>3, GameThreadStepOK DEF TypeInv, TypeOK, ThreadsOK, redis, bus, memory
<1>11. CASE SaveMove(i)
  <2>1. t \in GameThread /\ t.game \in Game /\ t.copy \in GameRecord
    BY <1>1, <1>11, GameThreadTypes DEF SaveMove
  <2>2. cached' \in [Game -> CacheEntry]
    BY <1>11, <2>1 DEF SaveMove, TypeInv, TypeOK, CacheEntry
  <2>3. GameThreadStep(i)
    BY <1>11, <2>1, GameThreadTypes, ThreadTypes DEF SaveMove, GameThreadStep
  <2>4. UNCHANGED <<playerGame, bus, memory, matchTh, tickTh, httpTh>>
    BY <1>11 DEF SaveMove
  <2>5. QED
    BY <2>2, <2>3, <2>4, GameThreadStepOK DEF TypeInv, TypeOK, ThreadsOK, bus, memory
<1>12. CASE Approve(i)
  <2>1. t \in GameThread /\ t.game \in Game /\ t.ply \in Nat
    BY <1>1, <1>12, GameThreadTypes DEF Approve
  <2>2. approved' \in [Game -> Seq(Nat)] /\ late' \in [Game -> Nat]
    BY <1>12, <2>1, ApproveMoveType DEF Approve, TypeInv, TypeOK
  <2>3. GameThreadStep(i)
    BY <1>12, ThreadTypes DEF Approve, GameThreadStep
  <2>4. UNCHANGED <<redis, matches, inbox, created, ended, memory, matchTh, tickTh, httpTh>>
    BY <1>12 DEF Approve
  <2>5. QED
    BY <2>2, <2>3, <2>4, GameThreadStepOK DEF TypeInv, TypeOK, ThreadsOK, redis, memory
<1>13. CASE SaveEnd(i)
  <2>1. t \in GameThread /\ t.game \in Game /\ t.copy \in GameRecord
    BY <1>1, <1>13, GameThreadTypes DEF SaveEnd
  <2>2. cached' \in [Game -> CacheEntry] /\ playerGame' \in [Player -> GameOrNone]
    <3>1. CASE UNCHANGED redis
      BY <3>1 DEF TypeInv, TypeOK, redis
    <3>2. CASE DeactivateInRedis({t.game}, [g \in {t.game} |-> t.copy])
      BY <2>1, <3>2, DeactivateInRedisType DEF TypeInv, TypeOK
    <3>3. QED
      BY <1>13, <3>1, <3>2 DEF SaveEnd
  <2>3. GameThreadStep(i)
    BY <1>13, <2>1, GameThreadTypes, ThreadTypes DEF SaveEnd, GameThreadStep
  <2>4. UNCHANGED <<bus, memory, matchTh, tickTh, httpTh>>
    BY <1>13 DEF SaveEnd
  <2>5. QED
    BY <2>2, <2>3, <2>4, GameThreadStepOK DEF TypeInv, TypeOK, ThreadsOK, bus, memory
<1>14. CASE AnnounceEnd(i)
  <2>1. t \in GameThread /\ t.game \in Game /\ t.ply \in Nat
        /\ object[t.game].outcome \in Outcome
    BY <1>1, <1>14, GameThreadTypes DEF AnnounceEnd, GameRecord
  <2>2. approved' \in [Game -> Seq(Nat)] /\ late' \in [Game -> Nat]
    BY <1>14, <2>1, ApproveMoveType DEF AnnounceEnd, TypeInv, TypeOK
  <2>3. ended' \in [Game -> SUBSET Announcement]
    BY <1>14, <2>1 DEF AnnounceEnd, TypeInv, TypeOK, Announcement
  <2>4. GameThreadStep(i)
    BY <1>14, <2>1, GameThreadTypes, ThreadTypes DEF AnnounceEnd, GameThreadStep
  <2>5. UNCHANGED <<redis, matches, inbox, created, memory, matchTh, tickTh, httpTh>>
    BY <1>14 DEF AnnounceEnd
  <2>6. QED
    BY <2>2, <2>3, <2>4, <2>5, GameThreadStepOK DEF TypeInv, TypeOK, ThreadsOK, redis, memory
<1>15. CASE RemoveGame(i)
  <2>1. t \in GameThread /\ t.game \in Game
    BY <1>1, <1>15 DEF RemoveGame
  <2>2. games' \in [Instance -> SUBSET Game]
    BY <1>15 DEF RemoveGame, TypeInv, TypeOK
  <2>3. GameThreadStep(i)
    BY <1>15, <2>1, GameThreadTypes, ThreadTypes DEF RemoveGame, GameThreadStep
  <2>4. UNCHANGED <<redis, bus, origin, object, away, matchTh, tickTh, httpTh>>
    BY <1>15 DEF RemoveGame
  <2>5. QED
    BY <2>2, <2>3, <2>4, GameThreadStepOK DEF TypeInv, TypeOK, ThreadsOK, redis, bus
<1>16. QED
  BY <1>3, <1>4, <1>5, <1>6, <1>7, <1>8, <1>9, <1>10, <1>11, <1>12, <1>13, <1>14, <1>15
     DEF GameStep

\* The ticker.
TickThreadStep(i) ==
  \E t \in TickThread :
    /\ tickTh' = [tickTh EXCEPT ![i] = t]
    /\ t.pc = "left" => t.game \in Game

LEMMA TickThreadStepOK ==
  ASSUME TypeInv, NEW i \in Instance, TickThreadStep(i)
  PROVE  /\ tickTh' \in [Instance -> TickThread]
         /\ \A j \in Instance : tickTh'[j].pc = "left" => tickTh'[j].game \in Game
<1>1. /\ tickTh \in [Instance -> TickThread]
      /\ \A j \in Instance : tickTh[j].pc = "left" => tickTh[j].game \in Game
  BY DEF TypeInv, TypeOK, ThreadsOK
<1>2. PICK t \in TickThread : /\ tickTh' = [tickTh EXCEPT ![i] = t]
                              /\ t.pc = "left" => t.game \in Game
  BY DEF TickThreadStep
<1>3. QED
  BY <1>1, <1>2

LEMMA TickTypeInv ==
  ASSUME TypeInv, NEW i \in Instance, TickList(i) \/ TickStep(i)
  PROVE  TypeInv'
<1>. DEFINE t == tickTh[i]
<1>1. /\ t \in TickThread
      /\ t.pc = "left" => t.game \in Game
      /\ tickTh \in [Instance -> TickThread]
      /\ object \in [Game -> GameRecord] /\ games \in [Instance -> SUBSET Game]
      /\ away \in [Instance -> [Game -> GoneRecord]]
  BY DEF TypeInv, TypeOK, ThreadsOK
<1>2. /\ t.list \in SUBSET Game /\ t.ending \in SUBSET Game
      /\ t.loser \in [Game -> PlayerOrNone] /\ t.outcome \in [Game -> Outcome]
      /\ t.copy \in [Game -> GameRecord]
  BY <1>1 DEF TickThread
<1>3. CASE TickList(i)
  <2>. DEFINE u == [TickIdle EXCEPT !.pc = "scan", !.list = games[i]]
  <2>1. u \in TickThread /\ u.pc # "left"
    BY <1>1, ThreadTypes DEF TickThread, TickIdle
  <2>2. TickThreadStep(i)
    BY <1>3, <2>1 DEF TickList, TickThreadStep
  <2>3. UNCHANGED <<redis, bus, memory, matchTh, gameTh, httpTh>>
    BY <1>3 DEF TickList
  <2>4. QED
    BY <2>2, <2>3, TickThreadStepOK DEF TypeInv, TypeOK, ThreadsOK, redis, bus, memory
<1>4. ASSUME NEW due \in SUBSET Game, TickScan(i, due)
      PROVE  TypeInv'
  <2>. DEFINE list == t.list \cap due
              loser == [g \in Game |-> IF g \in due \cap t.list
                                         THEN away[i][g].first ELSE NoPlayer]
              u == [t EXCEPT !.pc = "loop", !.list = list, !.loser = loser]
  <2>1. list \in SUBSET Game /\ loser \in [Game -> PlayerOrNone]
    BY <1>1, <1>2 DEF GoneRecord, PlayerOrNone
  <2>2. tickTh' = [tickTh EXCEPT ![i] = u]
    BY <1>1, <1>4 DEF TickScan
  <2>. HIDE DEF list, loser
  <2>3. u \in TickThread /\ u.pc # "left"
    BY <1>1, <2>1 DEF TickThread
  <2>4. TickThreadStep(i)
    BY <2>2, <2>3 DEF TickThreadStep
  <2>5. away' \in [Instance -> [Game -> GoneRecord]]
    <3>1. [g \in Game |-> IF g \in due THEN NobodyGone ELSE away[i][g]] \in [Game -> GoneRecord]
      BY <1>1, ThreadTypes
    <3>2. QED
      BY <1>1, <1>4, <3>1 DEF TickScan
  <2>6. UNCHANGED <<redis, bus, origin, object, games, matchTh, gameTh, httpTh>>
    BY <1>4 DEF TickScan
  <2>7. QED
    BY <2>4, <2>5, <2>6, TickThreadStepOK DEF TypeInv, TypeOK, ThreadsOK, redis, bus
<1>5. ASSUME NEW g \in Game, TickCheck(i, g)
      PROVE  TypeInv'
  <2>. DEFINE list == t.list \ {g}
  <2>1. \/ tickTh' = [tickTh EXCEPT ![i] = [t EXCEPT !.list = list, !.pc = "left", !.game = g]]
        \/ tickTh' = [tickTh EXCEPT ![i] = [t EXCEPT !.list = list, !.pc = "loop", !.game = NoGame]]
    BY <1>1, <1>5 DEF TickCheck
  <2>2. list \in SUBSET Game
    BY <1>2
  <2>. HIDE DEF list
  <2>3. /\ [t EXCEPT !.list = list, !.pc = "left", !.game = g] \in TickThread
        /\ [t EXCEPT !.list = list, !.pc = "left", !.game = g].game = g
        /\ [t EXCEPT !.list = list, !.pc = "loop", !.game = NoGame] \in TickThread
        /\ [t EXCEPT !.list = list, !.pc = "loop", !.game = NoGame].pc = "loop"
    BY <1>1, <2>2 DEF TickThread, GameOrNone
  <2>4. TickThreadStep(i)
    BY <2>1, <2>3 DEF TickThreadStep
  <2>5. UNCHANGED <<redis, bus, memory, matchTh, gameTh, httpTh>>
    BY <1>5 DEF TickCheck
  <2>6. QED
    BY <2>4, <2>5, TickThreadStepOK DEF TypeInv, TypeOK, ThreadsOK, redis, bus, memory
<1>6. CASE TickForfeit(i)
  <2>. DEFINE over == Resigned(object[t.game], t.loser[t.game])
              ending == t.ending \cup {t.game}
              outcome == [t.outcome EXCEPT ![t.game] = over.outcome]
              u == [t EXCEPT !.pc = "loop", !.game = NoGame, !.ending = ending,
                             !.outcome = outcome]
  <2>1. t.game \in Game /\ over \in GameRecord
    BY <1>1, <1>6, ResignedType DEF TickForfeit
  <2>2. over.outcome \in Outcome
    BY <2>1 DEF GameRecord
  <2>3. ending \in SUBSET Game /\ outcome \in [Game -> Outcome]
    BY <1>2, <2>1, <2>2
  <2>4. object' \in [Game -> GameRecord]
    BY <1>1, <1>6, <2>1 DEF TickForfeit
  <2>5. tickTh' = [tickTh EXCEPT ![i] = u]
    BY <1>1, <1>6 DEF TickForfeit
  <2>. HIDE DEF ending, outcome
  <2>6. u \in TickThread /\ u.pc # "left"
    BY <1>1, <2>3 DEF TickThread, GameOrNone
  <2>7. TickThreadStep(i)
    BY <2>5, <2>6 DEF TickThreadStep
  <2>8. UNCHANGED <<redis, bus, origin, games, away, matchTh, gameTh, httpTh>>
    BY <1>6 DEF TickForfeit
  <2>9. QED
    BY <2>4, <2>7, <2>8, TickThreadStepOK DEF TypeInv, TypeOK, ThreadsOK, redis, bus
<1>7. CASE TickEncode(i)
  <2>. DEFINE loser == TickIdle.loser
              copy == [g \in Game |-> IF g \in t.ending THEN Encoded(object[g]) ELSE NoRecord]
              u == [t EXCEPT !.pc = "save", !.loser = loser, !.copy = copy]
  <2>1. loser \in [Game -> PlayerOrNone] /\ copy \in [Game -> GameRecord]
    <3>1. \A g \in Game : Encoded(object[g]) \in GameRecord
      BY <1>1, DrawType DEF PlayerOrNone
    <3>2. QED
      BY <3>1, NoRecordType DEF TickIdle, PlayerOrNone
  <2>2. \/ tickTh' = [tickTh EXCEPT ![i] = TickIdle]
        \/ tickTh' = [tickTh EXCEPT ![i] = u]
    BY <1>7 DEF TickEncode
  <2>. HIDE DEF loser, copy
  <2>3. u \in TickThread /\ u.pc # "left" /\ TickIdle.pc # "left"
    BY <1>1, <2>1 DEF TickThread, TickIdle
  <2>4. TickThreadStep(i)
    BY <2>2, <2>3, ThreadTypes DEF TickThreadStep
  <2>5. UNCHANGED <<redis, bus, memory, matchTh, gameTh, httpTh>>
    BY <1>7 DEF TickEncode
  <2>6. QED
    BY <2>4, <2>5, TickThreadStepOK DEF TypeInv, TypeOK, ThreadsOK, redis, bus, memory
<1>8. CASE TickSave(i)
  <2>. DEFINE copy == TickIdle.copy
              u == [t EXCEPT !.pc = "announce", !.copy = copy]
  <2>1. copy \in [Game -> GameRecord]
    BY NoRecordType DEF TickIdle
  <2>2. tickTh' = [tickTh EXCEPT ![i] = u]
    BY <1>1, <1>8 DEF TickSave
  <2>. HIDE DEF copy
  <2>3. u \in TickThread /\ u.pc # "left"
    BY <1>1, <2>1 DEF TickThread
  <2>4. TickThreadStep(i)
    BY <2>2, <2>3 DEF TickThreadStep
  <2>5. cached' \in [Game -> CacheEntry] /\ playerGame' \in [Player -> GameOrNone]
    <3>1. CASE UNCHANGED redis
      BY <3>1 DEF TypeInv, TypeOK, redis
    <3>2. CASE DeactivateInRedis(t.ending, t.copy)
      BY <1>2, <3>2, DeactivateInRedisType DEF TypeInv, TypeOK
    <3>3. QED
      BY <1>8, <3>1, <3>2 DEF TickSave
  <2>6. UNCHANGED <<bus, memory, matchTh, gameTh, httpTh>>
    BY <1>8 DEF TickSave
  <2>7. QED
    BY <2>4, <2>5, <2>6, TickThreadStepOK DEF TypeInv, TypeOK, ThreadsOK, bus, memory
<1>9. CASE TickAnnounce(i)
  <2>1. TickThreadStep(i)
    <3>. DEFINE u == [t EXCEPT !.pc = "remove"]
    <3>1. tickTh' = [tickTh EXCEPT ![i] = u]
      BY <1>1, <1>9 DEF TickAnnounce
    <3>2. u \in TickThread /\ u.pc # "left"
      BY <1>1 DEF TickThread
    <3>3. QED
      BY <3>1, <3>2 DEF TickThreadStep
  <2>2. ended' \in [Game -> SUBSET Announcement]
    <3>1. PICK sent \in SUBSET t.ending :
             ended' = [g \in Game |-> IF g \in sent
                THEN ended[g] \cup {[by |-> "tick", outcome |-> t.outcome[g]]} ELSE ended[g]]
      BY <1>9 DEF TickAnnounce
    <3>2. \A g \in Game : [by |-> "tick", outcome |-> t.outcome[g]] \in Announcement
      BY <1>2 DEF Announcement
    <3>3. ended \in [Game -> SUBSET Announcement]
      BY DEF TypeInv, TypeOK
    <3>4. QED
      BY <3>1, <3>2, <3>3
  <2>3. UNCHANGED <<redis, matches, inbox, created, approved, late, memory,
                    matchTh, gameTh, httpTh>>
    BY <1>9 DEF TickAnnounce
  <2>4. QED
    BY <2>1, <2>2, <2>3, TickThreadStepOK DEF TypeInv, TypeOK, ThreadsOK, redis, memory
<1>10. CASE TickRemove(i)
  <2>1. TickThreadStep(i)
    BY <1>10, ThreadTypes DEF TickRemove, TickThreadStep, TickIdle
  <2>2. games' \in [Instance -> SUBSET Game]
    BY <1>1, <1>10 DEF TickRemove
  <2>3. UNCHANGED <<redis, bus, origin, object, away, matchTh, gameTh, httpTh>>
    BY <1>10 DEF TickRemove
  <2>4. QED
    BY <2>1, <2>2, <2>3, TickThreadStepOK DEF TypeInv, TypeOK, ThreadsOK, redis, bus
<1>11. QED
  BY <1>3, <1>4, <1>5, <1>6, <1>7, <1>8, <1>9, <1>10 DEF TickStep

\* The request over HTTP.
HttpThreadStep(i) ==
  \E t \in HttpThread :
    /\ httpTh' = [httpTh EXCEPT ![i] = t]
    /\ t = HttpIdle \/ t.game \in Game

LEMMA HttpThreadStepOK ==
  ASSUME TypeInv, NEW i \in Instance, HttpThreadStep(i)
  PROVE  /\ httpTh' \in [Instance -> HttpThread]
         /\ \A j \in Instance : httpTh'[j].pc # "idle" => httpTh'[j].game \in Game
<1>1. /\ httpTh \in [Instance -> HttpThread]
      /\ \A j \in Instance : httpTh[j].pc # "idle" => httpTh[j].game \in Game
  BY DEF TypeInv, TypeOK, ThreadsOK
<1>2. PICK t \in HttpThread : /\ httpTh' = [httpTh EXCEPT ![i] = t]
                              /\ t = HttpIdle \/ t.game \in Game
  BY DEF HttpThreadStep
<1>3. HttpIdle.pc = "idle"
  BY DEF HttpIdle
<1>4. QED
  BY <1>1, <1>2, <1>3

LEMMA HttpThreadTypes ==
  ASSUME NEW t \in HttpThread
  PROVE  /\ \A pc \in {"resign", "encode", "announce"} :
              /\ [t EXCEPT !.pc = pc] \in HttpThread
              /\ [t EXCEPT !.pc = pc].game = t.game
         /\ t.copy \in GameRecord /\ t.local \in GameRecord
BY DEF HttpThread

LEMMA HttpTypeInv ==
  ASSUME TypeInv, NEW i \in Instance,
         \/ \E g \in Game, p \in Player : HttpRequest(i, g, p)
         \/ HttpStep(i)
  PROVE  TypeInv'
<1>. DEFINE t == httpTh[i]
<1>1. /\ t \in HttpThread
      /\ t.pc # "idle" => t.game \in Game
      /\ httpTh \in [Instance -> HttpThread]
      /\ object \in [Game -> GameRecord] /\ games \in [Instance -> SUBSET Game]
      /\ cached \in [Game -> CacheEntry]
  BY DEF TypeInv, TypeOK, ThreadsOK
<1>2. t.pc # "idle" => HttpGame(t) \in GameRecord
  BY <1>1, HttpThreadTypes DEF HttpGame
<1>3. ASSUME NEW g \in Game, NEW p \in Player, HttpRequest(i, g, p)
      PROVE  TypeInv'
  <2>. DEFINE u(pc) == [HttpIdle EXCEPT !.pc = pc, !.game = g, !.by = p]
  <2>1. \A pc \in {"check", "load"} : u(pc) \in HttpThread /\ u(pc).game = g
    BY ThreadTypes, NoRecordType DEF HttpThread, HttpIdle, GameOrNone, PlayerOrNone
  <2>2. \/ httpTh' = [httpTh EXCEPT ![i] = u("check")]
        \/ httpTh' = [httpTh EXCEPT ![i] = u("load")]
    BY <1>3 DEF HttpRequest
  <2>. HIDE DEF u
  <2>3. HttpThreadStep(i)
    BY <2>1, <2>2 DEF HttpThreadStep
  <2>4. UNCHANGED <<redis, bus, memory, matchTh, gameTh, tickTh>>
    BY <1>3 DEF HttpRequest
  <2>5. QED
    BY <2>3, <2>4, HttpThreadStepOK DEF TypeInv, TypeOK, ThreadsOK, redis, bus, memory
<1>4. CASE HttpLoad(i) \/ HttpCheck(i) \/ HttpEncode(i)
  <2>1. t.game \in Game
    BY <1>1, <1>4 DEF HttpLoad, HttpCheck, HttpEncode
  <2>2. ASSUME HttpLoad(i) PROVE HttpThreadStep(i)
    <3>. DEFINE local == cached[t.game].game
    <3>1. local \in GameRecord
      BY <1>1, <2>1 DEF CacheEntry
    <3>2. \/ httpTh' = [httpTh EXCEPT ![i] = HttpIdle]
          \/ httpTh' = [httpTh EXCEPT ![i] = [t EXCEPT !.pc = "resign", !.local = local]]
      BY <2>2 DEF HttpLoad
    <3>. HIDE DEF local
    <3>3. /\ [t EXCEPT !.pc = "resign", !.local = local] \in HttpThread
          /\ [t EXCEPT !.pc = "resign", !.local = local].game = t.game
      BY <1>1, <3>1 DEF HttpThread
    <3>4. QED
      BY <2>1, <3>2, <3>3, ThreadTypes DEF HttpThreadStep
  <2>3. ASSUME HttpCheck(i) PROVE HttpThreadStep(i)
    <3>1. \/ httpTh' = [httpTh EXCEPT ![i] = HttpIdle]
          \/ httpTh' = [httpTh EXCEPT ![i] = [t EXCEPT !.pc = "resign"]]
      BY <2>3 DEF HttpCheck
    <3>2. QED
      BY <1>1, <2>1, <3>1, HttpThreadTypes, ThreadTypes DEF HttpThreadStep
  <2>4. ASSUME HttpEncode(i) PROVE HttpThreadStep(i)
    <3>. DEFINE copy == Encoded(HttpGame(t))
    <3>1. copy \in GameRecord
      BY <1>2, <2>4, DrawType DEF HttpEncode, PlayerOrNone
    <3>2. httpTh' = [httpTh EXCEPT ![i] = [t EXCEPT !.pc = "save", !.copy = copy]]
      BY <1>1, <2>4 DEF HttpEncode
    <3>. HIDE DEF copy
    <3>3. /\ [t EXCEPT !.pc = "save", !.copy = copy] \in HttpThread
          /\ [t EXCEPT !.pc = "save", !.copy = copy].game = t.game
      BY <1>1, <3>1 DEF HttpThread
    <3>4. QED
      BY <2>1, <3>2, <3>3 DEF HttpThreadStep
  <2>5. HttpThreadStep(i)
    BY <1>4, <2>2, <2>3, <2>4
  <2>6. UNCHANGED <<redis, bus, memory, matchTh, gameTh, tickTh>>
    BY <1>4 DEF HttpLoad, HttpCheck, HttpEncode
  <2>7. QED
    BY <2>5, <2>6, HttpThreadStepOK DEF TypeInv, TypeOK, ThreadsOK, redis, bus, memory
<1>5. CASE HttpAct(i)
  <2>1. t.game \in Game /\ t.local \in GameRecord
    BY <1>1, <1>5, HttpThreadTypes DEF HttpAct
  <2>2. /\ Resigned(object[t.game], t.by) \in GameRecord
        /\ Resigned(t.local, t.by) \in GameRecord
    BY <1>1, <2>1, ResignedType
  <2>3. object' \in [Game -> GameRecord]
    BY <1>1, <1>5, <2>2 DEF HttpAct
  <2>. DEFINE over == Resigned(t.local, t.by)
  <2>4. \/ httpTh' = [httpTh EXCEPT ![i] = [t EXCEPT !.pc = "encode"]]
        \/ httpTh' = [httpTh EXCEPT ![i] = [t EXCEPT !.pc = "encode", !.local = over]]
    BY <1>1, <1>5 DEF HttpAct
  <2>8. over \in GameRecord
    BY <2>2
  <2>. HIDE DEF over
  <2>9. /\ [t EXCEPT !.pc = "encode", !.local = over] \in HttpThread
        /\ [t EXCEPT !.pc = "encode", !.local = over].game = t.game
        /\ [t EXCEPT !.pc = "encode"] \in HttpThread
        /\ [t EXCEPT !.pc = "encode"].game = t.game
    BY <1>1, <2>8 DEF HttpThread
  <2>5. HttpThreadStep(i)
    BY <2>1, <2>4, <2>9 DEF HttpThreadStep
  <2>6. UNCHANGED <<redis, bus, origin, games, away, matchTh, gameTh, tickTh>>
    BY <1>5 DEF HttpAct
  <2>7. QED
    BY <2>3, <2>5, <2>6, HttpThreadStepOK DEF TypeInv, TypeOK, ThreadsOK, redis, bus
<1>6. CASE HttpSave(i)
  <2>1. t.game \in Game /\ t.copy \in GameRecord
    BY <1>1, <1>6, HttpThreadTypes DEF HttpSave
  <2>2. cached' \in [Game -> CacheEntry] /\ playerGame' \in [Player -> GameOrNone]
    <3>1. CASE UNCHANGED redis
      BY <3>1 DEF TypeInv, TypeOK, redis
    <3>2. CASE DeactivateInRedis({t.game}, [g \in {t.game} |-> t.copy])
      BY <2>1, <3>2, DeactivateInRedisType DEF TypeInv, TypeOK
    <3>3. QED
      BY <1>6, <3>1, <3>2 DEF HttpSave
  <2>3. \/ httpTh' = [httpTh EXCEPT ![i] = HttpIdle]
        \/ httpTh' = [httpTh EXCEPT ![i] = [t EXCEPT !.pc = "remove", !.copy = NoRecord]]
    BY <1>6 DEF HttpSave
  <2>4. HttpThreadStep(i)
    <3>1. /\ [t EXCEPT !.pc = "remove", !.copy = NoRecord] \in HttpThread
          /\ [t EXCEPT !.pc = "remove", !.copy = NoRecord].game = t.game
      BY <1>1, NoRecordType DEF HttpThread
    <3>2. QED
      BY <2>1, <2>3, <3>1, ThreadTypes DEF HttpThreadStep
  <2>5. UNCHANGED <<bus, memory, matchTh, gameTh, tickTh>>
    BY <1>6 DEF HttpSave
  <2>6. QED
    BY <2>2, <2>4, <2>5, HttpThreadStepOK DEF TypeInv, TypeOK, ThreadsOK, bus, memory
<1>7. CASE HttpRemove(i)
  <2>1. games' \in [Instance -> SUBSET Game]
    BY <1>1, <1>7 DEF HttpRemove
  <2>2. HttpThreadStep(i)
    BY <1>1, <1>7, HttpThreadTypes DEF HttpRemove, HttpThreadStep
  <2>3. UNCHANGED <<redis, bus, origin, object, away, matchTh, gameTh, tickTh>>
    BY <1>7 DEF HttpRemove
  <2>4. QED
    BY <2>1, <2>2, <2>3, HttpThreadStepOK DEF TypeInv, TypeOK, ThreadsOK, redis, bus
<1>8. CASE HttpAnnounce(i)
  <2>1. HttpGame(t).outcome \in Outcome
    BY <1>2, <1>8 DEF HttpAnnounce, GameRecord
  <2>. DEFINE a == [by |-> "http", outcome |-> HttpGame(t).outcome]
  <2>6. a \in Announcement
    BY <2>1 DEF Announcement
  <2>7. ended' = [ended EXCEPT ![t.game] = @ \cup {a}] \/ UNCHANGED ended
    BY <1>8 DEF HttpAnnounce
  <2>. HIDE DEF a
  <2>2. ended' \in [Game -> SUBSET Announcement]
    <3>1. ended \in [Game -> SUBSET Announcement]
      BY DEF TypeInv, TypeOK
    <3>2. \A g \in Game : ended[g] \cup {a} \in SUBSET Announcement
      BY <2>6, <3>1
    <3>3. QED
      BY <2>7, <3>1, <3>2
  <2>3. HttpThreadStep(i)
    BY <1>8, ThreadTypes DEF HttpAnnounce, HttpThreadStep
  <2>4. UNCHANGED <<redis, matches, inbox, created, approved, late, memory,
                    matchTh, gameTh, tickTh>>
    BY <1>8 DEF HttpAnnounce
  <2>5. QED
    BY <2>2, <2>3, <2>4, HttpThreadStepOK DEF TypeInv, TypeOK, ThreadsOK, redis, memory
<1>9. QED
  BY <1>3, <1>4, <1>5, <1>6, <1>7, <1>8 DEF HttpStep

LEMMA NextTypeInv == TypeInv /\ [Next]_vars => TypeInv'
<1>. SUFFICES ASSUME TypeInv, [Next]_vars PROVE TypeInv'
  OBVIOUS
<1>1. CASE Next
  BY <1>1, EnvironmentTypeInv, MatchTypeInv, GameEventTypeInv, GameStepTypeInv,
     TickTypeInv, HttpTypeInv DEF Next
<1>2. CASE UNCHANGED vars
  BY <1>2 DEF vars, redis, bus, memory, TypeInv, TypeOK, ThreadsOK
<1>3. QED
  BY <1>1, <1>2

\* The state keeps its type in every reachable state, and every goroutine past
\* its first step holds a game of the universe.
THEOREM TypeCorrect == Spec => []TypeOK
<1>1. Spec => []TypeInv
  BY InitTypeInv, NextTypeInv, PTL DEF Spec
<1>2. TypeInv => TypeOK
  BY DEF TypeInv
<1>3. QED
  BY <1>1, <1>2, PTL

-----------------------------------------------------------------------------
(* What no step does to a game: change its players, or take its result away *)

Keeps(r, g) ==
  /\ PlayersOf(r) = PlayersOf(g)
  /\ g.outcome # "none" => r.outcome # "none"

LEMMA EntityKeeps ==
  ASSUME NEW g \in GameRecord
  PROVE  /\ \A res \in PlyResult : Keeps(Moved(g, res), g)
         /\ \A p : Keeps(DrawOffered(g, p), g)
         /\ Keeps(DrawAccepted(g), g) /\ Keeps(DrawRejected(g), g)
         /\ Keeps(DrawClaimed(g), g) /\ Keeps(Deactivated(g), g)
         /\ \A p : Keeps(Resigned(g, p), g)
<1>1. ASSUME NEW res \in PlyResult
      PROVE  Keeps(Moved(g, res), g)
  <2>. DEFINE m == g.moves + 1  o == PlyOutcome(g, res)
  <2>1. g.outcome # "none" => o # "none"
    BY WinForColour DEF PlyOutcome, PlyResult
  <2>2. Moved(g, res) = [g EXCEPT !.moves = m, !.outcome = o]
    BY DEF Moved
  <2>. HIDE DEF m, o
  <2>3. QED
    BY <2>1, <2>2 DEF GameRecord, PlayersOf, Keeps
<1>2. \A p : Keeps(DrawOffered(g, p), g)
  BY DEF DrawOffered, GameRecord, PlayersOf, Keeps
<1>3. /\ Keeps(DrawAccepted(g), g) /\ Keeps(DrawRejected(g), g)
      /\ Keeps(DrawClaimed(g), g) /\ Keeps(Deactivated(g), g)
  BY DEF DrawAccepted, DrawRejected, DrawClaimed, Deactivated, GameRecord, PlayersOf, Keeps
<1>4. ASSUME NEW p PROVE Keeps(Resigned(g, p), g)
  <2>1. PlayersOf(Resigned(g, p)) = PlayersOf(g)
    BY DEF Resigned, Deactivated, GameRecord, PlayersOf
  <2>2. QED
    BY <2>1, ResignedType DEF Keeps
<1>5. QED
  BY <1>1, <1>2, <1>3, <1>4

\* A game keeps its match, its players and, once it has one, a result, unless
\* the step draws its id.
GamesKept ==
  \A g \in Game :
    \/ origin'[g] = origin[g] /\ Keeps(object'[g], object[g])
    \/ origin[g] = NoMatch /\ origin'[g] # NoMatch

LEMMA OneObjectChanged ==
  ASSUME TypeInv, NEW g \in Game, NEW r, Keeps(r, object[g]),
         object' = [object EXCEPT ![g] = r], UNCHANGED origin
  PROVE  GamesKept
BY DEF TypeInv, TypeOK, GamesKept, Keeps

LEMMA NoObjectChanged ==
  ASSUME UNCHANGED <<origin, object>>
  PROVE  GamesKept
BY DEF GamesKept, Keeps

LEMMA ActKeeps ==
  ASSUME TypeInv, NEW i \in Instance, NEW kind, NEW accepts, NEW r, NEW next,
         Keeps(r, object[gameTh[i].game]),
         Act(i, kind, accepts, r, next)
  PROVE  GamesKept
<1>1. gameTh[i].game \in Game /\ UNCHANGED origin
  BY DEF TypeInv, TypeOK, ThreadsOK, Act
<1>2. CASE UNCHANGED object
  BY <1>1, <1>2, NoObjectChanged
<1>3. CASE object' = [object EXCEPT ![gameTh[i].game] = r]
  BY <1>1, <1>3, OneObjectChanged
<1>4. QED
  BY <1>2, <1>3 DEF Act

LEMMA GameStepKeeps ==
  ASSUME TypeInv, NEW i \in Instance, GameStep(i)
  PROVE  GamesKept
<1>. DEFINE t == gameTh[i]
<1>1. ASSUME t.pc # "idle"
      PROVE  t.game \in Game /\ object[t.game] \in GameRecord
  BY <1>1 DEF TypeInv, TypeOK, ThreadsOK
<1>2. CASE ActMove(i)
  <2>1. PICK legal \in BOOLEAN, res \in PlyResult :
           Act(i, "move", legal /\ MayMove(object[t.game], t.by, t.ply),
               Moved(object[t.game], res), "branch")
    BY <1>2 DEF ActMove
  <2>2. t.pc = "act"
    BY <2>1 DEF Act
  <2>3. Keeps(Moved(object[t.game], res), object[t.game])
    BY <1>1, <2>2, EntityKeeps
  <2>4. QED
    BY <2>1, <2>3, ActKeeps
<1>3. CASE ActOffer(i)
  BY <1>1, <1>3, ActKeeps, EntityKeeps DEF ActOffer, Act
<1>4. CASE ActReject(i)
  BY <1>1, <1>4, ActKeeps, EntityKeeps DEF ActReject, Act
<1>5. CASE ActAccept(i)
  BY <1>1, <1>5, ActKeeps, EntityKeeps DEF ActAccept, Act
<1>6. CASE ActClaim(i)
  <2>1. PICK holds \in BOOLEAN :
           Act(i, "claim", holds, DrawClaimed(object[t.game]), "encode")
    BY <1>6 DEF ActClaim
  <2>2. t.pc = "act"
    BY <2>1 DEF Act
  <2>3. Keeps(DrawClaimed(object[t.game]), object[t.game])
    BY <1>1, <2>2, EntityKeeps
  <2>4. QED
    BY <2>1, <2>3, ActKeeps
<1>7. CASE ActResign(i)
  <2>1. Act(i, "resign", TRUE, Resigned(object[t.game], t.by), "encode")
    BY <1>7 DEF ActResign
  <2>2. t.pc = "act"
    BY <2>1 DEF Act
  <2>3. Keeps(Resigned(object[t.game], t.by), object[t.game])
    BY <1>1, <2>2, EntityKeeps
  <2>4. QED
    BY <2>1, <2>3, ActKeeps
<1>8. CASE BranchOnOutcome(i)
  <2>1. t.game \in Game /\ Keeps(Deactivated(object[t.game]), object[t.game])
    BY <1>1, <1>8, EntityKeeps DEF BranchOnOutcome
  <2>2. CASE UNCHANGED object
    BY <1>8, <2>2, NoObjectChanged DEF BranchOnOutcome
  <2>3. CASE object' = [object EXCEPT ![t.game] = Deactivated(object[t.game])]
    BY <1>8, <2>1, <2>3, OneObjectChanged DEF BranchOnOutcome
  <2>4. QED
    BY <1>8, <2>2, <2>3 DEF BranchOnOutcome
<1>9. CASE UNCHANGED <<origin, object>>
  BY <1>9, NoObjectChanged
<1>10. QED
  BY <1>2, <1>3, <1>4, <1>5, <1>6, <1>7, <1>8, <1>9
     DEF GameStep, EncodeGame, SaveMove, Approve, SaveEnd, AnnounceEnd, RemoveGame, memory

\* Whatever happens, a game stays a game of its two players, and an ended one
\* never loses its result.
LEMMA NextKeeps == TypeInv /\ [Next]_vars => GamesKept
<1>. SUFFICES ASSUME TypeInv, [Next]_vars PROVE GamesKept
  OBVIOUS
<1>1. ASSUME NEW i \in Instance, NEW m \in Match, ReceiveMatch(i, m)
      PROVE  GamesKept
  BY <1>1, ServiceAssumption DEF ReceiveMatch, TypeInv, TypeOK, GamesKept, Keeps
<1>2. ASSUME NEW i \in Instance, TickForfeit(i)
      PROVE  GamesKept
  <2>1. /\ tickTh[i].game \in Game
        /\ object[tickTh[i].game] \in GameRecord
    BY <1>2 DEF TickForfeit, TypeInv, TypeOK, ThreadsOK
  <2>2. QED
    BY <1>2, <2>1, EntityKeeps, OneObjectChanged DEF TickForfeit
<1>3. ASSUME NEW i \in Instance, HttpAct(i)
      PROVE  GamesKept
  <2>1. /\ httpTh[i].game \in Game
        /\ object[httpTh[i].game] \in GameRecord
    BY <1>3 DEF HttpAct, TypeInv, TypeOK, ThreadsOK
  <2>2. CASE UNCHANGED object
    BY <1>3, <2>2, NoObjectChanged DEF HttpAct
  <2>3. CASE ~UNCHANGED object
    BY <1>3, <2>1, <2>3, EntityKeeps, OneObjectChanged DEF HttpAct
  <2>4. QED
    BY <2>2, <2>3
<1>4. ASSUME UNCHANGED <<origin, object>>
      PROVE  GamesKept
  BY <1>4, NoObjectChanged
<1>5. CASE \E m \in Match, p, q \in Player : MatchFound(m, p, q)
  BY <1>4, <1>5 DEF MatchFound, memory
<1>6. ASSUME NEW g \in Game, Expire(g) PROVE GamesKept
  BY <1>4, <1>6 DEF Expire, memory
<1>7. ASSUME NEW i \in Instance, MatchStep(i) \/ Crash(i) PROVE GamesKept
  BY <1>1, <1>4, <1>7 DEF MatchStep, CacheNewGame, ManageGame, PublishCreated, Crash, memory
<1>8. ASSUME NEW i \in Instance, GameEvent(i) PROVE GamesKept
  BY <1>4, <1>8 DEF GameEvent, ReceiveGameEvent, PlayerLeft, PlayerJoined,
                    ForgetConnections, memory
<1>9. ASSUME NEW i \in Instance, TickList(i) \/ TickStep(i) PROVE GamesKept
  BY <1>2, <1>4, <1>9 DEF TickList, TickStep, TickScan, TickCheck, TickEncode, TickSave,
                          TickAnnounce, TickRemove, memory
<1>10. ASSUME NEW i \in Instance, HttpStep(i) \/ \E g \in Game, p \in Player : HttpRequest(i, g, p)
       PROVE  GamesKept
  BY <1>3, <1>4, <1>10 DEF HttpStep, HttpRequest, HttpLoad, HttpCheck, HttpEncode, HttpSave,
                           HttpRemove, HttpAnnounce, memory
<1>11. CASE UNCHANGED vars
  BY <1>4, <1>11 DEF vars, memory
<1>12. QED
  BY <1>5, <1>6, <1>7, <1>8, <1>9, <1>10, <1>11, GameStepKeeps DEF Next

-----------------------------------------------------------------------------
(* A player is in at most one managed game *)

\* What makes OneGamePerPlayer inductive: a game on its way into memory shares
\* no player with a game already there, and every game in memory or on its way
\* has its id drawn, so that a new game overwrites none.
MatchCommitted(i) ==
  /\ \A g \in games[i] : origin[g] # NoMatch
  /\ matchTh[i].pc \in {"cache", "manage"} =>
       /\ origin[matchTh[i].game] # NoMatch
       /\ \A g \in games[i] :
            PlayersOf(object[g]) \cap PlayersOf(object[matchTh[i].game]) = {}

OneGameInv(i) ==
  /\ MatchCommitted(i)
  /\ \A g, h \in games[i] : g # h => PlayersOf(object[g]) \cap PlayersOf(object[h]) = {}

\* The games of an instance and its match thread after a step that adds no game.
NoGameAdded(i) ==
  /\ games'[i] \subseteq games[i]
  /\ matchTh'[i].pc \in {"cache", "manage"} =>
       /\ matchTh[i].pc \in {"cache", "manage"}
       /\ matchTh'[i].game = matchTh[i].game

LEMMA NoGameAddedOK ==
  ASSUME TypeInv, GamesKept, NEW i \in Instance, OneGameInv(i), NoGameAdded(i)
  PROVE  OneGameInv(i)'
<1>1. /\ games[i] \subseteq Game
      /\ matchTh[i].pc \in {"cache", "manage"} => matchTh[i].game \in Game
  BY DEF TypeInv, TypeOK, ThreadsOK
<1>2. \A g \in games[i] : origin'[g] # NoMatch /\ PlayersOf(object'[g]) = PlayersOf(object[g])
  BY <1>1 DEF OneGameInv, MatchCommitted, GamesKept, Keeps
<1>3. matchTh'[i].pc \in {"cache", "manage"} =>
        /\ origin'[matchTh[i].game] # NoMatch
        /\ PlayersOf(object'[matchTh[i].game]) = PlayersOf(object[matchTh[i].game])
  BY <1>1 DEF OneGameInv, MatchCommitted, GamesKept, Keeps, NoGameAdded
<1>4. MatchCommitted(i)'
  BY <1>2, <1>3 DEF OneGameInv, MatchCommitted, NoGameAdded
<1>5. (\A g, h \in games[i] : g # h => PlayersOf(object[g]) \cap PlayersOf(object[h]) = {})'
  BY <1>2 DEF OneGameInv, NoGameAdded
<1>6. QED
  BY <1>4, <1>5 DEF OneGameInv

\* Every step but the two of the match subscription that start a game adds
\* none, to any instance.
LEMMA OnlyMatchAddsGames ==
  ASSUME TypeInv, [Next]_vars, NEW j \in Instance
  PROVE  \/ NoGameAdded(j)
         \/ ManageGame(j)
         \/ \E m \in Match : ReceiveMatch(j, m)
<1>1. /\ games \in [Instance -> SUBSET Game]
      /\ matchTh \in [Instance -> MatchThread]
  BY DEF TypeInv, TypeOK
<1>2. ASSUME UNCHANGED <<games, matchTh>>
      PROVE  NoGameAdded(j)
  BY <1>2 DEF NoGameAdded
<1>3. ASSUME NEW i \in Instance, NEW m \in Match, ReceiveMatch(i, m), i # j
      PROVE  NoGameAdded(j)
  <2>1. games'[j] = games[j] /\ matchTh'[j] = matchTh[j]
    BY <1>1, <1>3 DEF ReceiveMatch
  <2>2. QED
    BY <2>1 DEF NoGameAdded
<1>4. ASSUME NEW i \in Instance, ManageGame(i), i # j
      PROVE  NoGameAdded(j)
  <2>1. games'[j] = games[j] /\ matchTh'[j] = matchTh[j]
    BY <1>1, <1>4 DEF ManageGame
  <2>2. QED
    BY <2>1 DEF NoGameAdded
<1>5. ASSUME NEW i \in Instance, CacheNewGame(i)
      PROVE  NoGameAdded(j)
  <2>1. UNCHANGED games /\ matchTh[i].pc = "cache"
    BY <1>5 DEF CacheNewGame, memory
  <2>2. \/ matchTh' = [matchTh EXCEPT ![i] = [matchTh[i] EXCEPT !.pc = "manage"]]
        \/ matchTh' = [matchTh EXCEPT ![i] = MatchIdle]
    BY <1>5 DEF CacheNewGame
  <2>3. MatchIdle.pc = "idle"
    BY DEF MatchIdle
  <2>4. [matchTh[i] EXCEPT !.pc = "manage"].game = matchTh[i].game
    BY <1>1 DEF MatchThread
  <2>5. QED
    BY <1>1, <2>1, <2>2, <2>3, <2>4 DEF NoGameAdded
<1>6. ASSUME NEW i \in Instance, PublishCreated(i)
      PROVE  NoGameAdded(j)
  <2>1. UNCHANGED games /\ matchTh' = [matchTh EXCEPT ![i] = MatchIdle]
    BY <1>6 DEF PublishCreated, memory
  <2>2. MatchIdle.pc = "idle"
    BY DEF MatchIdle
  <2>3. QED
    BY <1>1, <2>1, <2>2 DEF NoGameAdded
<1>7. ASSUME NEW i \in Instance, Crash(i)
      PROVE  NoGameAdded(j)
  <2>1. /\ games' = [games EXCEPT ![i] = {}]
        /\ matchTh' = [matchTh EXCEPT ![i] = MatchIdle]
    BY <1>7 DEF Crash
  <2>2. MatchIdle.pc = "idle"
    BY DEF MatchIdle
  <2>3. QED
    BY <1>1, <2>1, <2>2 DEF NoGameAdded
<1>8. ASSUME NEW i \in Instance, RemoveGame(i) \/ TickRemove(i) \/ HttpRemove(i)
      PROVE  NoGameAdded(j)
  <2>1. UNCHANGED matchTh
    BY <1>8 DEF RemoveGame, TickRemove, HttpRemove
  <2>2. PICK gone : games' = [games EXCEPT ![i] = @ \ gone]
    BY <1>8 DEF RemoveGame, TickRemove, HttpRemove
  <2>3. QED
    BY <1>1, <2>1, <2>2 DEF NoGameAdded
<1>9. ASSUME NEW i \in Instance, MatchStep(i) \/ Crash(i)
      PROVE  NoGameAdded(j) \/ ManageGame(j) \/ \E m \in Match : ReceiveMatch(j, m)
  BY <1>3, <1>4, <1>5, <1>6, <1>7, <1>9 DEF MatchStep
<1>10. ASSUME NEW i \in Instance, GameEvent(i) \/ GameStep(i)
       PROVE  NoGameAdded(j)
  <2>1. ASSUME GameEvent(i) PROVE UNCHANGED <<games, matchTh>>
    BY <2>1 DEF GameEvent, ReceiveGameEvent, PlayerLeft, PlayerJoined, ForgetConnections, memory
  <2>2. ASSUME GameStep(i) PROVE UNCHANGED <<games, matchTh>> \/ RemoveGame(i)
    <3>1. ASSUME NEW kind, NEW accepts, NEW r, NEW next, Act(i, kind, accepts, r, next)
          PROVE  UNCHANGED <<games, matchTh>>
      BY <3>1 DEF Act
    <3>2. ASSUME ActMove(i) \/ ActOffer(i) \/ ActReject(i) \/ ActAccept(i) \/ ActClaim(i) \/ ActResign(i)
          PROVE  UNCHANGED <<games, matchTh>>
      BY <3>1, <3>2 DEF ActMove, ActOffer, ActReject, ActAccept, ActClaim, ActResign
    <3>3. ASSUME \/ BranchOnOutcome(i) \/ EncodeGame(i) \/ SaveMove(i) \/ Approve(i)
                 \/ SaveEnd(i) \/ AnnounceEnd(i)
          PROVE  UNCHANGED <<games, matchTh>>
      BY <3>3 DEF BranchOnOutcome, EncodeGame, SaveMove, Approve, SaveEnd, AnnounceEnd, memory
    <3>4. QED
      BY <2>2, <3>2, <3>3 DEF GameStep
  <2>3. QED
    BY <1>2, <1>8, <1>10, <2>1, <2>2
<1>11. ASSUME NEW i \in Instance, TickList(i) \/ TickStep(i)
       PROVE  NoGameAdded(j)
  <2>1. UNCHANGED <<games, matchTh>> \/ TickRemove(i)
    BY <1>11 DEF TickList, TickStep, TickScan, TickCheck, TickForfeit, TickEncode, TickSave,
                 TickAnnounce, memory
  <2>2. QED
    BY <1>2, <1>8, <2>1
<1>12. ASSUME NEW i \in Instance,
              HttpStep(i) \/ \E g \in Game, p \in Player : HttpRequest(i, g, p)
       PROVE  NoGameAdded(j)
  <2>1. UNCHANGED <<games, matchTh>> \/ HttpRemove(i)
    BY <1>12 DEF HttpRequest, HttpStep, HttpLoad, HttpCheck, HttpAct, HttpEncode, HttpSave,
                 HttpAnnounce, memory
  <2>2. QED
    BY <1>2, <1>8, <2>1
<1>13. CASE \/ \E m \in Match, p, q \in Player : MatchFound(m, p, q)
            \/ \E g \in Game : Expire(g)
            \/ UNCHANGED vars
  BY <1>2, <1>13 DEF MatchFound, Expire, vars, memory
<1>14. QED
  BY <1>9, <1>10, <1>11, <1>12, <1>13 DEF Next

LEMMA InitOneGame == Init => \A i \in Instance : OneGameInv(i)
BY DEF Init, OneGameInv, MatchCommitted, MatchIdle

LEMMA NextOneGame ==
  TypeInv /\ (\A i \in Instance : OneGameInv(i)) /\ [Next]_vars
    => (\A i \in Instance : OneGameInv(i))'
<1>. SUFFICES ASSUME TypeInv, \A i \in Instance : OneGameInv(i), [Next]_vars, NEW i \in Instance
              PROVE  OneGameInv(i)'
  OBVIOUS
<1>1. GamesKept
  BY NextKeeps
<1>2. /\ games \in [Instance -> SUBSET Game]
      /\ matchTh \in [Instance -> MatchThread]
      /\ origin \in [Game -> Match \cup {NoMatch}] /\ object \in [Game -> GameRecord]
      /\ matchTh[i].pc # "idle" => matchTh[i].game \in Game
  BY DEF TypeInv, TypeOK, ThreadsOK
<1>3. CASE NoGameAdded(i)
  BY <1>1, <1>3, NoGameAddedOK
<1>4. CASE ManageGame(i)
  <2>. DEFINE new == matchTh[i].game
  <2>1. /\ new \in Game /\ origin[new] # NoMatch
        /\ \A g \in games[i] : PlayersOf(object[g]) \cap PlayersOf(object[new]) = {}
    BY <1>2, <1>4 DEF ManageGame, OneGameInv, MatchCommitted
  <2>2. /\ games'[i] = games[i] \cup {new} /\ matchTh'[i].pc = "publish"
        /\ UNCHANGED <<origin, object>>
    BY <1>2, <1>4 DEF ManageGame, MatchThread
  <2>. HIDE DEF new
  <2>3. QED
    BY <2>1, <2>2 DEF OneGameInv, MatchCommitted
<1>5. ASSUME NEW m \in Match, ReceiveMatch(i, m)
      PROVE  OneGameInv(i)'
  <2>1. games' = games /\ matchTh[i].pc = "idle"
    BY <1>5 DEF ReceiveMatch
  <2>2. CASE UNCHANGED matchTh
    BY <1>1, <2>1, <2>2, NoGameAddedOK DEF NoGameAdded
  <2>3. CASE ~ UNCHANGED matchTh
    <3>1. /\ \A p \in matches[m] : ~HasGame(i, p)
          /\ \E g \in Game, w, b \in matches[m] :
               /\ origin[g] = NoMatch
               /\ origin' = [origin EXCEPT ![g] = m]
               /\ object' = [object EXCEPT ![g] = NewGame(w, b)]
               /\ matchTh' = [matchTh EXCEPT ![i] = [pc |-> "cache", match |-> m, game |-> g]]
      BY <1>5, <2>3 DEF ReceiveMatch
    <3>2. PICK g \in Game, w \in matches[m], b \in matches[m] :
             /\ origin[g] = NoMatch
             /\ origin' = [origin EXCEPT ![g] = m]
             /\ object' = [object EXCEPT ![g] = NewGame(w, b)]
             /\ matchTh' = [matchTh EXCEPT ![i] = [pc |-> "cache", match |-> m, game |-> g]]
      BY <3>1
    <3>3. PlayersOf(object'[g]) = {w, b} /\ origin'[g] # NoMatch /\ matchTh'[i].game = g
      BY <1>2, <3>2, ServiceAssumption DEF PlayersOf, NewGame
    <3>4. \A h \in games[i] :
            /\ h # g
            /\ PlayersOf(object'[h]) = PlayersOf(object[h]) /\ origin'[h] # NoMatch
            /\ PlayersOf(object[h]) \cap {w, b} = {}
      <4>1. \A h \in games[i] : h \in Game /\ h # g
        BY <1>2, <3>2 DEF OneGameInv, MatchCommitted
      <4>2. \A h \in games[i] : object'[h] = object[h] /\ origin'[h] = origin[h]
        BY <1>2, <3>2, <4>1
      <4>3. \A h \in games[i] : PlayersOf(object[h]) \cap {w, b} = {}
        BY <3>1, <3>2 DEF HasGame
      <4>4. QED
        BY <4>1, <4>2, <4>3 DEF OneGameInv, MatchCommitted
    <3>5. MatchCommitted(i)'
      BY <2>1, <3>3, <3>4 DEF MatchCommitted
    <3>6. QED
      BY <2>1, <3>4, <3>5 DEF OneGameInv
  <2>4. QED
    BY <2>2, <2>3
<1>6. QED
  BY <1>3, <1>4, <1>5, OnlyMatchAddsGames

\* No instance ever manages two games of one player: the test for a running
\* game and gameManager.addGame are two Redis round trips apart, and nothing
\* but the single match subscription closes the gap.
THEOREM OneGamePerPlayerHolds == Spec => []OneGamePerPlayer
<1>. DEFINE Inv == TypeInv /\ \A i \in Instance : OneGameInv(i)
<1>1. Init => Inv
  BY InitTypeInv, InitOneGame
<1>2. Inv /\ [Next]_vars => Inv'
  BY NextTypeInv, NextOneGame
<1>3. Inv => OneGamePerPlayer
  BY DEF OneGameInv, OneGamePerPlayer
<1>4. QED
  BY <1>1, <1>2, <1>3, PTL DEF Spec

-----------------------------------------------------------------------------
(* No end without a result *)

\* The places from which a goroutine can still announce the end of its game.
GameEnding == {"encode", "save", "remove", "announce"}
HttpEnding == {"encode", "save", "remove", "announce"}

\* Who works on a game works on a drawn one, so that no new game can take its
\* object; who is past the entity method sees a result.
GameEnd(i) ==
  gameTh[i].pc # "idle" =>
    /\ origin[gameTh[i].game] # NoMatch
    /\ gameTh[i].pc \in GameEnding => object[gameTh[i].game].outcome # "none"
TickEnd(i) == \A g \in tickTh[i].ending : tickTh[i].outcome[g] # "none"
HttpEnd(i) ==
  httpTh[i].pc # "idle" =>
    /\ origin[httpTh[i].game] # NoMatch
    /\ httpTh[i].pc \in HttpEnding => HttpGame(httpTh[i]).outcome # "none"

\* A game that was never created has no player who could resign it.
NotDrawn == \A g \in Game : origin[g] = NoMatch => PlayersOf(object[g]) = {NoPlayer}

LEMMA InitEnd == Init => NotDrawn /\ EndHasOutcome
                           /\ \A i \in Instance : GameEnd(i) /\ TickEnd(i) /\ HttpEnd(i)
BY DEF Init, NotDrawn, EndHasOutcome, GameEnd, TickEnd, HttpEnd, GameIdle, TickIdle, HttpIdle,
       NoRecord, NewGame, PlayersOf

LEMMA GameEndKept ==
  ASSUME TypeInv, GamesKept, NEW i \in Instance, GameEnd(i), gameTh'[i] = gameTh[i]
  PROVE  GameEnd(i)'
BY DEF TypeInv, ThreadsOK, GameEnd, GamesKept, Keeps

LEMMA HttpEndKept ==
  ASSUME TypeInv, GamesKept, NEW i \in Instance, HttpEnd(i), httpTh'[i] = httpTh[i]
  PROVE  HttpEnd(i)'
BY DEF TypeInv, ThreadsOK, HttpEnd, HttpGame, HttpOnObject, GamesKept, Keeps

LEMMA TickEndKept ==
  ASSUME NEW i \in Instance, TickEnd(i), tickTh'[i] = tickTh[i]
  PROVE  TickEnd(i)'
BY DEF TickEnd

\* A goroutine that goes back to idle, or moves on without reaching for the end.
LEMMA GameEndIdle ==
  ASSUME NEW i \in Instance, gameTh'[i].pc = "idle"
  PROVE  GameEnd(i)'
BY DEF GameEnd

\* Each goroutine's record is written by that goroutine and by a restart.
OnlyOwn(i, j) == i # j =>
  gameTh'[j] = gameTh[j] /\ tickTh'[j] = tickTh[j] /\ httpTh'[j] = httpTh[j]

LEMMA GameThreadOwn ==
  ASSUME TypeInv, NEW i \in Instance, GameEvent(i) \/ GameStep(i)
  PROVE  UNCHANGED <<tickTh, httpTh>> /\ \E u : gameTh' = [gameTh EXCEPT ![i] = u]
<1>1. CASE UNCHANGED <<gameTh, tickTh, httpTh>>
  <2>1. gameTh' = [gameTh EXCEPT ![i] = gameTh[i]]
    BY <1>1 DEF TypeInv, TypeOK
  <2>2. QED
    BY <1>1, <2>1
<1>2. CASE GameEvent(i)
  BY <1>1, <1>2 DEF GameEvent, ReceiveGameEvent, PlayerLeft, PlayerJoined, ForgetConnections
<1>3. ASSUME NEW kind, NEW accepts, NEW r, NEW next, Act(i, kind, accepts, r, next)
      PROVE  UNCHANGED <<tickTh, httpTh>> /\ \E u : gameTh' = [gameTh EXCEPT ![i] = u]
  BY <1>3 DEF Act
<1>4. CASE ActMove(i) \/ ActOffer(i) \/ ActReject(i) \/ ActAccept(i) \/ ActClaim(i) \/ ActResign(i)
  BY <1>3, <1>4 DEF ActMove, ActOffer, ActReject, ActAccept, ActClaim, ActResign
<1>5. ASSUME BranchOnOutcome(i) \/ EncodeGame(i) \/ RemoveGame(i) \/ Approve(i)
      PROVE  UNCHANGED <<tickTh, httpTh>> /\ \E u : gameTh' = [gameTh EXCEPT ![i] = u]
  <2>1. UNCHANGED <<tickTh, httpTh>>
    BY <1>5 DEF BranchOnOutcome, EncodeGame, RemoveGame, Approve
  <2>2. CASE BranchOnOutcome(i)
    BY <2>1, <2>2 DEF BranchOnOutcome
  <2>3. CASE EncodeGame(i)
    <3>. DEFINE copy == Encoded(object[gameTh[i].game])
    <3>1. \/ gameTh' = [gameTh EXCEPT ![i] = [gameTh[i] EXCEPT !.pc = "save", !.copy = copy]]
          \/ gameTh' = [gameTh EXCEPT ![i] = [gameTh[i] EXCEPT !.pc = "saveMove", !.copy = copy]]
      BY <2>3 DEF EncodeGame, TypeInv, TypeOK, GameThread
    <3>2. QED
      BY <2>1, <3>1
  <2>4. CASE RemoveGame(i)
    BY <2>1, <2>4 DEF RemoveGame
  <2>5. CASE Approve(i)
    BY <2>1, <2>5 DEF Approve
  <2>6. QED
    BY <1>5, <2>2, <2>3, <2>4, <2>5
<1>6. CASE SaveMove(i)
  BY <1>6 DEF SaveMove
<1>7. CASE SaveEnd(i)
  BY <1>7 DEF SaveEnd
<1>8. CASE AnnounceEnd(i)
  BY <1>8 DEF AnnounceEnd
<1>9. QED
  BY <1>2, <1>4, <1>5, <1>6, <1>7, <1>8 DEF GameStep

LEMMA TickThreadOwn ==
  ASSUME TypeInv, NEW i \in Instance, TickList(i) \/ TickStep(i)
  PROVE  UNCHANGED <<gameTh, httpTh>> /\ \E u : tickTh' = [tickTh EXCEPT ![i] = u]
<1>1. UNCHANGED <<gameTh, httpTh>>
  BY DEF TickList, TickStep, TickScan, TickCheck, TickForfeit, TickEncode, TickSave,
         TickAnnounce, TickRemove
<1>2. tickTh \in [Instance -> TickThread]
  BY DEF TypeInv, TypeOK
<1>3. CASE TickList(i) \/ TickEncode(i) \/ TickSave(i) \/ TickAnnounce(i) \/ TickRemove(i)
  BY <1>1, <1>2, <1>3 DEF TickList, TickEncode, TickSave, TickAnnounce, TickRemove
<1>4. ASSUME NEW due \in SUBSET Game, TickScan(i, due)
      PROVE  \E u : tickTh' = [tickTh EXCEPT ![i] = u]
  BY <1>2, <1>4 DEF TickScan
<1>5. ASSUME NEW g \in Game, TickCheck(i, g)
      PROVE  \E u : tickTh' = [tickTh EXCEPT ![i] = u]
  BY <1>2, <1>5 DEF TickCheck
<1>6. CASE TickForfeit(i)
  BY <1>1, <1>2, <1>6 DEF TickForfeit
<1>7. QED
  BY <1>1, <1>3, <1>4, <1>5, <1>6 DEF TickStep

LEMMA HttpThreadOwn ==
  ASSUME TypeInv, NEW i \in Instance,
         HttpStep(i) \/ \E g \in Game, p \in Player : HttpRequest(i, g, p)
  PROVE  UNCHANGED <<gameTh, tickTh>> /\ \E u : httpTh' = [httpTh EXCEPT ![i] = u]
<1>1. UNCHANGED <<gameTh, tickTh>>
  BY DEF HttpStep, HttpRequest, HttpLoad, HttpCheck, HttpAct, HttpEncode, HttpSave,
         HttpRemove, HttpAnnounce
<1>2. httpTh \in [Instance -> HttpThread]
  BY DEF TypeInv, TypeOK
<1>3. CASE \/ \E g \in Game, p \in Player : HttpRequest(i, g, p)
           \/ HttpLoad(i) \/ HttpCheck(i) \/ HttpSave(i) \/ HttpAnnounce(i)
  BY <1>1, <1>2, <1>3 DEF HttpRequest, HttpLoad, HttpCheck, HttpSave, HttpAnnounce
<1>4. CASE HttpAct(i) \/ HttpEncode(i) \/ HttpRemove(i)
  BY <1>1, <1>2, <1>4 DEF HttpAct, HttpEncode, HttpRemove
<1>5. QED
  BY <1>3, <1>4 DEF HttpStep

\* The game-topic subscription: the goroutine stays on its game, and reaches a
\* place of GameEnding with a result.
LEMMA GameEndMoved ==
  ASSUME TypeInv, GamesKept, NEW i \in Instance, GameEnd(i), gameTh[i].pc # "idle",
         gameTh'[i].game = gameTh[i].game,
         gameTh'[i].pc \in GameEnding =>
           gameTh[i].pc \in GameEnding \/ object'[gameTh[i].game].outcome # "none"
  PROVE  GameEnd(i)'
<1>1. gameTh[i].game \in Game
  BY DEF TypeInv, ThreadsOK
<1>2. origin'[gameTh[i].game] # NoMatch
  BY <1>1 DEF GameEnd, GamesKept
<1>3. gameTh[i].pc \in GameEnding => object'[gameTh[i].game].outcome # "none"
  BY <1>1 DEF GameEnd, GamesKept, Keeps
<1>4. QED
  BY <1>2, <1>3 DEF GameEnd

LEMMA ActEnd ==
  ASSUME TypeInv, GamesKept, NEW i \in Instance, GameEnd(i),
         NEW kind, NEW accepts, NEW r, NEW next \in {"idle", "branch", "encode"},
         next = "encode" => r.outcome # "none", Act(i, kind, accepts, r, next)
  PROVE  GameEnd(i)'
<1>. DEFINE t == gameTh[i]
<1>1. /\ gameTh \in [Instance -> GameThread] /\ object \in [Game -> GameRecord]
      /\ t \in GameThread /\ t.game \in Game /\ t.pc = "act"
  BY DEF TypeInv, TypeOK, ThreadsOK, Act
<1>2. CASE gameTh' = [gameTh EXCEPT ![i] = GameIdle]
  BY <1>1, <1>2, GameEndIdle DEF GameIdle
<1>3. CASE /\ gameTh' = [gameTh EXCEPT ![i] = [t EXCEPT !.pc = next]]
           /\ object' = [object EXCEPT ![t.game] = r]
  <2>1. gameTh'[i].game = t.game /\ gameTh'[i].pc = next /\ object'[t.game] = r
    BY <1>1, <1>3 DEF GameThread
  <2>2. QED
    BY <1>1, <2>1, GameEndMoved DEF GameEnding
<1>4. QED
  BY <1>2, <1>3 DEF Act

LEMMA DrawScored ==
  ASSUME NEW g \in GameRecord
  PROVE  DrawAccepted(g).outcome # "none" /\ DrawClaimed(g).outcome # "none"
BY DEF DrawAccepted, DrawClaimed, GameRecord

LEMMA GameThreadEnd ==
  ASSUME TypeInv, GamesKept, NEW i \in Instance, GameEnd(i), MatchCommitted(i),
         GameEvent(i) \/ GameStep(i)
  PROVE  GameEnd(i)'
<1>. DEFINE t == gameTh[i]
<1>1. /\ gameTh \in [Instance -> GameThread] /\ object \in [Game -> GameRecord]
      /\ t \in GameThread
      /\ games[i] \subseteq Game
  BY DEF TypeInv, TypeOK
<1>2. t.pc # "idle" => t.game \in Game /\ object[t.game] \in GameRecord
  BY <1>1 DEF TypeInv, ThreadsOK
<1>3. CASE UNCHANGED gameTh
  BY <1>3, GameEndKept
<1>4. ASSUME NEW g \in Game, NEW p \in Player, NEW kind \in Kinds, NEW n \in 0..MaxMoves,
             ReceiveGameEvent(i, g, p, kind, n)
      PROVE  GameEnd(i)'
  <2>1. gameTh'[i] = [GameIdle EXCEPT !.pc = "act", !.kind = kind, !.game = g, !.by = p, !.ply = n]
    BY <1>1, <1>4 DEF ReceiveGameEvent
  <2>2. gameTh'[i].pc = "act" /\ gameTh'[i].game = g
    BY <2>1 DEF GameIdle
  <2>3. origin'[g] # NoMatch
    BY <1>4 DEF ReceiveGameEvent, MatchCommitted, GamesKept
  <2>4. QED
    BY <2>2, <2>3 DEF GameEnd, GameEnding
<1>5. CASE GameEvent(i)
  BY <1>3, <1>4, <1>5 DEF GameEvent, PlayerLeft, PlayerJoined, ForgetConnections
<1>6. CASE ActMove(i)
  <2>1. PICK legal \in BOOLEAN, res \in PlyResult :
           Act(i, "move", legal /\ MayMove(object[t.game], t.by, t.ply),
               Moved(object[t.game], res), "branch")
    BY <1>6 DEF ActMove
  <2>2. QED
    BY <2>1, ActEnd
<1>7. CASE ActOffer(i) \/ ActReject(i)
  BY <1>7, ActEnd DEF ActOffer, ActReject
<1>8. CASE ActAccept(i)
  <2>1. Act(i, "accept", MayAnswerDraw(object[t.game], t.by), DrawAccepted(object[t.game]), "encode")
    BY <1>8 DEF ActAccept
  <2>2. DrawAccepted(object[t.game]).outcome # "none"
    BY <1>2, <2>1, DrawScored DEF Act
  <2>3. QED
    BY <2>1, <2>2, ActEnd
<1>9. CASE ActClaim(i)
  <2>1. PICK holds \in BOOLEAN :
           Act(i, "claim", holds, DrawClaimed(object[t.game]), "encode")
    BY <1>9 DEF ActClaim
  <2>2. DrawClaimed(object[t.game]).outcome # "none"
    BY <1>2, <2>1, DrawScored DEF Act
  <2>3. QED
    BY <2>1, <2>2, ActEnd
<1>10. CASE ActResign(i)
  <2>1. Act(i, "resign", TRUE, Resigned(object[t.game], t.by), "encode")
    BY <1>10 DEF ActResign
  <2>2. Resigned(object[t.game], t.by).outcome # "none"
    BY <1>2, <2>1, ResignedType DEF Act
  <2>3. QED
    BY <2>1, <2>2, ActEnd
<1>11. CASE BranchOnOutcome(i)
  <2>1. t.pc = "branch" /\ t.game \in Game
    BY <1>2, <1>11 DEF BranchOnOutcome
  <2>2. CASE object[t.game].outcome # "none"
    <3>1. object'[t.game].outcome # "none"
      BY <1>1, <1>11, <2>1, <2>2 DEF BranchOnOutcome, Deactivated, GameRecord
    <3>2. gameTh'[i].game = t.game /\ gameTh'[i].pc = "encode"
      BY <1>1, <1>11, <2>2 DEF BranchOnOutcome, GameThread
    <3>3. QED
      BY <2>1, <3>1, <3>2, GameEndMoved
  <2>3. CASE object[t.game].outcome = "none"
    <3>1. gameTh'[i].game = t.game /\ gameTh'[i].pc = "encodeMove"
      BY <1>1, <1>11, <2>3 DEF BranchOnOutcome, GameThread
    <3>2. QED
      BY <2>1, <3>1, GameEndMoved DEF GameEnding
  <2>4. QED
    BY <2>2, <2>3
<1>12. CASE EncodeGame(i)
  <2>1. CASE t.pc = "encode"
    <3>1. gameTh'[i].game = t.game
      BY <1>1, <1>12, <2>1 DEF EncodeGame, GameThread
    <3>2. QED
      BY <2>1, <3>1, GameEndMoved DEF GameEnding
  <2>2. CASE t.pc = "encodeMove"
    <3>1. gameTh'[i].game = t.game /\ gameTh'[i].pc = "saveMove"
      BY <1>1, <1>12, <2>2 DEF EncodeGame, GameThread
    <3>2. QED
      BY <2>2, <3>1, GameEndMoved DEF GameEnding
  <2>3. QED
    BY <1>12, <2>1, <2>2 DEF EncodeGame
<1>13. CASE SaveMove(i)
  <2>1. \/ gameTh'[i].pc = "idle"
        \/ gameTh'[i].game = t.game /\ gameTh'[i].pc = "approve"
    BY <1>1, <1>13 DEF SaveMove, GameThread, GameIdle
  <2>2. QED
    BY <1>13, <2>1, GameEndMoved, GameEndIdle DEF GameEnding, SaveMove
<1>14. CASE Approve(i)
  <2>1. gameTh'[i].pc = "idle"
    BY <1>1, <1>14 DEF Approve, GameIdle
  <2>2. QED
    BY <2>1, GameEndIdle
<1>15. CASE SaveEnd(i)
  <2>1. \/ gameTh'[i].pc = "idle"
        \/ gameTh'[i].game = t.game
    BY <1>1, <1>15 DEF SaveEnd, GameThread, GameIdle
  <2>2. QED
    BY <1>15, <2>1, GameEndMoved, GameEndIdle DEF GameEnding, SaveEnd
<1>16. CASE AnnounceEnd(i)
  <2>1. \/ gameTh'[i].pc = "idle"
        \/ gameTh'[i].game = t.game
    BY <1>1, <1>16 DEF AnnounceEnd, GameThread, GameIdle
  <2>2. QED
    BY <1>16, <2>1, GameEndMoved, GameEndIdle DEF GameEnding, AnnounceEnd
<1>17. CASE RemoveGame(i)
  <2>1. \/ gameTh'[i].pc = "idle"
        \/ gameTh'[i].game = t.game
    BY <1>1, <1>17 DEF RemoveGame, GameThread, GameIdle
  <2>2. QED
    BY <1>17, <2>1, GameEndMoved, GameEndIdle DEF GameEnding, RemoveGame
<1>18. QED
  BY <1>5, <1>6, <1>7, <1>8, <1>9, <1>10, <1>11, <1>12, <1>13, <1>14, <1>15, <1>16, <1>17
     DEF GameStep

\* The ticker: what it will announce is what Resigned left.
LEMMA TickThreadEnd ==
  ASSUME TypeInv, NEW i \in Instance, TickEnd(i), TickList(i) \/ TickStep(i)
  PROVE  TickEnd(i)'
<1>. DEFINE t == tickTh[i]
<1>1. /\ tickTh \in [Instance -> TickThread] /\ t \in TickThread
      /\ object \in [Game -> GameRecord] /\ t.outcome \in [Game -> Outcome]
      /\ t.pc = "left" => t.game \in Game
  BY DEF TypeInv, TypeOK, ThreadsOK, TickThread
<1>2. TickIdle.ending = {}
  BY DEF TickIdle
<1>3. ASSUME tickTh'[i].ending = {}
      PROVE  TickEnd(i)'
  BY <1>3 DEF TickEnd
<1>4. ASSUME tickTh'[i].ending = t.ending, tickTh'[i].outcome = t.outcome
      PROVE  TickEnd(i)'
  BY <1>4 DEF TickEnd
<1>5. CASE TickList(i)
  <2>1. tickTh'[i].ending = {}
    BY <1>1, <1>5 DEF TickList, TickIdle
  <2>2. QED
    BY <1>3, <2>1
<1>6. ASSUME NEW due \in SUBSET Game, TickScan(i, due)
      PROVE  TickEnd(i)'
  <2>1. tickTh'[i].ending = t.ending /\ tickTh'[i].outcome = t.outcome
    BY <1>1, <1>6 DEF TickScan, TickThread
  <2>2. QED
    BY <1>4, <2>1
<1>7. ASSUME NEW g \in Game, TickCheck(i, g)
      PROVE  TickEnd(i)'
  <2>1. tickTh'[i].ending = t.ending /\ tickTh'[i].outcome = t.outcome
    BY <1>1, <1>7 DEF TickCheck, TickThread
  <2>2. QED
    BY <1>4, <2>1
<1>8. CASE TickForfeit(i)
  <2>. DEFINE over == Resigned(object[t.game], t.loser[t.game])
              outcome == [t.outcome EXCEPT ![t.game] = over.outcome]
  <2>1. t.game \in Game /\ over.outcome # "none"
    BY <1>1, <1>8, ResignedType DEF TickForfeit
  <2>2. tickTh'[i].ending = t.ending \cup {t.game} /\ tickTh'[i].outcome = outcome
    BY <1>1, <1>8 DEF TickForfeit, TickThread
  <2>3. t.ending \subseteq Game
    BY <1>1 DEF TickThread
  <2>4. \A g \in t.ending \cup {t.game} : outcome[g] # "none"
    BY <1>1, <2>1, <2>3 DEF TickEnd
  <2>. HIDE DEF outcome
  <2>5. QED
    BY <2>2, <2>4 DEF TickEnd
<1>9. CASE TickEncode(i)
  <2>1. \/ tickTh'[i] = TickIdle
        \/ tickTh'[i].ending = t.ending /\ tickTh'[i].outcome = t.outcome
    BY <1>1, <1>9 DEF TickEncode, TickThread
  <2>2. QED
    BY <1>2, <1>3, <1>4, <2>1
<1>10. CASE TickSave(i) \/ TickAnnounce(i)
  <2>1. tickTh'[i].ending = t.ending /\ tickTh'[i].outcome = t.outcome
    BY <1>1, <1>10 DEF TickSave, TickAnnounce, TickThread
  <2>2. QED
    BY <1>4, <2>1
<1>11. CASE TickRemove(i)
  <2>1. tickTh'[i] = TickIdle
    BY <1>1, <1>11 DEF TickRemove
  <2>2. QED
    BY <1>2, <1>3, <2>1
<1>12. QED
  BY <1>5, <1>6, <1>7, <1>8, <1>9, <1>10, <1>11 DEF TickStep

\* The request over HTTP, on the managed object or on its own copy.
LEMMA HttpThreadEnd ==
  ASSUME TypeInv, GamesKept, NotDrawn, NEW i \in Instance, HttpEnd(i),
         HttpStep(i) \/ \E g \in Game, p \in Player : HttpRequest(i, g, p)
  PROVE  HttpEnd(i)'
<1>. DEFINE t == httpTh[i]
<1>1. /\ httpTh \in [Instance -> HttpThread] /\ t \in HttpThread
      /\ object \in [Game -> GameRecord] /\ t.local \in GameRecord
      /\ t.pc # "idle" => t.game \in Game
  BY DEF TypeInv, TypeOK, ThreadsOK, HttpThread
<1>2. ASSUME t.pc # "idle"
      PROVE  /\ origin'[t.game] # NoMatch
             /\ object[t.game].outcome # "none" => object'[t.game].outcome # "none"
  BY <1>1, <1>2 DEF HttpEnd, GamesKept, Keeps
<1>3. ASSUME httpTh'[i].pc = "idle"
      PROVE  HttpEnd(i)'
  BY <1>3 DEF HttpEnd
<1>4. ASSUME NEW g \in Game, NEW p \in Player, HttpRequest(i, g, p)
      PROVE  HttpEnd(i)'
  <2>1. origin[g] # NoMatch
    BY <1>4, PlayerAssumption DEF HttpRequest, NotDrawn
  <2>2. httpTh'[i].game = g /\ httpTh'[i].pc \in {"check", "load"}
    BY <1>1, <1>4 DEF HttpRequest, HttpIdle
  <2>3. QED
    BY <2>1, <2>2 DEF HttpEnd, HttpEnding, GamesKept
<1>5. CASE HttpLoad(i) \/ HttpCheck(i)
  <2>1. \/ httpTh'[i].pc = "idle"
        \/ httpTh'[i].pc = "resign" /\ httpTh'[i].game = t.game
    <3>1. CASE HttpLoad(i)
      BY <1>1, <3>1 DEF HttpLoad, HttpThread, HttpIdle
    <3>2. CASE HttpCheck(i)
      BY <1>1, <3>2 DEF HttpCheck, HttpThread, HttpIdle
    <3>3. QED
      BY <1>5, <3>1, <3>2
  <2>2. t.pc # "idle"
    BY <1>5 DEF HttpLoad, HttpCheck
  <2>3. QED
    BY <1>2, <1>3, <2>1, <2>2 DEF HttpEnd, HttpEnding
<1>6. CASE HttpAct(i)
  <2>1. t.pc = "resign" /\ t.game \in Game
    BY <1>1, <1>6 DEF HttpAct
  <2>2. CASE HttpOnObject(t)
    <3>1. /\ httpTh'[i].game = t.game /\ httpTh'[i].local = t.local
          /\ object'[t.game] = Resigned(object[t.game], t.by)
      BY <1>1, <1>6, <2>1, <2>2 DEF HttpAct, HttpThread
    <3>2. object'[t.game].outcome # "none"
      BY <1>1, <2>1, <3>1, ResignedType
    <3>3. QED
      BY <1>2, <2>1, <2>2, <3>1, <3>2 DEF HttpEnd, HttpGame, HttpOnObject
  <2>3. CASE ~HttpOnObject(t)
    <3>1. /\ httpTh'[i].game = t.game
          /\ httpTh'[i].local = Resigned(t.local, t.by)
      BY <1>1, <1>6, <2>3 DEF HttpAct, HttpThread
    <3>2. httpTh'[i].local.outcome # "none"
      BY <1>1, <3>1, ResignedType
    <3>3. NoRecord.outcome = "none"
      BY DEF NoRecord, NewGame
    <3>4. QED
      BY <1>2, <2>1, <3>1, <3>2, <3>3 DEF HttpEnd, HttpGame, HttpOnObject
  <2>4. QED
    BY <2>2, <2>3
<1>7. CASE HttpEncode(i) \/ HttpSave(i) \/ HttpRemove(i)
  <2>1. t.pc \in HttpEnding
    BY <1>7 DEF HttpEncode, HttpSave, HttpRemove, HttpEnding
  <2>2. \/ httpTh'[i].pc = "idle"
        \/ httpTh'[i].game = t.game /\ httpTh'[i].local = t.local
    <3>1. CASE HttpEncode(i)
      BY <1>1, <3>1 DEF HttpEncode, HttpThread
    <3>2. CASE HttpSave(i)
      BY <1>1, <3>2 DEF HttpSave, HttpThread, HttpIdle
    <3>3. CASE HttpRemove(i)
      BY <1>1, <3>3 DEF HttpRemove, HttpThread
    <3>4. QED
      BY <1>7, <3>1, <3>2, <3>3
  <2>3. t.pc # "idle" /\ HttpGame(t).outcome # "none"
    BY <2>1 DEF HttpEnd, HttpEnding
  <2>4. QED
    BY <1>2, <1>3, <2>2, <2>3 DEF HttpEnd, HttpGame, HttpOnObject
<1>8. CASE HttpAnnounce(i)
  <2>1. httpTh'[i].pc = "idle"
    BY <1>1, <1>8 DEF HttpAnnounce, HttpIdle
  <2>2. QED
    BY <1>3, <2>1
<1>9. QED
  BY <1>4, <1>5, <1>6, <1>7, <1>8 DEF HttpStep

\* Whose step it was, the records of the goroutines keep what they promise.
LEMMA NextThreadsEnd ==
  ASSUME TypeInv, GamesKept, NotDrawn, [Next]_vars, NEW j \in Instance,
         MatchCommitted(j), GameEnd(j), TickEnd(j), HttpEnd(j)
  PROVE  GameEnd(j)' /\ TickEnd(j)' /\ HttpEnd(j)'
<1>1. /\ gameTh \in [Instance -> GameThread] /\ tickTh \in [Instance -> TickThread]
      /\ httpTh \in [Instance -> HttpThread]
  BY DEF TypeInv, TypeOK
<1>2. ASSUME UNCHANGED <<gameTh, tickTh, httpTh>>
      PROVE  GameEnd(j)' /\ TickEnd(j)' /\ HttpEnd(j)'
  BY <1>2, GameEndKept, TickEndKept, HttpEndKept
<1>3. CASE \/ \E m \in Match, p, q \in Player : MatchFound(m, p, q)
           \/ \E i \in Instance : MatchStep(i)
           \/ \E g \in Game : Expire(g)
           \/ UNCHANGED vars
  BY <1>2, <1>3 DEF MatchFound, MatchStep, ReceiveMatch, CacheNewGame, ManageGame,
                    PublishCreated, Expire, vars
<1>4. ASSUME NEW i \in Instance, Crash(i)
      PROVE  GameEnd(j)' /\ TickEnd(j)' /\ HttpEnd(j)'
  <2>1. CASE i # j
    <3>1. gameTh'[j] = gameTh[j] /\ tickTh'[j] = tickTh[j] /\ httpTh'[j] = httpTh[j]
      BY <1>1, <1>4, <2>1 DEF Crash
    <3>2. QED
      BY <3>1, GameEndKept, TickEndKept, HttpEndKept
  <2>2. CASE i = j
    <3>1. gameTh'[j] = GameIdle /\ tickTh'[j] = TickIdle /\ httpTh'[j] = HttpIdle
      BY <1>1, <1>4, <2>2 DEF Crash
    <3>2. QED
      BY <3>1 DEF GameEnd, TickEnd, HttpEnd, GameIdle, TickIdle, HttpIdle
  <2>3. QED
    BY <2>1, <2>2
<1>5. ASSUME NEW i \in Instance, GameEvent(i) \/ GameStep(i)
      PROVE  GameEnd(j)' /\ TickEnd(j)' /\ HttpEnd(j)'
  <2>1. UNCHANGED <<tickTh, httpTh>> /\ (i # j => gameTh'[j] = gameTh[j])
    BY <1>1, <1>5, GameThreadOwn
  <2>2. GameEnd(j)'
    BY <1>5, <2>1, GameEndKept, GameThreadEnd
  <2>3. QED
    BY <2>1, <2>2, TickEndKept, HttpEndKept
<1>6. ASSUME NEW i \in Instance, TickList(i) \/ TickStep(i)
      PROVE  GameEnd(j)' /\ TickEnd(j)' /\ HttpEnd(j)'
  <2>1. UNCHANGED <<gameTh, httpTh>> /\ (i # j => tickTh'[j] = tickTh[j])
    BY <1>1, <1>6, TickThreadOwn
  <2>2. TickEnd(j)'
    BY <1>6, <2>1, TickEndKept, TickThreadEnd
  <2>3. QED
    BY <2>1, <2>2, GameEndKept, HttpEndKept
<1>7. ASSUME NEW i \in Instance,
             HttpStep(i) \/ \E g \in Game, p \in Player : HttpRequest(i, g, p)
      PROVE  GameEnd(j)' /\ TickEnd(j)' /\ HttpEnd(j)'
  <2>1. UNCHANGED <<gameTh, tickTh>> /\ (i # j => httpTh'[j] = httpTh[j])
    BY <1>1, <1>7, HttpThreadOwn
  <2>2. HttpEnd(j)'
    BY <1>7, <2>1, HttpEndKept, HttpThreadEnd
  <2>3. QED
    BY <2>1, <2>2, GameEndKept, TickEndKept
<1>8. QED
  BY <1>3, <1>4, <1>5, <1>6, <1>7 DEF Next

\* What is announced is the result its goroutine sees.
LEMMA NextEndHasOutcome ==
  ASSUME TypeInv, EndHasOutcome, [Next]_vars,
         \A i \in Instance : GameEnd(i) /\ TickEnd(i) /\ HttpEnd(i)
  PROVE  EndHasOutcome'
<1>1. ended \in [Game -> SUBSET Announcement]
  BY DEF TypeInv, TypeOK
<1>2. ASSUME UNCHANGED ended
      PROVE  EndHasOutcome'
  BY <1>2 DEF EndHasOutcome
<1>3. ASSUME NEW g, NEW a, a.outcome # "none", ended' = [ended EXCEPT ![g] = @ \cup {a}]
      PROVE  EndHasOutcome'
  BY <1>1, <1>3 DEF EndHasOutcome
<1>4. ASSUME NEW i \in Instance, AnnounceEnd(i)
      PROVE  EndHasOutcome'
  <2>. DEFINE a == [by |-> "game", outcome |-> object[gameTh[i].game].outcome]
  <2>1. a.outcome # "none"
    BY <1>4 DEF AnnounceEnd, GameEnd, GameEnding
  <2>2. ended' = [ended EXCEPT ![gameTh[i].game] = @ \cup {a}] \/ UNCHANGED ended
    BY <1>4 DEF AnnounceEnd
  <2>. HIDE DEF a
  <2>3. QED
    BY <1>2, <1>3, <2>1, <2>2
<1>5. ASSUME NEW i \in Instance, HttpAnnounce(i)
      PROVE  EndHasOutcome'
  <2>. DEFINE a == [by |-> "http", outcome |-> HttpGame(httpTh[i]).outcome]
  <2>1. a.outcome # "none"
    BY <1>5 DEF HttpAnnounce, HttpEnd, HttpEnding
  <2>2. ended' = [ended EXCEPT ![httpTh[i].game] = @ \cup {a}] \/ UNCHANGED ended
    BY <1>5 DEF HttpAnnounce
  <2>. HIDE DEF a
  <2>3. QED
    BY <1>2, <1>3, <2>1, <2>2
<1>6. ASSUME NEW i \in Instance, TickAnnounce(i)
      PROVE  EndHasOutcome'
  <2>1. PICK sent \in SUBSET tickTh[i].ending :
           ended' = [g \in Game |-> IF g \in sent
              THEN ended[g] \cup {[by |-> "tick", outcome |-> tickTh[i].outcome[g]]}
              ELSE ended[g]]
    BY <1>6 DEF TickAnnounce
  <2>2. QED
    BY <2>1 DEF TickEnd, EndHasOutcome
<1>7. ASSUME NEW i \in Instance, GameStep(i)
      PROVE  AnnounceEnd(i) \/ UNCHANGED ended
  <2>1. ASSUME NEW kind, NEW accepts, NEW r, NEW next, Act(i, kind, accepts, r, next)
        PROVE  UNCHANGED ended
    BY <2>1 DEF Act, bus
  <2>2. ASSUME ActMove(i) \/ ActOffer(i) \/ ActReject(i) \/ ActAccept(i) \/ ActClaim(i) \/ ActResign(i)
        PROVE  UNCHANGED ended
    BY <2>1, <2>2 DEF ActMove, ActOffer, ActReject, ActAccept, ActClaim, ActResign
  <2>3. ASSUME BranchOnOutcome(i) \/ EncodeGame(i) \/ SaveMove(i) \/ Approve(i) \/ SaveEnd(i) \/ RemoveGame(i)
        PROVE  UNCHANGED ended
    BY <2>3 DEF BranchOnOutcome, EncodeGame, SaveMove, Approve, SaveEnd, RemoveGame, bus
  <2>4. QED
    BY <1>7, <2>2, <2>3 DEF GameStep
<1>8. ASSUME NEW i \in Instance, TickList(i) \/ TickStep(i)
      PROVE  TickAnnounce(i) \/ UNCHANGED ended
  BY <1>8 DEF TickList, TickStep, TickScan, TickCheck, TickForfeit, TickEncode, TickSave,
              TickRemove, bus
<1>9. ASSUME NEW i \in Instance,
             HttpStep(i) \/ \E g \in Game, p \in Player : HttpRequest(i, g, p)
      PROVE  HttpAnnounce(i) \/ UNCHANGED ended
  BY <1>9 DEF HttpRequest, HttpStep, HttpLoad, HttpCheck, HttpAct, HttpEncode, HttpSave,
              HttpRemove, bus
<1>10. ASSUME NEW i \in Instance, MatchStep(i) \/ GameEvent(i) \/ Crash(i)
       PROVE  UNCHANGED ended
  BY <1>10 DEF MatchStep, ReceiveMatch, CacheNewGame, ManageGame, PublishCreated, GameEvent,
               ReceiveGameEvent, PlayerLeft, PlayerJoined, ForgetConnections, Crash, bus
<1>11. CASE \/ \E m \in Match, p, q \in Player : MatchFound(m, p, q)
            \/ \E g \in Game : Expire(g)
            \/ UNCHANGED vars
  BY <1>2, <1>11 DEF MatchFound, Expire, vars, bus
<1>12. QED
  BY <1>2, <1>4, <1>5, <1>6, <1>7, <1>8, <1>9, <1>10, <1>11 DEF Next

LEMMA NextNotDrawn ==
  ASSUME GamesKept, NotDrawn
  PROVE  NotDrawn'
BY DEF NotDrawn, GamesKept, Keeps

\* No end of a game is announced without a result: every path gives the game
\* its result before it announces, nothing takes a result away, and a game that
\* is being ended is never replaced by a new one.
THEOREM EndHasOutcomeHolds == Spec => []EndHasOutcome
<1>. DEFINE Inv == /\ TypeInv /\ NotDrawn /\ EndHasOutcome
                   /\ \A i \in Instance :
                        OneGameInv(i) /\ GameEnd(i) /\ TickEnd(i) /\ HttpEnd(i)
<1>1. Init => Inv
  BY InitTypeInv, InitOneGame, InitEnd
<1>2. Inv /\ [Next]_vars => Inv'
  <2>. SUFFICES ASSUME Inv, [Next]_vars PROVE Inv'
    OBVIOUS
  <2>1. TypeInv' /\ GamesKept
    BY NextTypeInv, NextKeeps
  <2>2. NotDrawn' /\ EndHasOutcome'
    BY <2>1, NextNotDrawn, NextEndHasOutcome
  <2>3. (\A i \in Instance : OneGameInv(i))'
    BY NextOneGame
  <2>4. ASSUME NEW i \in Instance PROVE GameEnd(i)' /\ TickEnd(i)' /\ HttpEnd(i)'
    BY <2>1, NextThreadsEnd DEF OneGameInv
  <2>5. QED
    BY <2>1, <2>2, <2>3, <2>4
<1>3. QED
  BY <1>1, <1>2, PTL DEF Spec

=============================================================================
