------------------------- MODULE GameLifecycleProofs -------------------------
(***************************************************************************)
(* What happens to one game of GameService from its creation to the        *)
(* announcement of its end: who may work on it, in what order its plies    *)
(* are approved, and what its end leaves in Redis; how it ends: its end is *)
(* announced once by whoever ends it, at most one ply follows, a game that *)
(* is over is being taken down, and one that left memory has left its      *)
(* players.  What is announced is a behaviour of GameTopic.  Every         *)
(* invariant rests on one fact (OwnerInv): a game is in the hands of one   *)
(* instance.  Those of the second part hold while some call does not fail  *)
(* or some route stays shut; each says so, or its theorem does.            *)
(***************************************************************************)
EXTENDS GameServiceProofs

-----------------------------------------------------------------------------
(* What GameServiceProofs knows of every reachable state *)

BaseInv ==
  /\ TypeInv /\ NotDrawn /\ EndHasOutcome
  /\ \A i \in Instance : OneGameInv(i) /\ GameEnd(i) /\ TickEnd(i) /\ HttpEnd(i)

LEMMA BaseInit == Init => BaseInv
BY InitTypeInv, InitOneGame, InitEnd DEF BaseInv

LEMMA BaseNext == BaseInv /\ [Next]_vars => BaseInv'
<1>. SUFFICES ASSUME BaseInv, [Next]_vars PROVE BaseInv'
  OBVIOUS
<1>. USE DEF BaseInv
<1>1. TypeInv' /\ GamesKept
  BY NextTypeInv, NextKeeps
<1>2. NotDrawn' /\ EndHasOutcome'
  BY <1>1, NextNotDrawn, NextEndHasOutcome
<1>3. (\A i \in Instance : OneGameInv(i))'
  BY NextOneGame
<1>4. ASSUME NEW i \in Instance PROVE GameEnd(i)' /\ TickEnd(i)' /\ HttpEnd(i)'
  BY <1>1, NextThreadsEnd DEF OneGameInv
<1>5. QED
  BY <1>1, <1>2, <1>3, <1>4

-----------------------------------------------------------------------------
(* Steps of the game-topic subscription, in the fields the invariants read *)

\* The handler goes on with its event at pc.
GoesOn(i, pc) ==
  /\ gameTh'[i].pc = pc /\ gameTh'[i].game = gameTh[i].game
  /\ gameTh'[i].kind = gameTh[i].kind /\ gameTh'[i].ply = gameTh[i].ply

Returns(i) == gameTh'[i].pc = "idle"

\* The entity method of a move: one ply more, the one of the event.
PlayedPly(i) ==
  LET t == gameTh[i] IN
  /\ t.kind = "move" /\ GoesOn(i, "branch")
  /\ \E r \in GameRecord :
       /\ object' = [object EXCEPT ![t.game] = r]
       /\ r.moves = object[t.game].moves + 1 /\ r.moves = t.ply
       /\ r.status = object[t.game].status

\* The other methods, which play no ply.
Acted(i) ==
  LET t == gameTh[i] IN
  /\ \/ Returns(i)
     \/ t.kind # "move" /\ GoesOn(i, "encode")
  /\ \E r \in GameRecord :
       /\ object' = [object EXCEPT ![t.game] = r]
       /\ r.moves = object[t.game].moves
       /\ r.status = object[t.game].status \/ (t.kind = "resign" /\ GoesOn(i, "encode"))
       /\ object[t.game].status = "deactive" => r.status = "deactive"
       /\ GoesOn(i, "encode") => r.outcome # "none"

Refused(i) == Returns(i) /\ UNCHANGED object

LEMMA ActFields ==
  ASSUME TypeInv, NEW i \in Instance, NEW kind, NEW accepts, NEW r \in GameRecord,
         NEW next \in {"idle", "branch", "encode"}, Act(i, kind, accepts, r, next)
  PROVE  /\ gameTh[i].pc = "act" /\ gameTh[i].kind = kind /\ gameTh[i].game \in Game
         /\ UNCHANGED <<redis, bus, origin, games, away, matchTh, tickTh, httpTh>>
         /\ \/ Refused(i)
            \/ /\ accepts /\ object' = [object EXCEPT ![gameTh[i].game] = r]
               /\ (next = "idle" /\ Returns(i)) \/ (next # "idle" /\ GoesOn(i, next))
<1>1. /\ gameTh \in [Instance -> GameThread] /\ gameTh[i] \in GameThread
      /\ gameTh[i].game \in Game
  BY DEF TypeInv, TypeOK, ThreadsOK, Act
<1>2. GameIdle.pc = "idle"
  BY DEF GameIdle
<1>3. /\ [gameTh[i] EXCEPT !.pc = next].pc = next
      /\ [gameTh[i] EXCEPT !.pc = next].game = gameTh[i].game
      /\ [gameTh[i] EXCEPT !.pc = next].kind = gameTh[i].kind
      /\ [gameTh[i] EXCEPT !.pc = next].ply = gameTh[i].ply
  BY <1>1 DEF GameThread
<1>4. CASE accepts
  <2>1. CASE next = "idle"
    BY <1>1, <1>2, <1>4, <2>1 DEF Act, Returns
  <2>2. CASE next # "idle"
    <3>1. gameTh'[i] = [gameTh[i] EXCEPT !.pc = next]
      BY <1>1, <1>4, <2>2 DEF Act
    <3>2. GoesOn(i, next)
      BY <1>3, <3>1 DEF GoesOn
    <3>3. QED
      BY <1>1, <1>4, <2>2, <3>2 DEF Act
  <2>3. QED
    BY <2>1, <2>2
<1>5. CASE ~accepts
  BY <1>1, <1>2, <1>5 DEF Act, Returns, Refused
<1>6. QED
  BY <1>4, <1>5
LEMMA MovedFields ==
  ASSUME NEW g \in GameRecord, NEW res \in PlyResult
  PROVE  /\ Moved(g, res) \in GameRecord
         /\ Moved(g, res).moves = g.moves + 1 /\ Moved(g, res).status = g.status
<1>. DEFINE m == g.moves + 1  o == PlyOutcome(g, res)
<1>1. Moved(g, res) = [g EXCEPT !.moves = m, !.outcome = o]
  BY DEF Moved
<1>. HIDE DEF o
<1>2. QED
  BY <1>1, MovedType DEF GameRecord

LEMMA EndFields ==
  ASSUME NEW g \in GameRecord, NEW p \in PlayerOrNone
  PROVE  /\ DrawOffered(g, p).moves = g.moves /\ DrawOffered(g, p).status = g.status
         /\ DrawRejected(g).moves = g.moves /\ DrawRejected(g).status = g.status
         /\ DrawAccepted(g).moves = g.moves /\ DrawAccepted(g).status = g.status
         /\ DrawClaimed(g).moves = g.moves /\ DrawClaimed(g).status = g.status
         /\ Deactivated(g).moves = g.moves /\ Deactivated(g).status = "deactive"
         /\ Deactivated(g).outcome = g.outcome
         /\ Resigned(g, p).moves = g.moves /\ Resigned(g, p).status = "deactive"
         /\ PlayersOf(Encoded(g)) = PlayersOf(g)
BY DEF DrawOffered, DrawRejected, DrawAccepted, DrawClaimed, Deactivated, Resigned, Encoded,
       PlayersOf, GameRecord

ActStep(i) ==
  \/ ActMove(i) \/ ActOffer(i) \/ ActReject(i)
  \/ ActAccept(i) \/ ActClaim(i) \/ ActResign(i)

LEMMA ActCases ==
  ASSUME TypeInv, NEW i \in Instance, ActStep(i)
  PROVE  /\ gameTh[i].pc = "act" /\ gameTh[i].game \in Game
         /\ UNCHANGED <<redis, bus, origin, games, away, matchTh, tickTh, httpTh>>
         /\ PlayedPly(i) \/ Acted(i) \/ Refused(i)
<1>. DEFINE t == gameTh[i]  g == object[t.game]
<1>1. gameTh \in [Instance -> GameThread] /\ t \in GameThread /\ t.by \in PlayerOrNone /\ t.ply \in Nat
  BY DEF TypeInv, TypeOK, GameThread
<1>2. t.pc = "act" /\ t.game \in Game /\ g \in GameRecord
  <2>1. t.pc = "act"
    BY DEF ActStep, ActMove, ActOffer, ActReject, ActAccept, ActClaim, ActResign, Act
  <2>2. QED
    BY <2>1 DEF TypeInv, TypeOK, ThreadsOK
<1>3. g.moves \in Nat
  BY <1>2 DEF GameRecord
<1>4. ASSUME NEW pc \in {"branch", "encode"}, GoesOn(i, pc)
      PROVE  ~Returns(i) /\ \A q : GoesOn(i, q) => q = pc
  BY <1>4 DEF GoesOn, Returns
<1>5. CASE ActMove(i)
  <2>1. PICK legal \in BOOLEAN, res \in PlyResult :
           Act(i, "move", legal /\ MayMove(g, t.by, t.ply), Moved(g, res), "branch")
    BY <1>5 DEF ActMove
  <2>2. Moved(g, res) \in GameRecord /\ Moved(g, res).moves = g.moves + 1 /\ Moved(g, res).status = g.status
    BY <1>2, MovedFields
  <2>3. /\ t.kind = "move"
        /\ UNCHANGED <<redis, bus, origin, games, away, matchTh, tickTh, httpTh>>
        /\ \/ Refused(i)
           \/ /\ legal /\ MayMove(g, t.by, t.ply) /\ GoesOn(i, "branch")
              /\ object' = [object EXCEPT ![t.game] = Moved(g, res)]
    BY <2>1, <2>2, ActFields
  <2>4. MayMove(g, t.by, t.ply) => g.moves + 1 = t.ply
    BY <1>1, <1>3 DEF MayMove
  <2>5. QED
    BY <1>2, <2>2, <2>3, <2>4 DEF PlayedPly
<1>6. ASSUME NEW kind \in {"offer", "reject"}, NEW accepts, NEW r \in GameRecord,
             r.moves = g.moves, r.status = g.status, Act(i, kind, accepts, r, "idle")
      PROVE  /\ UNCHANGED <<redis, bus, origin, games, away, matchTh, tickTh, httpTh>>
             /\ Acted(i) \/ Refused(i)
  <2>1. /\ UNCHANGED <<redis, bus, origin, games, away, matchTh, tickTh, httpTh>>
        /\ \/ Refused(i)
           \/ Returns(i) /\ object' = [object EXCEPT ![t.game] = r]
    BY <1>6, ActFields
  <2>2. Returns(i) => ~GoesOn(i, "encode")
    BY DEF Returns, GoesOn
  <2>3. QED
    BY <1>2, <1>6, <2>1, <2>2 DEF Acted
<1>7. ASSUME NEW kind \in {"accept", "claim", "resign"}, NEW accepts, NEW r \in GameRecord,
             r.moves = g.moves, r.outcome # "none",
             \/ r.status = g.status
             \/ kind = "resign" /\ r.status = "deactive",
             Act(i, kind, accepts, r, "encode")
      PROVE  /\ UNCHANGED <<redis, bus, origin, games, away, matchTh, tickTh, httpTh>>
             /\ Acted(i) \/ Refused(i)
  <2>1. /\ UNCHANGED <<redis, bus, origin, games, away, matchTh, tickTh, httpTh>>
        /\ t.kind = kind
        /\ \/ Refused(i)
           \/ GoesOn(i, "encode") /\ object' = [object EXCEPT ![t.game] = r]
    BY <1>7, ActFields
  <2>2. QED
    BY <1>2, <1>7, <2>1 DEF Acted
<1>8. CASE ActOffer(i)
  BY <1>1, <1>2, <1>6, <1>8, EndFields, DrawType DEF ActOffer
<1>9. CASE ActReject(i)
  BY <1>1, <1>2, <1>6, <1>9, EndFields, DrawType DEF ActReject
<1>10. CASE ActAccept(i)
  <2>1. Act(i, "accept", MayAnswerDraw(g, t.by), DrawAccepted(g), "encode")
    BY <1>10 DEF ActAccept
  <2>2. /\ DrawAccepted(g) \in GameRecord /\ DrawAccepted(g).moves = g.moves
        /\ DrawAccepted(g).status = g.status /\ DrawAccepted(g).outcome # "none"
    BY <1>1, <1>2, EndFields, DrawType, DrawScored
  <2>3. QED
    BY <1>2, <1>7, <2>1, <2>2
<1>11. CASE ActClaim(i)
  <2>1. PICK holds \in BOOLEAN : Act(i, "claim", holds, DrawClaimed(g), "encode")
    BY <1>11 DEF ActClaim
  <2>2. QED
    BY ZenonT(30), <1>1, <1>2, <1>7, <2>1, EndFields, DrawType, DrawScored
<1>12. CASE ActResign(i)
  <2>1. Act(i, "resign", TRUE, Resigned(g, t.by), "encode")
    BY <1>12 DEF ActResign
  <2>2. QED
    BY ZenonT(30), <1>1, <1>2, <1>7, <2>1, EndFields, ResignedType
<1>13. QED
  BY <1>2, <1>5, <1>8, <1>9, <1>10, <1>11, <1>12 DEF ActStep

\* Where each of the other steps takes the handler.
LEMMA StepFields ==
  ASSUME TypeInv, NEW i \in Instance
  PROVE  /\ BranchOnOutcome(i) =>
              IF object[gameTh[i].game].outcome # "none"
                THEN GoesOn(i, "encode") ELSE GoesOn(i, "encodeMove")
         /\ EncodeGame(i) =>
              /\ gameTh'[i].copy = Encoded(object[gameTh[i].game])
              /\ \/ gameTh[i].pc = "encode" /\ GoesOn(i, "save")
                 \/ gameTh[i].pc = "encodeMove" /\ GoesOn(i, "saveMove")
         /\ SaveMove(i) => GoesOn(i, "approve") \/ Returns(i)
         /\ Approve(i) => Returns(i)
         /\ SaveEnd(i) => \/ Returns(i)
                          \/ gameTh[i].kind = "resign" /\ GoesOn(i, "remove")
                          \/ gameTh[i].kind # "resign" /\ GoesOn(i, "announce")
         /\ AnnounceEnd(i) => \/ Returns(i)
                              \/ gameTh[i].kind # "resign" /\ GoesOn(i, "remove")
         /\ RemoveGame(i) => \/ gameTh[i].kind # "resign" /\ Returns(i)
                             \/ gameTh[i].kind = "resign" /\ GoesOn(i, "announce")
<1>. USE DEF GoesOn, Returns
<1>1. gameTh \in [Instance -> GameThread] /\ gameTh[i] \in GameThread
  BY DEF TypeInv, TypeOK
<1>2. GameIdle.pc = "idle"
  BY DEF GameIdle
<1>3. BranchOnOutcome(i) =>
        IF object[gameTh[i].game].outcome # "none" THEN GoesOn(i, "encode") ELSE GoesOn(i, "encodeMove")
  BY <1>1 DEF BranchOnOutcome, GameThread
<1>4. EncodeGame(i) =>
        /\ gameTh'[i].copy = Encoded(object[gameTh[i].game])
        /\ \/ gameTh[i].pc = "encode" /\ GoesOn(i, "save")
           \/ gameTh[i].pc = "encodeMove" /\ GoesOn(i, "saveMove")
  BY <1>1 DEF EncodeGame, GameThread
<1>5. SaveMove(i) => GoesOn(i, "approve") \/ Returns(i)
  BY <1>1, <1>2 DEF SaveMove, GameThread
<1>6. Approve(i) => Returns(i)
  BY <1>1, <1>2 DEF Approve
<1>7. SaveEnd(i) => \/ Returns(i)
                    \/ gameTh[i].kind = "resign" /\ GoesOn(i, "remove")
                    \/ gameTh[i].kind # "resign" /\ GoesOn(i, "announce")
  BY <1>1, <1>2 DEF SaveEnd, GameThread
<1>8. AnnounceEnd(i) => \/ Returns(i)
                        \/ gameTh[i].kind # "resign" /\ GoesOn(i, "remove")
  BY <1>1, <1>2 DEF AnnounceEnd, GameThread
<1>9. RemoveGame(i) => \/ gameTh[i].kind # "resign" /\ Returns(i)
                       \/ gameTh[i].kind = "resign" /\ GoesOn(i, "announce")
  BY <1>1, <1>2 DEF RemoveGame, GameThread
<1>10. QED
  BY <1>3, <1>4, <1>5, <1>6, <1>7, <1>8, <1>9

-----------------------------------------------------------------------------
(* A game is in the hands of one instance *)

\* What the goroutines of instance i hold game g as: on its way into memory,
\* in memory, or the game an event, the ticker or a request is working on.
Starting(i, g) == matchTh[i].pc \in {"cache", "manage"} /\ matchTh[i].game = g
Working(i, g)  == gameTh[i].pc # "idle" /\ gameTh[i].game = g
Ticking(i, g)  == \/ g \in tickTh[i].list \cup tickTh[i].ending
                  \/ tickTh[i].pc = "left" /\ tickTh[i].game = g
Serving(i, g)  == /\ httpTh[i].pc \notin {"idle", "load"} /\ HttpOnObject(httpTh[i])
                  /\ httpTh[i].game = g
Manages(i, g)  == g \in games[i] \/ Working(i, g) \/ Ticking(i, g) \/ Serving(i, g)
Holds(i, g)    == Starting(i, g) \/ Manages(i, g)

\* Only the instance that drew a game's id ever holds the game, and it is not
\* worked on before it is in memory.
OwnerInv ==
  \A i \in Instance, g \in Game :
    /\ Holds(i, g) => origin[g] # NoMatch
    /\ \A j \in Instance : Holds(i, g) /\ Holds(j, g) => i = j
    /\ Starting(i, g) => ~Manages(i, g)

\* The instance draws the id of a new game.
Draws(i, g) ==
  /\ origin[g] = NoMatch
  /\ \E m \in Match : \E w, b \in matches[m] :
       /\ origin' = [origin EXCEPT ![g] = m]
       /\ object' = [object EXCEPT ![g] = NewGame(w, b)]
       /\ matchTh' = [matchTh EXCEPT ![i] = [pc |-> "cache", match |-> m, game |-> g]]
  /\ UNCHANGED <<redis, matches, created, approved, ended, late, games, away,
                 gameTh, tickTh, httpTh>>

\* A step may hand a game on only from the drawing of its id to memory, and
\* from memory to the goroutines of the same instance.
HandsOn(i, g) ==
  /\ Manages(i, g)' => Manages(i, g) \/ (Starting(i, g) /\ ManageGame(i))
  /\ Starting(i, g)' => Starting(i, g) \/ Draws(i, g)

LEMMA SameHands ==
  ASSUME NEW i, NEW g, games'[i] \subseteq games[i],
         matchTh'[i] = matchTh[i] \/ matchTh'[i].pc \notin {"cache", "manage"},
         gameTh'[i] = gameTh[i] \/ gameTh'[i].pc = "idle",
         \/ tickTh'[i] = tickTh[i]
         \/ tickTh'[i].list = {} /\ tickTh'[i].ending = {} /\ tickTh'[i].pc # "left",
         httpTh'[i] = httpTh[i] \/ httpTh'[i].pc = "idle"
  PROVE  HandsOn(i, g)
BY DEF HandsOn, Manages, Starting, Working, Ticking, Serving

LEMMA MatchHands ==
  ASSUME TypeInv, NEW i \in Instance, NEW j \in Instance, NEW g \in Game,
         MatchStep(j) \/ Crash(j)
  PROVE  HandsOn(i, g)
<1>1. /\ games \in [Instance -> SUBSET Game] /\ matchTh \in [Instance -> MatchThread]
      /\ gameTh \in [Instance -> GameThread] /\ tickTh \in [Instance -> TickThread]
      /\ httpTh \in [Instance -> HttpThread]
  BY DEF TypeInv, TypeOK
<1>2. MatchIdle.pc = "idle" /\ GameIdle.pc = "idle" /\ HttpIdle.pc = "idle"
      /\ TickIdle.pc = "idle" /\ TickIdle.list = {} /\ TickIdle.ending = {}
  BY DEF MatchIdle, GameIdle, HttpIdle, TickIdle
<1>3. CASE Crash(j)
  <2>1. /\ games'[i] \subseteq games[i]
        /\ matchTh'[i] \in {matchTh[i], MatchIdle} /\ gameTh'[i] \in {gameTh[i], GameIdle}
        /\ tickTh'[i] \in {tickTh[i], TickIdle} /\ httpTh'[i] \in {httpTh[i], HttpIdle}
    BY <1>1, <1>3 DEF Crash
  <2>2. QED
    BY <1>2, <2>1, SameHands
<1>4. ASSUME UNCHANGED <<gameTh, tickTh, httpTh>>
      PROVE  Manages(i, g)' => Manages(i, g) \/ g \in games'[i]
  BY <1>4 DEF Manages, Working, Ticking, Serving
<1>5. ASSUME NEW m \in Match, ReceiveMatch(j, m)
      PROVE  HandsOn(i, g)
  <2>1. UNCHANGED <<games, gameTh, tickTh, httpTh>>
    BY <1>5 DEF ReceiveMatch
  <2>2. CASE UNCHANGED matchTh
    BY <2>1, <2>2, SameHands
  <2>3. CASE ~UNCHANGED matchTh
    <3>1. PICK h \in Game, w \in matches[m], b \in matches[m] :
             /\ origin[h] = NoMatch
             /\ origin' = [origin EXCEPT ![h] = m]
             /\ object' = [object EXCEPT ![h] = NewGame(w, b)]
             /\ matchTh' = [matchTh EXCEPT ![j] = [pc |-> "cache", match |-> m, game |-> h]]
      BY <1>5, <2>3 DEF ReceiveMatch
    <3>2. Draws(j, h)
      BY <1>5, <3>1 DEF ReceiveMatch, Draws
    <3>3. Starting(i, g)' => Starting(i, g) \/ (i = j /\ g = h)
      BY <1>1, <3>1 DEF Starting
    <3>4. QED
      BY <1>4, <2>1, <3>2, <3>3 DEF HandsOn, Manages
  <2>4. QED
    BY <2>2, <2>3
<1>6. CASE CacheNewGame(j)
  <2>1. UNCHANGED <<games, gameTh, tickTh, httpTh>>
    BY <1>6 DEF CacheNewGame, memory
  <2>2. /\ matchTh[j].pc = "cache"
        /\ \/ matchTh' = [matchTh EXCEPT ![j] = [matchTh[j] EXCEPT !.pc = "manage"]]
           \/ matchTh' = [matchTh EXCEPT ![j] = MatchIdle]
    BY <1>6 DEF CacheNewGame
  <2>3. [matchTh[j] EXCEPT !.pc = "manage"].game = matchTh[j].game
    BY <1>1 DEF MatchThread
  <2>4. Starting(i, g)' => Starting(i, g)
    BY <1>1, <1>2, <2>2, <2>3 DEF Starting
  <2>5. QED
    BY <1>4, <2>1, <2>4 DEF HandsOn, Manages
<1>7. CASE ManageGame(j)
  <2>1. UNCHANGED <<gameTh, tickTh, httpTh>>
    BY <1>7 DEF ManageGame
  <2>2. /\ matchTh[j].pc = "manage" /\ games' = [games EXCEPT ![j] = @ \cup {matchTh[j].game}]
        /\ \A k \in Instance : matchTh'[k] = matchTh[k] \/ matchTh'[k].pc = "publish"
    BY <1>1, <1>7 DEF ManageGame, MatchThread
  <2>3. g \in games'[i] => g \in games[i] \/ (i = j /\ Starting(i, g))
    BY <1>1, <2>2 DEF Starting
  <2>4. Starting(i, g)' => Starting(i, g)
    BY <2>2 DEF Starting
  <2>5. QED
    BY <1>4, <1>7, <2>1, <2>3, <2>4 DEF HandsOn, Manages
<1>8. CASE PublishCreated(j)
  <2>1. UNCHANGED <<games, gameTh, tickTh, httpTh>>
    BY <1>8 DEF PublishCreated, memory
  <2>2. matchTh'[i] \in {matchTh[i], MatchIdle}
    BY <1>1, <1>8 DEF PublishCreated
  <2>3. QED
    BY <1>2, <2>1, <2>2, SameHands
<1>9. QED
  BY <1>3, <1>5, <1>6, <1>7, <1>8 DEF MatchStep

LEMMA GameHands ==
  ASSUME TypeInv, NEW i \in Instance, NEW j \in Instance, NEW g \in Game,
         GameEvent(j) \/ GameStep(j)
  PROVE  HandsOn(i, g)
<1>1. /\ games \in [Instance -> SUBSET Game] /\ gameTh \in [Instance -> GameThread]
      /\ gameTh[j].pc # "idle" => gameTh[j].game \in Game
  BY DEF TypeInv, TypeOK, ThreadsOK
<1>2. UNCHANGED <<tickTh, httpTh>> /\ (i # j => gameTh'[i] = gameTh[i])
  BY <1>1, GameThreadOwn
<1>3. ASSUME UNCHANGED matchTh, games'[i] \subseteq games[i], Working(j, g)' => Manages(j, g)
      PROVE  HandsOn(i, g)
  BY <1>2, <1>3 DEF HandsOn, Manages, Starting, Working, Ticking, Serving
<1>4. CASE GameEvent(j)
  <2>1. UNCHANGED <<matchTh, games>>
    BY <1>4 DEF GameEvent, ReceiveGameEvent, PlayerLeft, PlayerJoined, ForgetConnections, memory
  <2>2. ASSUME NEW h \in Game, NEW p \in Player, NEW kind \in Kinds, NEW n \in 0..MaxMoves,
               ReceiveGameEvent(j, h, p, kind, n), Working(j, g)'
        PROVE  Manages(j, g)
    <3>1. gameTh'[j].game = h /\ h \in games[j]
      BY <1>1, <2>2 DEF ReceiveGameEvent, GameIdle
    <3>2. QED
      BY <2>2, <3>1 DEF Working, Manages
  <2>3. UNCHANGED gameTh => (Working(j, g)' => Manages(j, g))
    BY DEF Working, Manages
  <2>4. QED
    BY <1>3, <1>4, <2>1, <2>2, <2>3 DEF GameEvent, PlayerLeft, PlayerJoined, ForgetConnections
<1>5. CASE GameStep(j)
  <2>1. UNCHANGED matchTh /\ games'[i] \subseteq games[i] /\ gameTh[j].pc # "idle"
    <3>1. CASE ActStep(j)
      BY <3>1, ActCases
    <3>2. CASE \/ BranchOnOutcome(j) \/ EncodeGame(j) \/ SaveMove(j) \/ Approve(j)
               \/ SaveEnd(j) \/ AnnounceEnd(j)
      BY <3>2 DEF BranchOnOutcome, EncodeGame, SaveMove, Approve, SaveEnd, AnnounceEnd, memory
    <3>3. CASE RemoveGame(j)
      BY <1>1, <3>3 DEF RemoveGame
    <3>4. QED
      BY <1>5, <3>1, <3>2, <3>3 DEF GameStep, ActStep
  <2>2. Returns(j) \/ gameTh'[j].game = gameTh[j].game
    <3>1. CASE ActStep(j)
      <4>1. PlayedPly(j) \/ Acted(j) \/ Refused(j)
        BY <3>1, ActCases
      <4>2. QED
        BY <4>1 DEF PlayedPly, Acted, Refused, GoesOn
    <3>2. CASE \/ BranchOnOutcome(j) \/ EncodeGame(j) \/ SaveMove(j) \/ Approve(j)
               \/ SaveEnd(j) \/ AnnounceEnd(j) \/ RemoveGame(j)
      BY <3>2, StepFields DEF GoesOn
    <3>3. QED
      BY <1>5, <3>1, <3>2 DEF GameStep, ActStep
  <2>3. Working(j, g)' => Manages(j, g)
    BY <2>1, <2>2 DEF Returns, Working, Manages
  <2>4. QED
    BY <1>3, <2>1, <2>3
<1>6. QED
  BY <1>4, <1>5

\* The snapshot the ticker takes is of the games its instance manages.
LEMMA TickHands ==
  ASSUME TypeInv, NEW i \in Instance, NEW j \in Instance, NEW g \in Game,
         TickList(j) \/ TickStep(j)
  PROVE  HandsOn(i, g)
<1>. DEFINE t == tickTh[j]
<1>1. /\ games \in [Instance -> SUBSET Game] /\ tickTh \in [Instance -> TickThread]
      /\ t \in TickThread /\ t.list \subseteq Game /\ t.ending \subseteq Game
  BY DEF TypeInv, TypeOK, TickThread
<1>2. UNCHANGED <<gameTh, httpTh>> /\ (i # j => tickTh'[i] = tickTh[i])
  BY <1>1, TickThreadOwn
<1>3. UNCHANGED matchTh /\ games'[i] \subseteq games[i]
  <2>1. CASE TickRemove(j)
    BY <1>1, <2>1 DEF TickRemove
  <2>2. CASE ~TickRemove(j)
    BY <2>2 DEF TickList, TickStep, TickScan, TickCheck, TickForfeit, TickEncode, TickSave,
                TickAnnounce, memory
  <2>3. QED
    BY <2>1, <2>2
<1>4. SUFFICES Ticking(j, g)' => Manages(j, g)
  BY <1>2, <1>3 DEF HandsOn, Manages, Starting, Working, Ticking, Serving
<1>5. CASE TickList(j)
  <2>1. tickTh'[j].list = games[j] /\ tickTh'[j].ending = {} /\ tickTh'[j].pc = "scan"
    BY <1>1, <1>5 DEF TickList, TickIdle
  <2>2. QED
    BY <2>1 DEF Ticking, Manages
<1>6. ASSUME NEW due \in SUBSET Game, TickScan(j, due)
      PROVE  Ticking(j, g)' => Manages(j, g)
  <2>1. tickTh'[j].list \subseteq t.list /\ tickTh'[j].ending = t.ending /\ tickTh'[j].pc = "loop"
    BY <1>1, <1>6 DEF TickScan, TickThread
  <2>2. QED
    BY <2>1 DEF Ticking, Manages
<1>7. ASSUME NEW h \in Game, TickCheck(j, h)
      PROVE  Ticking(j, g)' => Manages(j, g)
  <2>1. /\ tickTh'[j].list \subseteq t.list /\ tickTh'[j].ending = t.ending
        /\ tickTh'[j].pc = "left" => tickTh'[j].game = h
        /\ h \in t.list
    BY <1>1, <1>7 DEF TickCheck, TickThread
  <2>2. QED
    BY <2>1 DEF Ticking, Manages
<1>8. CASE TickForfeit(j)
  <2>1. /\ tickTh'[j].list = t.list /\ tickTh'[j].ending = t.ending \cup {t.game}
        /\ tickTh'[j].pc = "loop" /\ t.pc = "left"
    BY <1>1, <1>8 DEF TickForfeit, TickThread
  <2>2. QED
    BY <2>1 DEF Ticking, Manages
<1>9. CASE TickEncode(j) \/ TickSave(j) \/ TickAnnounce(j) \/ TickRemove(j)
  <2>1. /\ tickTh'[j].list \subseteq t.list /\ tickTh'[j].ending \subseteq t.ending
        /\ tickTh'[j].pc # "left"
    <3>1. TickIdle.list = {} /\ TickIdle.ending = {} /\ TickIdle.pc = "idle"
      BY DEF TickIdle
    <3>2. CASE TickEncode(j)
      BY <1>1, <3>1, <3>2 DEF TickEncode, TickThread
    <3>3. CASE TickSave(j) \/ TickAnnounce(j)
      <4>1. /\ tickTh'[j].list = t.list /\ tickTh'[j].ending = t.ending
            /\ tickTh'[j].pc \in {"announce", "remove"}
        BY <1>1, <3>3 DEF TickSave, TickAnnounce, TickThread
      <4>2. QED
        BY <4>1
    <3>4. CASE TickRemove(j)
      BY <1>1, <3>1, <3>4 DEF TickRemove
    <3>5. QED
      BY <1>9, <3>2, <3>3, <3>4
  <2>2. QED
    BY <2>1 DEF Ticking, Manages
<1>10. QED
  BY <1>5, <1>6, <1>7, <1>8, <1>9 DEF TickStep

\* A game Redis holds has two players, so the copy a request works on is never
\* taken for the managed object.
Real(g) == PlayersOf(object[g]) \subseteq Player
SamePlayers(r, g) == PlayersOf(r) = PlayersOf(object[g])

\* Every copy of a game, in Redis or in a goroutine, has the game's players.
GameCopy(i) ==
  gameTh[i].pc \in {"save", "saveMove"} => SamePlayers(gameTh[i].copy, gameTh[i].game)
TickCopy(i) ==
  /\ \A g \in tickTh[i].list \cup tickTh[i].ending : origin[g] # NoMatch
  /\ tickTh[i].pc = "left" => origin[tickTh[i].game] # NoMatch
  /\ tickTh[i].pc = "save" =>
       \A g \in tickTh[i].ending : SamePlayers(tickTh[i].copy[g], g)
HttpCopy(i) ==
  /\ httpTh[i].pc = "idle" => httpTh[i].local = NoRecord
  /\ httpTh[i].local # NoRecord => SamePlayers(httpTh[i].local, httpTh[i].game)
  /\ httpTh[i].pc = "save" => SamePlayers(httpTh[i].copy, httpTh[i].game)
CachedCopy(g) ==
  cached[g].kept # "absent" => origin[g] # NoMatch /\ SamePlayers(cached[g].game, g)
CopiesInv ==
  /\ \A g \in Game : CachedCopy(g) /\ (origin[g] # NoMatch => Real(g))
  /\ \A i \in Instance : GameCopy(i) /\ TickCopy(i) /\ HttpCopy(i)

LEMMA HttpHands ==
  ASSUME TypeInv, CopiesInv, NEW i \in Instance, NEW j \in Instance, NEW g \in Game,
         HttpStep(j) \/ \E h \in Game, p \in Player : HttpRequest(j, h, p)
  PROVE  HandsOn(i, g)
<1>. DEFINE t == httpTh[j]
<1>1. /\ games \in [Instance -> SUBSET Game] /\ httpTh \in [Instance -> HttpThread]
      /\ t \in HttpThread /\ t.local \in GameRecord
      /\ t.pc # "idle" => t.game \in Game
  BY DEF TypeInv, TypeOK, ThreadsOK, HttpThread
<1>2. UNCHANGED <<gameTh, tickTh>> /\ (i # j => httpTh'[i] = httpTh[i])
  BY <1>1, HttpThreadOwn
<1>3. UNCHANGED matchTh /\ games'[i] \subseteq games[i]
  <2>1. CASE HttpRemove(j)
    BY <1>1, <2>1 DEF HttpRemove
  <2>2. CASE ~HttpRemove(j)
    BY <2>2 DEF HttpRequest, HttpStep, HttpLoad, HttpCheck, HttpAct, HttpEncode, HttpSave,
                HttpAnnounce, memory
  <2>3. QED
    BY <2>1, <2>2
<1>4. SUFFICES Serving(j, g)' => Manages(j, g)
  BY <1>2, <1>3 DEF HandsOn, Manages, Starting, Working, Ticking, Serving
<1>5. ASSUME NEW h \in Game, NEW p \in Player, HttpRequest(j, h, p)
      PROVE  Serving(j, g)' => Manages(j, g)
  <2>1. /\ httpTh'[j].game = h
        /\ httpTh'[j].pc = "load" \/ h \in games[j]
    BY <1>1, <1>5 DEF HttpRequest, HttpIdle
  <2>2. QED
    BY <2>1 DEF Serving, Manages
<1>6. ASSUME httpTh'[j].pc = "idle"
      PROVE  Serving(j, g)' => Manages(j, g)
  BY <1>6 DEF Serving
<1>7. ASSUME t.pc \notin {"idle", "load"}, httpTh'[j].game = t.game,
             HttpOnObject(httpTh'[j]) => HttpOnObject(t)
      PROVE  Serving(j, g)' => Manages(j, g)
  BY <1>7 DEF Serving, Manages, HttpOnObject
<1>8. CASE HttpLoad(j)
  <2>. DEFINE c == cached[t.game]
  <2>1. CASE httpTh'[j] = HttpIdle
    BY <1>6, <2>1 DEF HttpIdle
  <2>2. CASE c.kept # "absent" /\ httpTh'[j] = [t EXCEPT !.pc = "resign", !.local = c.game]
    <3>1. t.game \in Game
      BY <1>1, <1>8 DEF HttpLoad
    <3>2. SamePlayers(c.game, t.game) /\ Real(t.game)
      BY <2>2, <3>1 DEF CopiesInv, CachedCopy
    <3>3. c.game # NoRecord
      BY <3>2, PlayerAssumption DEF SamePlayers, Real, NoRecord, NewGame, PlayersOf
    <3>4. httpTh'[j].local = c.game
      BY <1>1, <2>2 DEF HttpThread
    <3>5. QED
      BY <3>3, <3>4 DEF Serving, HttpOnObject
  <2>3. QED
    BY <1>1, <1>8, <2>1, <2>2 DEF HttpLoad
<1>9. CASE HttpCheck(j)
  <2>1. \/ httpTh'[j] = HttpIdle
        \/ httpTh'[j].game = t.game /\ httpTh'[j].local = t.local
    BY <1>1, <1>9 DEF HttpCheck, HttpThread
  <2>2. HttpIdle.pc = "idle" /\ t.pc = "check"
    BY <1>9 DEF HttpCheck, HttpIdle
  <2>3. QED
    BY <1>6, <1>7, <2>1, <2>2 DEF HttpOnObject
<1>10. CASE HttpAct(j)
  <2>1. t.pc = "resign" /\ httpTh'[j].game = t.game
    BY <1>1, <1>10 DEF HttpAct, HttpThread
  <2>2. CASE HttpOnObject(t)
    BY <1>7, <2>1, <2>2
  <2>3. CASE ~HttpOnObject(t)
    <3>1. httpTh'[j].local = Resigned(t.local, t.by)
      BY <1>1, <1>10, <2>3 DEF HttpAct, HttpThread
    <3>2. NoRecord.outcome = "none" /\ Resigned(t.local, t.by).outcome # "none"
      BY <1>1, ResignedType DEF NoRecord, NewGame
    <3>3. QED
      BY <3>1, <3>2 DEF Serving, HttpOnObject
  <2>4. QED
    BY <2>2, <2>3
<1>11. CASE HttpEncode(j) \/ HttpSave(j) \/ HttpRemove(j) \/ HttpAnnounce(j)
  <2>1. t.pc \notin {"idle", "load"} /\ HttpIdle.pc = "idle"
    BY <1>11 DEF HttpEncode, HttpSave, HttpRemove, HttpAnnounce, HttpIdle
  <2>2. \/ httpTh'[j] = HttpIdle
        \/ httpTh'[j].game = t.game /\ httpTh'[j].local = t.local
    <3>1. CASE HttpEncode(j)
      BY <1>1, <3>1 DEF HttpEncode, HttpThread
    <3>2. CASE HttpSave(j)
      BY <1>1, <3>2 DEF HttpSave, HttpThread
    <3>3. CASE HttpRemove(j)
      BY <1>1, <3>3 DEF HttpRemove, HttpThread
    <3>4. CASE HttpAnnounce(j)
      BY <1>1, <3>4 DEF HttpAnnounce
    <3>5. QED
      BY <1>11, <3>1, <3>2, <3>3, <3>4
  <2>3. QED
    BY <1>6, <1>7, <2>1, <2>2 DEF HttpOnObject
<1>12. QED
  BY <1>5, <1>8, <1>9, <1>10, <1>11 DEF HttpStep

LEMMA NextHands ==
  ASSUME TypeInv, CopiesInv, [Next]_vars, NEW i \in Instance, NEW g \in Game
  PROVE  HandsOn(i, g)
<1>1. CASE \/ \E m \in Match, p, q \in Player : MatchFound(m, p, q)
           \/ \E h \in Game : Expire(h)
           \/ UNCHANGED vars
  <2>1. UNCHANGED <<games, matchTh, gameTh, tickTh, httpTh>>
    BY <1>1 DEF MatchFound, Expire, vars, memory
  <2>2. QED
    BY <2>1, SameHands
<1>2. QED
  BY <1>1, MatchHands, GameHands, TickHands, HttpHands DEF Next

LEMMA NextOwner == BaseInv /\ CopiesInv /\ OwnerInv /\ [Next]_vars => OwnerInv'
<1>. SUFFICES ASSUME BaseInv, CopiesInv, OwnerInv, [Next]_vars,
                     NEW i \in Instance, NEW g \in Game
              PROVE  /\ Holds(i, g)' => origin'[g] # NoMatch
                     /\ \A j \in Instance : Holds(i, g)' /\ Holds(j, g)' => i = j
                     /\ Starting(i, g)' => ~Manages(i, g)'
  BY DEF OwnerInv
<1>1. TypeInv /\ GamesKept /\ \A j \in Instance : HandsOn(j, g)
  BY NextHands, NextKeeps DEF BaseInv
<1>2. /\ matchTh \in [Instance -> MatchThread] /\ origin \in [Game -> Match \cup {NoMatch}]
  BY <1>1 DEF TypeInv, TypeOK
<1>3. \A j \in Instance : Holds(j, g)' => Holds(j, g) \/ Draws(j, g)
  BY <1>1 DEF HandsOn, Holds
<1>4. \A j \in Instance : Draws(j, g) => origin[g] = NoMatch /\ origin'[g] # NoMatch
  BY <1>2, ServiceAssumption DEF Draws
<1>5. Holds(i, g)' => origin'[g] # NoMatch
  BY <1>1, <1>3, <1>4 DEF OwnerInv, GamesKept
<1>6. \A j \in Instance : Draws(i, g) /\ Draws(j, g) => i = j
  <2>. SUFFICES ASSUME NEW j \in Instance, Draws(i, g), Draws(j, g), i # j PROVE FALSE
    OBVIOUS
  <2>1. /\ matchTh'[i].pc = "cache" /\ matchTh'[i].game = g /\ matchTh'[i] = matchTh[i]
    BY <1>2 DEF Draws
  <2>2. Holds(i, g)
    BY <2>1 DEF Holds, Starting
  <2>3. QED
    BY <2>2, <1>4 DEF OwnerInv
<1>7. \A j \in Instance : Holds(i, g)' /\ Holds(j, g)' => i = j
  BY <1>3, <1>4, <1>6 DEF OwnerInv
<1>8. ASSUME Starting(i, g)', Manages(i, g)' PROVE FALSE
  <2>1. CASE Draws(i, g)
    BY <1>1, <1>4, <1>8, <2>1 DEF HandsOn, OwnerInv, Holds
  <2>2. CASE Starting(i, g)
    <3>1. ManageGame(i)
      BY <1>1, <1>8, <2>2 DEF HandsOn, OwnerInv
    <3>2. matchTh'[i].pc = "publish"
      BY <1>2, <3>1 DEF ManageGame, MatchThread
    <3>3. QED
      BY <1>8, <3>2 DEF Starting
  <2>3. QED
    BY <1>1, <1>8, <2>1, <2>2 DEF HandsOn
<1>9. QED
  BY <1>5, <1>7, <1>8

-----------------------------------------------------------------------------
(* The copies have the players of their game *)

LEMMA PlayersKept ==
  ASSUME GamesKept, NEW g \in Game, origin[g] # NoMatch
  PROVE  origin'[g] # NoMatch /\ PlayersOf(object'[g]) = PlayersOf(object[g])
BY DEF GamesKept, Keeps

LEMMA GameCopyKept ==
  ASSUME BaseInv, GamesKept, NEW i \in Instance, GameCopy(i), gameTh'[i] = gameTh[i]
  PROVE  GameCopy(i)'
<1>1. gameTh[i].pc # "idle" => gameTh[i].game \in Game /\ origin[gameTh[i].game] # NoMatch
  BY DEF BaseInv, TypeInv, ThreadsOK, GameEnd
<1>2. QED
  BY <1>1, PlayersKept DEF GameCopy, SamePlayers

LEMMA TickCopyKept ==
  ASSUME BaseInv, GamesKept, NEW i \in Instance, TickCopy(i), tickTh'[i] = tickTh[i]
  PROVE  TickCopy(i)'
<1>1. /\ tickTh[i].list \subseteq Game /\ tickTh[i].ending \subseteq Game
      /\ tickTh[i].pc = "left" => tickTh[i].game \in Game
  BY DEF BaseInv, TypeInv, TypeOK, ThreadsOK, TickThread
<1>2. QED
  BY <1>1, PlayersKept DEF TickCopy, SamePlayers

LEMMA HttpCopyKept ==
  ASSUME BaseInv, GamesKept, NEW i \in Instance, HttpCopy(i), httpTh'[i] = httpTh[i]
  PROVE  HttpCopy(i)'
<1>1. httpTh[i].pc # "idle" => httpTh[i].game \in Game /\ origin[httpTh[i].game] # NoMatch
  BY DEF BaseInv, TypeInv, ThreadsOK, HttpEnd
<1>2. QED
  BY <1>1, PlayersKept DEF HttpCopy, SamePlayers

LEMMA GameCopyStep ==
  ASSUME BaseInv, GamesKept, NEW i \in Instance, GameCopy(i), GameEvent(i) \/ GameStep(i)
  PROVE  GameCopy(i)'
<1>. DEFINE t == gameTh[i]
<1>1. /\ gameTh \in [Instance -> GameThread] /\ t \in GameThread /\ TypeInv
      /\ t.pc # "idle" => t.game \in Game /\ origin[t.game] # NoMatch /\ object[t.game] \in GameRecord
  BY DEF BaseInv, TypeInv, TypeOK, ThreadsOK, GameEnd
<1>2. ASSUME gameTh'[i].pc \notin {"save", "saveMove"} PROVE GameCopy(i)'
  BY <1>2 DEF GameCopy
<1>3. CASE GameEvent(i)
  <2>1. gameTh'[i] = t \/ gameTh'[i].pc = "act"
    BY ZenonT(30), <1>1, <1>3 DEF GameEvent, ReceiveGameEvent, PlayerLeft, PlayerJoined, ForgetConnections, GameIdle
  <2>2. QED
    BY <1>2, <2>1, GameCopyKept
<1>4. CASE ActStep(i)
  <2>1. PlayedPly(i) \/ Acted(i) \/ Refused(i)
    BY <1>1, <1>4, ActCases
  <2>2. QED
    BY <1>2, <2>1 DEF PlayedPly, Acted, Refused, GoesOn, Returns
<1>5. CASE \/ BranchOnOutcome(i) \/ SaveMove(i) \/ Approve(i)
           \/ SaveEnd(i) \/ AnnounceEnd(i) \/ RemoveGame(i)
  BY <1>1, <1>2, <1>5, StepFields DEF GoesOn, Returns
<1>6. CASE EncodeGame(i)
  <2>1. /\ t.pc # "idle" /\ UNCHANGED object
        /\ gameTh'[i].game = t.game /\ gameTh'[i].copy = Encoded(object[t.game])
    BY <1>1, <1>6, StepFields DEF EncodeGame, GoesOn, memory
  <2>2. PlayersOf(Encoded(object[t.game])) = PlayersOf(object[t.game])
    BY DEF Encoded, PlayersOf
  <2>3. QED
    BY <2>1, <2>2 DEF GameCopy, SamePlayers
<1>7. QED
  BY <1>3, <1>4, <1>5, <1>6 DEF GameStep, ActStep

LEMMA TickCopyStep ==
  ASSUME BaseInv, GamesKept, NEW i \in Instance, TickCopy(i), TickList(i) \/ TickStep(i)
  PROVE  TickCopy(i)'
<1>. DEFINE t == tickTh[i]
<1>1. /\ tickTh \in [Instance -> TickThread] /\ t \in TickThread /\ TypeInv
      /\ t.list \subseteq Game /\ t.ending \subseteq Game /\ games[i] \subseteq Game
      /\ t.pc = "left" => t.game \in Game
  BY DEF BaseInv, TypeInv, TypeOK, ThreadsOK, TickThread
<1>2. \A g \in games[i] : origin[g] # NoMatch
  BY DEF BaseInv, OneGameInv, MatchCommitted
<1>4. ASSUME tickTh'[i].list \subseteq games[i] \cup t.list,
             tickTh'[i].ending \subseteq t.ending \cup (IF t.pc = "left" THEN {t.game} ELSE {}),
             tickTh'[i].pc = "left" => tickTh'[i].game \in t.list,
             tickTh'[i].pc # "save"
      PROVE  TickCopy(i)'
  <2>1. \A g \in games[i] \cup t.list \cup t.ending : origin'[g] # NoMatch
    BY <1>1, <1>2, PlayersKept DEF TickCopy
  <2>2. t.pc = "left" => origin'[t.game] # NoMatch
    BY <1>1, PlayersKept DEF TickCopy
  <2>3. QED
    BY <1>4, <2>1, <2>2 DEF TickCopy
<1>5. TickIdle.list = {} /\ TickIdle.ending = {} /\ TickIdle.pc = "idle"
  BY DEF TickIdle
<1>6. CASE TickList(i)
  <2>1. tickTh'[i].list = games[i] /\ tickTh'[i].ending = {} /\ tickTh'[i].pc = "scan"
    BY <1>1, <1>6 DEF TickList, TickIdle
  <2>2. QED
    BY <1>4, <2>1
<1>7. ASSUME NEW due \in SUBSET Game, TickScan(i, due)
      PROVE  TickCopy(i)'
  <2>1. tickTh'[i].list \subseteq t.list /\ tickTh'[i].ending = t.ending /\ tickTh'[i].pc = "loop"
    BY <1>1, <1>7 DEF TickScan, TickThread
  <2>2. QED
    BY <1>4, <2>1
<1>8. ASSUME NEW h \in Game, TickCheck(i, h)
      PROVE  TickCopy(i)'
  <2>1. /\ tickTh'[i].list \subseteq t.list /\ tickTh'[i].ending = t.ending
        /\ tickTh'[i].pc \in {"loop", "left"}
        /\ tickTh'[i].pc = "left" => tickTh'[i].game \in t.list
    BY <1>1, <1>8 DEF TickCheck, TickThread
  <2>2. QED
    BY <1>4, <2>1
<1>9. CASE TickForfeit(i)
  <2>1. /\ tickTh'[i].list = t.list /\ tickTh'[i].ending = t.ending \cup {t.game}
        /\ tickTh'[i].pc = "loop" /\ t.pc = "left"
    BY <1>1, <1>9 DEF TickForfeit, TickThread
  <2>2. QED
    BY <1>4, <2>1
<1>10. CASE TickEncode(i)
  <2>1. CASE t.ending = {}
    BY <1>1, <1>4, <1>5, <1>10, <2>1 DEF TickEncode
  <2>2. CASE t.ending # {}
    <3>1. /\ tickTh'[i].list = t.list /\ tickTh'[i].ending = t.ending /\ tickTh'[i].pc = "save"
          /\ \A g \in t.ending : tickTh'[i].copy[g] = Encoded(object[g])
      BY <1>1, <1>10, <2>2 DEF TickEncode, TickThread
    <3>2. UNCHANGED <<origin, object>>
      BY <1>10 DEF TickEncode, memory
    <3>3. \A g \in Game : PlayersOf(Encoded(object[g])) = PlayersOf(object[g])
      BY DEF Encoded, PlayersOf
    <3>4. QED
      BY <1>1, <3>1, <3>2, <3>3 DEF TickCopy, SamePlayers
  <2>3. QED
    BY <2>1, <2>2
<1>11. CASE TickSave(i) \/ TickAnnounce(i)
  <2>1. /\ tickTh'[i].list = t.list /\ tickTh'[i].ending = t.ending
        /\ tickTh'[i].pc \in {"announce", "remove"}
    BY <1>1, <1>11 DEF TickSave, TickAnnounce, TickThread
  <2>2. QED
    BY <1>4, <2>1
<1>12. CASE TickRemove(i)
  <2>1. tickTh'[i] = TickIdle
    BY <1>1, <1>12 DEF TickRemove
  <2>2. QED
    BY <1>4, <1>5, <2>1
<1>13. QED
  BY <1>6, <1>7, <1>8, <1>9, <1>10, <1>11, <1>12 DEF TickStep

LEMMA HttpCopyStep ==
  ASSUME BaseInv, CopiesInv, GamesKept, NEW i \in Instance,
         HttpStep(i) \/ \E g \in Game, p \in Player : HttpRequest(i, g, p)
  PROVE  HttpCopy(i)'
<1>. DEFINE t == httpTh[i]
<1>1. /\ httpTh \in [Instance -> HttpThread] /\ t \in HttpThread
      /\ t.local \in GameRecord /\ t.by \in PlayerOrNone /\ HttpCopy(i)
      /\ t.pc # "idle" => t.game \in Game /\ origin[t.game] # NoMatch /\ object[t.game] \in GameRecord
  BY DEF BaseInv, TypeInv, TypeOK, ThreadsOK, HttpEnd, HttpThread, CopiesInv
<1>2. ASSUME httpTh'[i].local = NoRecord, httpTh'[i].pc # "save"
      PROVE  HttpCopy(i)'
  BY <1>2 DEF HttpCopy
<1>3. HttpIdle.local = NoRecord /\ HttpIdle.pc = "idle"
  BY DEF HttpIdle
<1>4. ASSUME t.pc # "idle" PROVE PlayersOf(object'[t.game]) = PlayersOf(object[t.game])
  BY <1>1, <1>4, PlayersKept
<1>5. ASSUME t.pc # "idle", httpTh'[i].game = t.game, httpTh'[i].local = t.local,
             httpTh'[i].pc \notin {"idle", "save"}
      PROVE  HttpCopy(i)'
  BY <1>1, <1>4, <1>5 DEF HttpCopy, SamePlayers
<1>6. ASSUME NEW g \in Game, NEW p \in Player, HttpRequest(i, g, p)
      PROVE  HttpCopy(i)'
  <2>1. httpTh'[i].local = NoRecord /\ httpTh'[i].pc # "save"
    BY <1>1, <1>6 DEF HttpRequest, HttpIdle
  <2>2. QED
    BY <1>2, <2>1
<1>7. CASE HttpLoad(i)
  <2>. DEFINE c == cached[t.game]
  <2>1. CASE httpTh'[i] = HttpIdle
    BY <1>2, <1>3, <2>1
  <2>2. CASE c.kept # "absent" /\ httpTh'[i] = [t EXCEPT !.pc = "resign", !.local = c.game]
    <3>1. SamePlayers(c.game, t.game)
      BY <1>1, <1>7, <2>2 DEF HttpLoad, CopiesInv, CachedCopy
    <3>2. httpTh'[i].local = c.game /\ httpTh'[i].game = t.game /\ httpTh'[i].pc = "resign"
      BY <1>1, <2>2 DEF HttpThread
    <3>3. QED
      BY <1>4, <1>7, <3>1, <3>2 DEF HttpCopy, SamePlayers, HttpLoad
  <2>3. QED
    BY <1>1, <1>7, <2>1, <2>2 DEF HttpLoad
<1>8. CASE HttpCheck(i)
  <2>1. \/ httpTh'[i] = HttpIdle
        \/ /\ httpTh'[i].game = t.game /\ httpTh'[i].local = t.local
           /\ httpTh'[i].pc = "resign"
    BY <1>1, <1>8 DEF HttpCheck, HttpThread
  <2>2. QED
    BY <1>2, <1>3, <1>5, <1>8, <2>1 DEF HttpCheck
<1>9. CASE HttpAct(i)
  <2>1. /\ t.pc = "resign" /\ httpTh'[i].game = t.game /\ httpTh'[i].pc = "encode"
        /\ httpTh'[i].local = t.local \/ (t.local # NoRecord /\ httpTh'[i].local = Resigned(t.local, t.by))
    BY <1>1, <1>9 DEF HttpAct, HttpThread, HttpOnObject
  <2>2. PlayersOf(Resigned(t.local, t.by)) = PlayersOf(t.local)
    BY <1>1, EntityKeeps DEF Keeps
  <2>3. QED
    BY <1>1, <1>4, <2>1, <2>2 DEF HttpCopy, SamePlayers
<1>10. CASE HttpEncode(i)
  <2>1. /\ t.pc = "encode" /\ httpTh'[i].game = t.game /\ httpTh'[i].local = t.local
        /\ httpTh'[i].copy = Encoded(HttpGame(t)) /\ UNCHANGED object
        /\ httpTh'[i].pc = "save"
    BY <1>1, <1>10 DEF HttpEncode, HttpThread, memory
  <2>2. PlayersOf(Encoded(HttpGame(t))) = PlayersOf(HttpGame(t))
    BY DEF Encoded, PlayersOf
  <2>3. SamePlayers(HttpGame(t), t.game)
    BY <1>1 DEF HttpGame, HttpOnObject, HttpCopy, SamePlayers
  <2>4. QED
    BY <1>1, <1>4, <2>1, <2>2, <2>3 DEF HttpCopy, SamePlayers
<1>11. CASE HttpSave(i) \/ HttpRemove(i) \/ HttpAnnounce(i)
  <2>1. \/ httpTh'[i] = HttpIdle
        \/ /\ httpTh'[i].game = t.game /\ httpTh'[i].local = t.local
           /\ httpTh'[i].pc \in {"remove", "announce"}
    <3>1. CASE HttpSave(i)
      BY <1>1, <3>1 DEF HttpSave, HttpThread
    <3>2. CASE HttpRemove(i)
      BY <1>1, <3>2 DEF HttpRemove, HttpThread
    <3>3. CASE HttpAnnounce(i)
      BY <1>1, <3>3 DEF HttpAnnounce
    <3>4. QED
      BY <1>11, <3>1, <3>2, <3>3
  <2>2. t.pc # "idle"
    BY <1>11 DEF HttpSave, HttpRemove, HttpAnnounce
  <2>3. QED
    BY <1>2, <1>3, <1>5, <2>1, <2>2
<1>12. QED
  BY <1>6, <1>7, <1>8, <1>9, <1>10, <1>11 DEF HttpStep

\* What a step does to the game's entry in Redis: nothing, its end by expiry,
\* or a game with the same players.
CachesSame(g) ==
  \/ cached'[g] = cached[g] \/ cached'[g].kept = "absent"
  \/ origin[g] # NoMatch /\ SamePlayers(cached'[g].game, g)

LEMMA NextCached ==
  ASSUME BaseInv, CopiesInv, [Next]_vars, NEW g \in Game
  PROVE  CachesSame(g)
<1>1. /\ cached \in [Game -> CacheEntry] /\ gameTh \in [Instance -> GameThread]
      /\ object \in [Game -> GameRecord]
      /\ \A i \in Instance : tickTh[i].ending \subseteq Game
  BY DEF BaseInv, TypeInv, TypeOK, TickThread
<1>2. ASSUME UNCHANGED cached PROVE CachesSame(g)
  BY <1>2 DEF CachesSame
<1>3. ASSUME NEW i \in Instance, CacheNewGame(i) PROVE CachesSame(g)
  <2>. DEFINE h == matchTh[i].game
  <2>1. h \in Game /\ origin[h] # NoMatch
    BY <1>3 DEF CacheNewGame, BaseInv, TypeInv, ThreadsOK, OneGameInv, MatchCommitted
  <2>2. \/ UNCHANGED cached
        \/ cached' = [cached EXCEPT ![h] = [kept |-> "forever", game |-> Encoded(object[h])]]
    BY <1>3 DEF CacheNewGame, redis
  <2>3. PlayersOf(Encoded(object[h])) = PlayersOf(object[h])
    BY DEF Encoded, PlayersOf
  <2>4. QED
    BY <1>1, <1>2, <2>1, <2>2, <2>3 DEF CachesSame, SamePlayers
<1>4. ASSUME NEW i \in Instance, SaveMove(i) PROVE CachesSame(g)
  <2>. DEFINE h == gameTh[i].game
  <2>1. h \in Game /\ origin[h] # NoMatch
    BY <1>4 DEF SaveMove, BaseInv, TypeInv, ThreadsOK, GameEnd
  <2>2. SamePlayers(gameTh[i].copy, h)
    BY <1>4 DEF SaveMove, CopiesInv, GameCopy
  <2>3. \/ UNCHANGED cached
        \/ cached' = [cached EXCEPT ![h] = [kept |-> "forever", game |-> gameTh[i].copy]]
    BY <1>4 DEF SaveMove
  <2>4. QED
    BY <1>1, <1>2, <2>1, <2>2, <2>3 DEF CachesSame
<1>5. ASSUME NEW gs \in SUBSET Game, NEW copy, DeactivateInRedis(gs, copy),
             \A h \in gs : origin[h] # NoMatch /\ SamePlayers(copy[h], h)
      PROVE  CachesSame(g)
  BY <1>5 DEF DeactivateInRedis, CachesSame
<1>6. ASSUME NEW i \in Instance, SaveEnd(i) PROVE CachesSame(g)
  <2>. DEFINE h == gameTh[i].game
  <2>1. h \in Game /\ origin[h] # NoMatch
    BY <1>6 DEF SaveEnd, BaseInv, TypeInv, ThreadsOK, GameEnd
  <2>2. SamePlayers(gameTh[i].copy, h)
    BY <1>6 DEF SaveEnd, CopiesInv, GameCopy
  <2>3. DeactivateInRedis({h}, [x \in {h} |-> gameTh[i].copy]) \/ UNCHANGED cached
    BY <1>6 DEF SaveEnd, redis
  <2>4. QED
    BY <1>2, <1>5, <2>1, <2>2, <2>3
<1>7. ASSUME NEW i \in Instance, TickSave(i) PROVE CachesSame(g)
  <2>1. DeactivateInRedis(tickTh[i].ending, tickTh[i].copy) \/ UNCHANGED cached
    BY <1>7 DEF TickSave, redis
  <2>2. \A h \in tickTh[i].ending : origin[h] # NoMatch /\ SamePlayers(tickTh[i].copy[h], h)
    BY <1>7 DEF TickSave, CopiesInv, TickCopy
  <2>3. QED
    BY <1>1, <1>2, <1>5, <2>1, <2>2
<1>8. ASSUME NEW i \in Instance, HttpSave(i) PROVE CachesSame(g)
  <2>. DEFINE h == httpTh[i].game
  <2>1. h \in Game /\ origin[h] # NoMatch
    BY <1>8 DEF HttpSave, BaseInv, TypeInv, ThreadsOK, HttpEnd
  <2>2. SamePlayers(httpTh[i].copy, h)
    BY <1>8 DEF HttpSave, CopiesInv, HttpCopy
  <2>3. DeactivateInRedis({h}, [x \in {h} |-> httpTh[i].copy]) \/ UNCHANGED cached
    BY <1>8 DEF HttpSave, redis
  <2>4. QED
    BY <1>2, <1>5, <2>1, <2>2, <2>3
<1>9. ASSUME NEW h \in Game, Expire(h) PROVE CachesSame(g)
  BY <1>1, <1>9 DEF Expire, Absent, CachesSame
<1>10. CASE (\E m \in Match, p, q \in Player : MatchFound(m, p, q)) \/ UNCHANGED vars
  BY <1>2, <1>10 DEF MatchFound, vars, redis
<1>11. ASSUME NEW i \in Instance, MatchStep(i) \/ GameEvent(i) \/ Crash(i) PROVE CachesSame(g)
  BY <1>2, <1>3, <1>11 DEF MatchStep, ReceiveMatch, ManageGame, PublishCreated, GameEvent,
     ReceiveGameEvent, PlayerLeft, PlayerJoined, ForgetConnections, Crash, redis
<1>12. ASSUME NEW i \in Instance, GameStep(i) PROVE CachesSame(g)
  <2>1. ActStep(i) => UNCHANGED cached
    BY ActCases DEF BaseInv, redis
  <2>2. QED
    BY <1>2, <1>4, <1>6, <1>12, <2>1 DEF GameStep, ActStep, BranchOnOutcome, EncodeGame,
       Approve, AnnounceEnd, RemoveGame, redis
<1>13. ASSUME NEW i \in Instance, TickList(i) \/ TickStep(i) PROVE CachesSame(g)
  BY <1>2, <1>7, <1>13 DEF TickList, TickStep, TickScan, TickCheck, TickForfeit, TickEncode,
     TickAnnounce, TickRemove, redis
<1>14. ASSUME NEW i \in Instance,
              HttpStep(i) \/ \E h \in Game, p \in Player : HttpRequest(i, h, p)
       PROVE  CachesSame(g)
  BY <1>2, <1>8, <1>14 DEF HttpRequest, HttpStep, HttpLoad, HttpCheck, HttpAct, HttpEncode,
     HttpRemove, HttpAnnounce, redis
<1>15. QED
  BY <1>9, <1>10, <1>11, <1>12, <1>13, <1>14 DEF Next

\* A drawn game has two players of the match it was drawn for.
LEMMA NextReal ==
  ASSUME BaseInv, CopiesInv, [Next]_vars, NEW g \in Game, origin'[g] # NoMatch
  PROVE  Real(g)'
<1>2. CASE origin[g] # NoMatch
  BY <1>2, PlayersKept, NextKeeps DEF BaseInv, CopiesInv, Real
<1>3. CASE origin[g] = NoMatch
  <2>1. PICK i \in Instance, m \in Match : ReceiveMatch(i, m) /\ origin'[g] # origin[g]
    <3>1. ASSUME UNCHANGED origin PROVE FALSE
      BY <1>3, <3>1
    <3>2. ASSUME NEW i \in Instance, GameStep(i) PROVE UNCHANGED origin
      <4>1. ActStep(i) => UNCHANGED origin
        BY ActCases DEF BaseInv
      <4>2. QED
        BY <3>2, <4>1 DEF GameStep, ActStep, BranchOnOutcome, EncodeGame, SaveMove, Approve,
           SaveEnd, AnnounceEnd, RemoveGame, memory
    <3>3. ASSUME NEW i \in Instance, MatchStep(i) \/ GameEvent(i) \/ Crash(i)
          PROVE  UNCHANGED origin \/ \E m \in Match : ReceiveMatch(i, m)
      BY <3>3 DEF MatchStep, CacheNewGame, ManageGame, PublishCreated, GameEvent,
         ReceiveGameEvent, PlayerLeft, PlayerJoined, ForgetConnections, Crash, memory
    <3>4. ASSUME NEW i \in Instance, TickList(i) \/ TickStep(i) PROVE UNCHANGED origin
      BY <3>4 DEF TickList, TickStep, TickScan, TickCheck, TickForfeit, TickEncode, TickSave,
         TickAnnounce, TickRemove, memory
    <3>5. ASSUME NEW i \in Instance,
                 HttpStep(i) \/ \E h \in Game, p \in Player : HttpRequest(i, h, p)
          PROVE  UNCHANGED origin
      BY <3>5 DEF HttpRequest, HttpStep, HttpLoad, HttpCheck, HttpAct, HttpEncode, HttpSave,
         HttpRemove, HttpAnnounce, memory
    <3>6. CASE \/ \E m \in Match, p, q \in Player : MatchFound(m, p, q)
               \/ \E h \in Game : Expire(h)
               \/ UNCHANGED vars
      BY <3>1, <3>6 DEF MatchFound, Expire, vars, memory
    <3>7. QED
      BY <1>3, <3>1, <3>2, <3>3, <3>4, <3>5, <3>6 DEF Next
  <2>2. /\ matches \in [Match -> SUBSET Player] /\ object \in [Game -> GameRecord]
        /\ origin \in [Game -> Match \cup {NoMatch}]
    BY DEF BaseInv, TypeInv, TypeOK
  <2>3. PICK h \in Game, w \in matches[m], b \in matches[m] :
           /\ origin' = [origin EXCEPT ![h] = m]
           /\ object' = [object EXCEPT ![h] = NewGame(w, b)]
    BY <2>1 DEF ReceiveMatch
  <2>4. object'[g] = NewGame(w, b) /\ w \in Player /\ b \in Player
    BY <2>1, <2>2, <2>3
  <2>5. QED
    BY <2>4 DEF Real, PlayersOf, NewGame
<1>4. QED
  BY <1>2, <1>3

LEMMA InitCopies == Init => CopiesInv
BY DEF Init, CopiesInv, CachedCopy, GameCopy, TickCopy, HttpCopy, Absent, GameIdle, TickIdle,
       HttpIdle

LEMMA NextCopies == BaseInv /\ CopiesInv /\ [Next]_vars => CopiesInv'
<1>. SUFFICES ASSUME BaseInv, CopiesInv, [Next]_vars PROVE CopiesInv'
  OBVIOUS
<1>1. TypeInv /\ GamesKept
  BY NextKeeps DEF BaseInv
<1>2. ASSUME NEW g \in Game PROVE CachedCopy(g)' /\ (origin'[g] # NoMatch => Real(g)')
  <2>1. CachesSame(g) /\ CachedCopy(g)
    BY NextCached DEF CopiesInv
  <2>2. CachedCopy(g)'
    BY <1>1, <2>1, PlayersKept DEF CachesSame, CachedCopy, SamePlayers
  <2>3. QED
    BY <2>2, NextReal
<1>3. ASSUME NEW j \in Instance PROVE GameCopy(j)' /\ TickCopy(j)' /\ HttpCopy(j)'
  <2>1. /\ gameTh \in [Instance -> GameThread] /\ tickTh \in [Instance -> TickThread]
        /\ httpTh \in [Instance -> HttpThread]
        /\ GameCopy(j) /\ TickCopy(j) /\ HttpCopy(j)
    BY <1>1 DEF TypeInv, TypeOK, CopiesInv
  <2>2. CASE gameTh'[j] = gameTh[j] /\ tickTh'[j] = tickTh[j] /\ httpTh'[j] = httpTh[j]
    BY <1>1, <2>1, <2>2, GameCopyKept, TickCopyKept, HttpCopyKept
  <2>3. ASSUME NEW i \in Instance, GameEvent(i) \/ GameStep(i)
        PROVE  GameCopy(j)' /\ TickCopy(j)' /\ HttpCopy(j)'
    <3>1. UNCHANGED <<tickTh, httpTh>> /\ (i # j => gameTh'[j] = gameTh[j])
      BY <1>1, <2>1, <2>3, GameThreadOwn
    <3>2. QED
      BY <1>1, <2>1, <2>3, <3>1, GameCopyKept, TickCopyKept, HttpCopyKept, GameCopyStep
  <2>4. ASSUME NEW i \in Instance, TickList(i) \/ TickStep(i)
        PROVE  GameCopy(j)' /\ TickCopy(j)' /\ HttpCopy(j)'
    <3>1. UNCHANGED <<gameTh, httpTh>> /\ (i # j => tickTh'[j] = tickTh[j])
      BY <1>1, <2>1, <2>4, TickThreadOwn
    <3>2. QED
      BY <1>1, <2>1, <2>4, <3>1, GameCopyKept, TickCopyKept, HttpCopyKept, TickCopyStep
  <2>5. ASSUME NEW i \in Instance,
               HttpStep(i) \/ \E g \in Game, p \in Player : HttpRequest(i, g, p)
        PROVE  GameCopy(j)' /\ TickCopy(j)' /\ HttpCopy(j)'
    <3>1. UNCHANGED <<gameTh, tickTh>> /\ (i # j => httpTh'[j] = httpTh[j])
      BY <1>1, <2>1, <2>5, HttpThreadOwn
    <3>2. QED
      BY <1>1, <2>1, <2>5, <3>1, GameCopyKept, TickCopyKept, HttpCopyKept, HttpCopyStep
  <2>6. ASSUME NEW i \in Instance, Crash(i)
        PROVE  GameCopy(j)' /\ TickCopy(j)' /\ HttpCopy(j)'
    <3>1. CASE i = j
      <4>1. gameTh'[j] = GameIdle /\ tickTh'[j] = TickIdle /\ httpTh'[j] = HttpIdle
        BY <2>1, <2>6, <3>1 DEF Crash
      <4>2. QED
        BY <4>1 DEF GameCopy, TickCopy, HttpCopy, GameIdle, TickIdle, HttpIdle
    <3>2. CASE i # j
      BY <2>1, <2>2, <2>6, <3>2 DEF Crash
    <3>3. QED
      BY <3>1, <3>2
  <2>7. CASE \/ \E m \in Match, p, q \in Player : MatchFound(m, p, q)
             \/ \E g \in Game : Expire(g)
             \/ \E i \in Instance : MatchStep(i)
             \/ UNCHANGED vars
    BY <2>2, <2>7 DEF MatchFound, Expire, MatchStep, ReceiveMatch, CacheNewGame, ManageGame,
       PublishCreated, vars
  <2>8. QED
    BY <2>3, <2>4, <2>5, <2>6, <2>7 DEF Next
<1>4. QED
  BY <1>2, <1>3 DEF CopiesInv

LEMMA InitOwner == Init => OwnerInv
BY DEF Init, OwnerInv, Holds, Manages, Starting, Working, Ticking, Serving, MatchIdle, GameIdle,
       TickIdle, HttpIdle

-----------------------------------------------------------------------------
(* The steps of the others: what a game sees when its own handler does not move *)

\* The handler of instance i takes an event of game g up.
Receives(i, g) ==
  /\ gameTh[i].pc = "idle" /\ g \in games[i] /\ object[g].status = "active"
  /\ gameTh'[i].pc = "act"
  /\ UNCHANGED <<redis, bus, memory, matchTh, tickTh, httpTh>>

QuietObject(g) ==
  /\ object'[g].moves = object[g].moves
  /\ object[g].status = "deactive" => object'[g].status = "deactive"
QuietBus(g) ==
  /\ approved'[g] = approved[g] /\ late'[g] = late[g]
  /\ ended[g] \subseteq ended'[g]
  /\ \A a \in ended'[g] :
       \/ a \in ended[g]
       \/ a.by = "tick" /\ \E i \in Instance : g \in tickTh[i].ending
       \/ a.by = "http" /\ \E i \in Instance : httpTh[i].pc # "idle" /\ httpTh[i].game = g
QuietCache(g) ==
  cached'[g].kept = "forever" =>
    cached[g].kept = "forever" \/ \E i \in Instance : Starting(i, g)
QuietHandlers(g) ==
  \A i \in Instance : Working(i, g)' => gameTh'[i] = gameTh[i] \/ Receives(i, g)
Quiet(g) == QuietObject(g) /\ QuietBus(g) /\ QuietCache(g) /\ QuietHandlers(g)

LEMMA QuietParts ==
  ASSUME TypeInv, NEW g \in Game
  PROVE  /\ UNCHANGED object => QuietObject(g)
         /\ UNCHANGED <<approved, late, ended>> => QuietBus(g)
         /\ UNCHANGED bus => QuietBus(g)
         /\ UNCHANGED cached => QuietCache(g)
         /\ UNCHANGED gameTh => QuietHandlers(g)
BY DEF QuietObject, QuietBus, QuietCache, QuietHandlers, bus

LEMMA DeactivateQuiet ==
  ASSUME TypeInv, NEW g \in Game, NEW gs, NEW copy,
         DeactivateInRedis(gs, copy) \/ UNCHANGED cached
  PROVE  QuietCache(g)
BY DEF DeactivateInRedis, QuietCache

LEMMA MatchQuiet ==
  ASSUME BaseInv, NEW i \in Instance, NEW g \in Game, MatchStep(i) \/ Crash(i)
  PROVE  Quiet(g) \/ Draws(i, g)
<1>1. /\ TypeInv /\ gameTh \in [Instance -> GameThread] /\ object \in [Game -> GameRecord]
      /\ cached \in [Game -> CacheEntry]
  BY DEF BaseInv, TypeInv, TypeOK
<1>2. ASSUME NEW m \in Match, ReceiveMatch(i, m)
      PROVE  Quiet(g) \/ Draws(i, g)
  <2>1. UNCHANGED <<approved, late, ended, cached, gameTh>>
    BY <1>2 DEF ReceiveMatch, redis
  <2>2. CASE UNCHANGED object
    BY <1>1, <2>1, <2>2, QuietParts DEF Quiet
  <2>3. CASE ~UNCHANGED object
    <3>1. PICK h \in Game, w \in matches[m], b \in matches[m] :
             /\ origin[h] = NoMatch
             /\ origin' = [origin EXCEPT ![h] = m]
             /\ object' = [object EXCEPT ![h] = NewGame(w, b)]
             /\ matchTh' = [matchTh EXCEPT ![i] = [pc |-> "cache", match |-> m, game |-> h]]
      BY <1>2, <2>3 DEF ReceiveMatch
    <3>2. h = g => Draws(i, g)
      BY <1>2, <3>1 DEF ReceiveMatch, Draws
    <3>3. h # g => QuietObject(g)
      BY <1>1, <3>1 DEF QuietObject
    <3>4. QED
      BY <1>1, <2>1, <3>2, <3>3, QuietParts DEF Quiet
  <2>4. QED
    BY <2>2, <2>3
<1>3. CASE CacheNewGame(i)
  <2>1. UNCHANGED <<object, approved, late, ended, gameTh>>
    BY <1>3 DEF CacheNewGame, bus, memory
  <2>2. \/ UNCHANGED cached
        \/ \E e : cached' = [cached EXCEPT ![matchTh[i].game] = e]
    BY <1>3 DEF CacheNewGame, redis
  <2>3. QuietCache(g)
    BY <1>1, <1>3, <2>2 DEF CacheNewGame, QuietCache, Starting
  <2>4. QED
    BY <1>1, <2>1, <2>3, QuietParts DEF Quiet
<1>4. CASE ManageGame(i) \/ PublishCreated(i)
  <2>1. UNCHANGED <<object, approved, late, ended, cached, gameTh>>
    BY <1>4 DEF ManageGame, PublishCreated, bus, memory, redis
  <2>2. QED
    BY <1>1, <2>1, QuietParts DEF Quiet
<1>5. CASE Crash(i)
  <2>1. UNCHANGED <<object, approved, late, ended, cached>>
    BY <1>5 DEF Crash, redis
  <2>2. \A j \in Instance : gameTh'[j] = gameTh[j] \/ gameTh'[j].pc = "idle"
    BY <1>1, <1>5 DEF Crash, GameIdle
  <2>3. QuietHandlers(g)
    BY <2>2 DEF QuietHandlers, Working
  <2>4. QED
    BY <1>1, <2>1, <2>3, QuietParts DEF Quiet
<1>6. QED
  BY <1>2, <1>3, <1>4, <1>5 DEF MatchStep

LEMMA GameQuiet ==
  ASSUME BaseInv, NEW i \in Instance, NEW g \in Game, GameEvent(i) \/ GameStep(i),
         ~(GameStep(i) /\ Working(i, g))
  PROVE  Quiet(g)
<1>. DEFINE t == gameTh[i]
<1>1. /\ TypeInv /\ gameTh \in [Instance -> GameThread] /\ object \in [Game -> GameRecord]
      /\ cached \in [Game -> CacheEntry] /\ approved \in [Game -> Seq(Nat)]
      /\ ended \in [Game -> SUBSET Announcement] /\ late \in [Game -> Nat]
      /\ t.pc # "idle" => t.game \in Game
  BY DEF BaseInv, TypeInv, TypeOK, ThreadsOK
<1>2. \A j \in Instance : j # i => gameTh'[j] = gameTh[j]
  BY <1>1, GameThreadOwn
<1>3. CASE GameEvent(i)
  <2>1. UNCHANGED <<object, approved, late, ended, cached>>
    BY <1>3 DEF GameEvent, ReceiveGameEvent, PlayerLeft, PlayerJoined, ForgetConnections,
                redis, bus, memory
  <2>2. CASE UNCHANGED gameTh
    BY <1>1, <2>1, <2>2, QuietParts DEF Quiet
  <2>3. ASSUME NEW h \in Game, NEW p \in Player, NEW kind \in Kinds, NEW n \in 0..MaxMoves,
               ReceiveGameEvent(i, h, p, kind, n)
        PROVE  Quiet(g)
    <3>1. gameTh'[i].pc = "act" /\ gameTh'[i].game = h
      BY <1>1, <2>3 DEF ReceiveGameEvent, GameIdle
    <3>2. Working(i, g)' => Receives(i, g)
      BY <2>3, <3>1 DEF Working, Receives, ReceiveGameEvent
    <3>3. QuietHandlers(g)
      BY <1>2, <3>2 DEF QuietHandlers
    <3>4. QED
      BY <1>1, <2>1, <3>3, QuietParts DEF Quiet
  <2>4. QED
    BY <1>3, <2>2, <2>3 DEF GameEvent, PlayerLeft, PlayerJoined, ForgetConnections
<1>4. CASE GameStep(i)
  <2>. DEFINE h == t.game
  <2>1. t.pc # "idle" /\ (Returns(i) \/ gameTh'[i].game = h)
    <3>1. CASE ActStep(i)
      <4>1. t.pc = "act" /\ (PlayedPly(i) \/ Acted(i) \/ Refused(i))
        BY <1>1, <3>1, ActCases
      <4>2. QED
        BY <4>1 DEF PlayedPly, Acted, Refused, GoesOn
    <3>2. CASE \/ BranchOnOutcome(i) \/ EncodeGame(i) \/ SaveMove(i) \/ Approve(i)
               \/ SaveEnd(i) \/ AnnounceEnd(i) \/ RemoveGame(i)
      <4>1. t.pc # "idle"
        BY <3>2 DEF BranchOnOutcome, EncodeGame, SaveMove, Approve, SaveEnd, AnnounceEnd, RemoveGame
      <4>2. QED
        BY <1>1, <3>2, <4>1, StepFields DEF GoesOn
    <3>3. QED
      BY <1>4, <3>1, <3>2 DEF GameStep, ActStep
  <2>2. h \in Game /\ h # g
    BY <1>1, <1>4, <2>1 DEF Working
  <2>3. QuietHandlers(g)
    BY <1>2, <2>1, <2>2 DEF QuietHandlers, Working, Returns
  <2>4. QuietObject(g)
    <3>1. UNCHANGED object \/ \E r : object' = [object EXCEPT ![h] = r]
      <4>1. CASE ActStep(i)
        BY <1>1, <4>1, ActCases DEF PlayedPly, Acted, Refused
      <4>2. CASE BranchOnOutcome(i)
        BY <4>2 DEF BranchOnOutcome
      <4>3. CASE \/ EncodeGame(i) \/ SaveMove(i) \/ Approve(i)
                 \/ SaveEnd(i) \/ AnnounceEnd(i) \/ RemoveGame(i)
        BY <4>3 DEF EncodeGame, SaveMove, Approve, SaveEnd, AnnounceEnd, RemoveGame, memory
      <4>4. QED
        BY <1>4, <4>1, <4>2, <4>3 DEF GameStep, ActStep
    <3>2. QED
      BY <1>1, <2>2, <3>1 DEF QuietObject
  <2>5. QuietBus(g)
    <3>1. CASE UNCHANGED <<approved, late, ended>>
      BY <1>1, <3>1, QuietParts
    <3>2. CASE Approve(i)
      <4>1. UNCHANGED ended /\ (UNCHANGED <<approved, late>> \/ ApproveMove(h, t.ply))
        BY <3>2 DEF Approve
      <4>2. QED
        BY <1>1, <2>2, <4>1 DEF ApproveMove, QuietBus
    <3>3. CASE AnnounceEnd(i)
      <4>1. /\ UNCHANGED <<approved, late>> \/ ApproveMove(h, t.ply)
            /\ UNCHANGED ended \/ \E a : ended' = [ended EXCEPT ![h] = a]
        BY <3>3 DEF AnnounceEnd
      <4>2. approved'[g] = approved[g] /\ late'[g] = late[g] /\ ended'[g] = ended[g]
        BY <1>1, <2>2, <4>1 DEF ApproveMove
      <4>3. QED
        BY <4>2 DEF QuietBus
    <3>4. ActStep(i) => UNCHANGED <<approved, late, ended>>
      BY <1>1, ActCases DEF bus
    <3>5. QED
      BY <1>4, <3>1, <3>2, <3>3, <3>4 DEF GameStep, ActStep, BranchOnOutcome, EncodeGame,
         SaveMove, SaveEnd, RemoveGame, bus
  <2>6. QuietCache(g)
    <3>1. CASE UNCHANGED cached
      BY <1>1, <3>1, QuietParts
    <3>2. CASE SaveMove(i)
      <4>1. UNCHANGED cached \/ \E e : cached' = [cached EXCEPT ![h] = e]
        BY <3>2 DEF SaveMove
      <4>2. QED
        BY <1>1, <2>2, <4>1 DEF QuietCache
    <3>3. CASE SaveEnd(i)
      <4>1. DeactivateInRedis({h}, [x \in {h} |-> t.copy]) \/ UNCHANGED cached
        BY <3>3 DEF SaveEnd, redis
      <4>2. QED
        BY <1>1, <4>1, DeactivateQuiet
    <3>4. ActStep(i) => UNCHANGED cached
      BY <1>1, ActCases DEF redis
    <3>5. QED
      BY <1>4, <3>1, <3>2, <3>3, <3>4 DEF GameStep, ActStep, BranchOnOutcome, EncodeGame,
         Approve, AnnounceEnd, RemoveGame, redis
  <2>7. QED
    BY <2>3, <2>4, <2>5, <2>6 DEF Quiet
<1>5. QED
  BY <1>3, <1>4

LEMMA TickQuiet ==
  ASSUME BaseInv, NEW i \in Instance, NEW g \in Game, TickList(i) \/ TickStep(i)
  PROVE  Quiet(g)
<1>. DEFINE t == tickTh[i]
<1>1. /\ TypeInv /\ tickTh \in [Instance -> TickThread] /\ object \in [Game -> GameRecord]
      /\ ended \in [Game -> SUBSET Announcement]
      /\ t.loser \in [Game -> PlayerOrNone] /\ (t.pc = "left" => t.game \in Game)
      /\ UNCHANGED gameTh
  BY TickThreadOwn DEF BaseInv, TypeInv, TypeOK, ThreadsOK, TickThread
<1>2. CASE UNCHANGED <<object, approved, late, ended, cached>>
  BY <1>1, <1>2, QuietParts DEF Quiet
<1>3. CASE TickForfeit(i)
  <2>1. UNCHANGED <<approved, late, ended, cached>>
    BY <1>3 DEF TickForfeit, bus, redis
  <2>2. /\ t.game \in Game /\ t.loser[t.game] \in PlayerOrNone
        /\ object' = [object EXCEPT ![t.game] = Resigned(object[t.game], t.loser[t.game])]
    BY <1>1, <1>3 DEF TickForfeit
  <2>3. /\ Resigned(object[t.game], t.loser[t.game]).moves = object[t.game].moves
        /\ Resigned(object[t.game], t.loser[t.game]).status = "deactive"
    BY <1>1, <2>2, EndFields
  <2>4. QuietObject(g)
    BY <1>1, <2>2, <2>3 DEF QuietObject
  <2>5. QED
    BY <1>1, <2>1, <2>4, QuietParts DEF Quiet
<1>4. CASE TickSave(i)
  <2>1. UNCHANGED <<object, approved, late, ended>>
    BY <1>4 DEF TickSave, bus, memory
  <2>2. DeactivateInRedis(t.ending, t.copy) \/ UNCHANGED cached
    BY <1>4 DEF TickSave, redis
  <2>3. QED
    BY <1>1, <2>1, <2>2, DeactivateQuiet, QuietParts DEF Quiet
<1>5. CASE TickAnnounce(i)
  <2>1. UNCHANGED <<object, approved, late, cached>>
    BY <1>5 DEF TickAnnounce, memory, redis
  <2>2. PICK sent \in SUBSET t.ending :
           ended' = [h \in Game |-> IF h \in sent
              THEN ended[h] \cup {[by |-> "tick", outcome |-> t.outcome[h]]}
              ELSE ended[h]]
    BY <1>5 DEF TickAnnounce
  <2>3. QuietBus(g)
    BY <2>1, <2>2 DEF QuietBus
  <2>4. QED
    BY <1>1, <2>1, <2>3, QuietParts DEF Quiet
<1>6. QED
  BY <1>2, <1>3, <1>4, <1>5 DEF TickList, TickStep, TickScan, TickCheck, TickEncode, TickRemove,
     redis, bus, memory

LEMMA HttpQuiet ==
  ASSUME BaseInv, NEW i \in Instance, NEW g \in Game,
         HttpStep(i) \/ \E h \in Game, p \in Player : HttpRequest(i, h, p)
  PROVE  Quiet(g)
<1>. DEFINE t == httpTh[i]
<1>1. /\ TypeInv /\ httpTh \in [Instance -> HttpThread] /\ object \in [Game -> GameRecord]
      /\ ended \in [Game -> SUBSET Announcement] /\ t.by \in PlayerOrNone
      /\ (t.pc # "idle" => t.game \in Game)
      /\ UNCHANGED gameTh
  BY HttpThreadOwn DEF BaseInv, TypeInv, TypeOK, ThreadsOK, HttpThread
<1>2. CASE UNCHANGED <<object, approved, late, ended, cached>>
  BY <1>1, <1>2, QuietParts DEF Quiet
<1>3. CASE HttpAct(i)
  <2>1. UNCHANGED <<approved, late, ended, cached>>
    BY <1>3 DEF HttpAct, bus, redis
  <2>2. /\ t.game \in Game
        /\ UNCHANGED object \/ object' = [object EXCEPT ![t.game] = Resigned(object[t.game], t.by)]
    BY <1>1, <1>3 DEF HttpAct
  <2>3. /\ Resigned(object[t.game], t.by).moves = object[t.game].moves
        /\ Resigned(object[t.game], t.by).status = "deactive"
    BY <1>1, <2>2, EndFields
  <2>4. QuietObject(g)
    BY <1>1, <2>2, <2>3 DEF QuietObject
  <2>5. QED
    BY <1>1, <2>1, <2>4, QuietParts DEF Quiet
<1>4. CASE HttpSave(i)
  <2>1. UNCHANGED <<object, approved, late, ended>>
    BY <1>4 DEF HttpSave, bus, memory
  <2>2. DeactivateInRedis({t.game}, [h \in {t.game} |-> t.copy]) \/ UNCHANGED cached
    BY <1>4 DEF HttpSave, redis
  <2>3. QED
    BY <1>1, <2>1, <2>2, DeactivateQuiet, QuietParts DEF Quiet
<1>5. CASE HttpAnnounce(i)
  <2>1. UNCHANGED <<object, approved, late, cached>>
    BY <1>5 DEF HttpAnnounce, memory, redis
  <2>. DEFINE a == [by |-> "http", outcome |-> HttpGame(t).outcome]
  <2>2. t.pc # "idle" /\ (UNCHANGED ended \/ ended' = [ended EXCEPT ![t.game] = @ \cup {a}])
    BY <1>5 DEF HttpAnnounce
  <2>3. a.by = "http"
    OBVIOUS
  <2>. HIDE DEF a
  <2>4. QuietBus(g)
    BY <1>1, <2>1, <2>2, <2>3 DEF QuietBus
  <2>5. QED
    BY <1>1, <2>1, <2>4, QuietParts DEF Quiet
<1>6. QED
  BY <1>2, <1>3, <1>4, <1>5 DEF HttpRequest, HttpStep, HttpLoad, HttpCheck, HttpEncode,
     HttpRemove, redis, bus, memory

\* A step draws the game's id, is the step of its handler, or is quiet for it.
LEMMA OneGameAtATime ==
  ASSUME BaseInv, [Next]_vars, NEW g \in Game
  PROVE  \/ Quiet(g)
         \/ \E i \in Instance : Draws(i, g)
         \/ \E i \in Instance : GameStep(i) /\ Working(i, g)
<1>1. CASE \/ \E m \in Match, p, q \in Player : MatchFound(m, p, q)
           \/ UNCHANGED vars
  <2>1. UNCHANGED <<object, approved, late, ended, cached, gameTh>>
    BY <1>1 DEF MatchFound, vars, memory, bus, redis
  <2>2. QED
    BY <2>1, QuietParts DEF Quiet, BaseInv
<1>2. ASSUME NEW h \in Game, Expire(h) PROVE Quiet(g)
  <2>1. UNCHANGED <<object, approved, late, ended, gameTh>>
    BY <1>2 DEF Expire, memory, bus
  <2>2. QuietCache(g)
    BY <1>2 DEF Expire, Absent, QuietCache, BaseInv, TypeInv, TypeOK
  <2>3. QED
    BY <2>1, <2>2, QuietParts DEF Quiet, BaseInv
<1>3. QED
  BY <1>1, <1>2, MatchQuiet, GameQuiet, TickQuiet, HttpQuiet DEF Next

-----------------------------------------------------------------------------
(* The plies of a game are approved in order *)

Increasing(s) == \A j, k \in DOMAIN s : j < k => s[j] < s[k]

LEMMA AppendIncreasing ==
  ASSUME NEW s \in Seq(Nat), NEW n \in Nat, Increasing(s), \A k \in DOMAIN s : s[k] < n
  PROVE  /\ Increasing(Append(s, n))
         /\ \A k \in DOMAIN Append(s, n) : Append(s, n)[k] <= n
<1>1. /\ Len(s) \in Nat /\ DOMAIN s = 1..Len(s)
      /\ DOMAIN Append(s, n) = 1..(Len(s) + 1)
      /\ Append(s, n)[Len(s) + 1] = n
      /\ \A k \in DOMAIN s : Append(s, n)[k] = s[k] /\ s[k] \in Nat
  OBVIOUS
<1>2. \A k \in DOMAIN Append(s, n) : k \in DOMAIN s \/ k = Len(s) + 1
  BY <1>1
<1>3. \A k \in DOMAIN Append(s, n) : Append(s, n)[k] <= n
  BY <1>1, <1>2
<1>4. ASSUME NEW j \in DOMAIN Append(s, n), NEW k \in DOMAIN Append(s, n), j < k
      PROVE  Append(s, n)[j] < Append(s, n)[k]
  <2>1. j \in DOMAIN s
    BY <1>1, <1>4
  <2>2. QED
    BY <1>1, <1>2, <1>4, <2>1 DEF Increasing
<1>5. QED
  BY <1>3, <1>4 DEF Increasing

\* A move the entity has accepted and no approval has followed yet.
PastAct(i) ==
  /\ gameTh[i].kind = "move"
  /\ gameTh[i].pc \in {"branch", "encodeMove", "saveMove", "approve", "encode", "save", "announce"}

\* What makes ApprovedInOrder inductive: no ply is approved before it is played,
\* and the ply a handler has still to approve is the last one played.
MovesInv(g) ==
  /\ origin[g] = NoMatch => approved[g] = <<>> /\ ended[g] = {} /\ late[g] = 0
  /\ Increasing(approved[g])
  /\ \A k \in DOMAIN approved[g] : approved[g][k] <= object[g].moves
  /\ \A i \in Instance : Working(i, g) =>
       /\ PastAct(i) => /\ gameTh[i].ply = object[g].moves
                        /\ \A k \in DOMAIN approved[g] : approved[g][k] < object[g].moves
       /\ gameTh[i].pc \in {"branch", "encodeMove", "saveMove", "approve"} => gameTh[i].kind = "move"

LEMMA MovesQuiet ==
  ASSUME BaseInv, OwnerInv, GamesKept, NEW g \in Game, MovesInv(g), Quiet(g)
  PROVE  MovesInv(g)'
<1>1. approved'[g] = approved[g] /\ late'[g] = late[g] /\ object'[g].moves = object[g].moves
  BY DEF Quiet, QuietBus, QuietObject
<1>2. origin'[g] = NoMatch => approved'[g] = <<>> /\ ended'[g] = {} /\ late'[g] = 0
  <2>. SUFFICES ASSUME origin'[g] = NoMatch PROVE ended'[g] = {}
    BY <1>1 DEF MovesInv, GamesKept
  <2>1. origin[g] = NoMatch /\ ended[g] = {}
    BY DEF GamesKept, MovesInv
  <2>2. \A i \in Instance : g \notin tickTh[i].ending
    BY <2>1 DEF OwnerInv, Holds, Manages, Ticking
  <2>3. \A i \in Instance : httpTh[i].pc # "idle" => httpTh[i].game # g
    BY <2>1 DEF BaseInv, HttpEnd
  <2>4. QED
    BY <2>1, <2>2, <2>3 DEF Quiet, QuietBus
<1>3. ASSUME NEW i \in Instance, Working(i, g)'
      PROVE  \/ gameTh'[i] = gameTh[i] /\ Working(i, g)
             \/ gameTh'[i].pc = "act"
  BY <1>3 DEF Quiet, QuietHandlers, Working, Receives
<1>4. QED
  BY <1>1, <1>2, <1>3 DEF MovesInv, PastAct

LEMMA MovesDrawn ==
  ASSUME BaseInv, OwnerInv, NEW g \in Game, MovesInv(g), NEW i \in Instance, Draws(i, g)
  PROVE  MovesInv(g)'
<1>1. /\ origin[g] = NoMatch /\ approved'[g] = <<>> /\ ended'[g] = {} /\ late'[g] = 0
      /\ UNCHANGED gameTh
  BY DEF Draws, MovesInv
<1>2. \A j \in Instance : ~Working(j, g)'
  BY <1>1 DEF OwnerInv, Holds, Manages, Working
<1>3. QED
  BY <1>1, <1>2 DEF MovesInv, Increasing

\* The goroutine that works on a game is the only one to do so.
LEMMA OneHandler ==
  ASSUME BaseInv, OwnerInv, NEW i \in Instance, NEW g \in Game, GameStep(i), Working(i, g)
  PROVE  /\ \A j \in Instance : Working(j, g)' => j = i
         /\ \A j \in Instance : ~Starting(j, g) /\ ~Starting(j, g)'
         /\ origin[g] # NoMatch /\ origin'[g] # NoMatch
         /\ UNCHANGED <<tickTh, httpTh>>
<1>1. /\ TypeInv /\ GamesKept /\ gameTh \in [Instance -> GameThread]
  BY GameStepKeeps DEF BaseInv, TypeInv, TypeOK
<1>2. UNCHANGED <<tickTh, httpTh>> /\ \A j \in Instance : j # i => gameTh'[j] = gameTh[j]
  BY <1>1, GameThreadOwn
<1>3. \A j \in Instance : Working(j, g)' => j = i
  BY <1>2 DEF Working, OwnerInv, Holds, Manages
<1>4. origin[g] # NoMatch /\ origin'[g] # NoMatch
  BY <1>1 DEF OwnerInv, Holds, Manages, GamesKept
<1>5. \A j \in Instance : ~Starting(j, g)
  BY DEF OwnerInv, Holds, Manages
<1>6. \A j \in Instance : Starting(j, g)' => Starting(j, g)
  BY <1>1, <1>4, GameHands DEF HandsOn, Draws
<1>7. QED
  BY <1>2, <1>3, <1>4, <1>5, <1>6

LEMMA MovesOwn ==
  ASSUME BaseInv, OwnerInv, NEW g \in Game, MovesInv(g), NEW i \in Instance,
         GameStep(i), Working(i, g)
  PROVE  MovesInv(g)'
<1>. DEFINE t == gameTh[i]
<1>1. /\ TypeInv /\ gameTh \in [Instance -> GameThread] /\ object \in [Game -> GameRecord]
      /\ approved \in [Game -> Seq(Nat)] /\ object[g] \in GameRecord /\ approved[g] \in Seq(Nat)
      /\ t.ply \in Nat /\ object[g].moves \in Nat
      /\ \A k \in DOMAIN approved[g] : approved[g][k] \in Nat
  BY DEF BaseInv, TypeInv, TypeOK, GameThread, GameRecord
<1>2. t.pc # "idle" /\ t.game = g
  BY DEF Working
<1>3. /\ origin'[g] # NoMatch
      /\ \A j \in Instance : Working(j, g)' => j = i
  BY OneHandler
<1>4. ASSUME Increasing(approved'[g]),
             \A k \in DOMAIN approved'[g] : approved'[g][k] <= object'[g].moves,
             PastAct(i)' => /\ gameTh'[i].ply = object'[g].moves
                            /\ \A k \in DOMAIN approved'[g] : approved'[g][k] < object'[g].moves,
             gameTh'[i].pc \in {"branch", "encodeMove", "saveMove", "approve"} => gameTh'[i].kind = "move"
      PROVE  MovesInv(g)'
  BY <1>3, <1>4 DEF MovesInv
<1>5. ASSUME approved'[g] = approved[g], object'[g].moves = object[g].moves,
             \/ gameTh'[i].pc \in {"idle", "remove"}
             \/ /\ gameTh'[i].kind = t.kind /\ gameTh'[i].ply = t.ply
                /\ PastAct(i) /\ PastAct(i)'
             \/ /\ gameTh'[i].kind # "move"
                /\ gameTh'[i].pc \notin {"branch", "encodeMove", "saveMove", "approve"}
      PROVE  MovesInv(g)'
  BY <1>1, <1>2, <1>4, <1>5 DEF MovesInv, Working, PastAct
<1>6. CASE ActStep(i)
  <2>1. /\ t.pc = "act" /\ UNCHANGED approved
        /\ PlayedPly(i) \/ Acted(i) \/ Refused(i)
    BY <1>1, <1>6, ActCases DEF bus
  <2>2. CASE PlayedPly(i)
    <3>1. /\ object'[g].moves = object[g].moves + 1 /\ object'[g].moves = t.ply
          /\ gameTh'[i].ply = t.ply /\ gameTh'[i].kind = "move"
      BY <1>1, <1>2, <2>2 DEF PlayedPly, GoesOn
    <3>2. \A k \in DOMAIN approved[g] :
            approved[g][k] < object[g].moves + 1 /\ approved[g][k] <= object[g].moves + 1
      BY <1>1 DEF MovesInv
    <3>3. QED
      BY <1>4, <2>1, <3>1, <3>2 DEF MovesInv
  <2>3. CASE Acted(i)
    <3>1. object'[g].moves = object[g].moves
      BY <1>1, <1>2, <2>3 DEF Acted
    <3>2. \/ gameTh'[i].pc = "idle"
          \/ gameTh'[i].pc = "encode" /\ gameTh'[i].kind # "move"
      BY <2>3 DEF Acted, Returns, GoesOn
    <3>3. QED
      BY <1>5, <2>1, <3>1, <3>2
  <2>4. CASE Refused(i)
    BY <1>5, <2>1, <2>4 DEF Refused, Returns
  <2>5. QED
    BY <2>1, <2>2, <2>3, <2>4
<1>7. CASE BranchOnOutcome(i)
  <2>1. t.pc = "branch" /\ t.kind = "move" /\ UNCHANGED approved
    BY <1>2, <1>7 DEF BranchOnOutcome, bus, MovesInv, Working
  <2>2. object'[g].moves = object[g].moves
    <3>1. Deactivated(object[g]).moves = object[g].moves
      BY <1>1 DEF Deactivated, GameRecord
    <3>2. QED
      BY <1>1, <1>2, <1>7, <3>1 DEF BranchOnOutcome
  <2>3. /\ gameTh'[i].kind = t.kind /\ gameTh'[i].ply = t.ply
        /\ gameTh'[i].pc \in {"encode", "encodeMove"}
    BY <1>1, <1>7, StepFields DEF GoesOn
  <2>4. PastAct(i) /\ PastAct(i)'
    BY <2>1, <2>3 DEF PastAct
  <2>5. QED
    BY <1>5, <2>1, <2>2, <2>3, <2>4
<1>8. CASE EncodeGame(i) \/ SaveMove(i) \/ SaveEnd(i) \/ RemoveGame(i)
  <2>1. UNCHANGED <<approved, object>>
    BY <1>8 DEF EncodeGame, SaveMove, SaveEnd, RemoveGame, bus, memory
  <2>2. /\ t.pc = "remove" => t.kind = "resign" \/ Returns(i)
        /\ \/ Returns(i)
           \/ \E pc \in {"save", "saveMove", "approve", "remove", "announce"} : GoesOn(i, pc)
        /\ t.pc \in {"encode", "encodeMove", "saveMove", "save", "remove"}
        /\ t.pc \in {"encode", "save", "remove"} => ~GoesOn(i, "saveMove") /\ ~GoesOn(i, "approve")
    <3>1. CASE EncodeGame(i)
      BY <1>1, <3>1, StepFields DEF EncodeGame, GoesOn
    <3>2. CASE SaveMove(i)
      BY <1>1, <3>2, StepFields DEF SaveMove, GoesOn
    <3>3. CASE SaveEnd(i)
      BY <1>1, <3>3, StepFields DEF SaveEnd, GoesOn, Returns
    <3>4. CASE RemoveGame(i)
      BY <1>1, <3>4, StepFields DEF RemoveGame, GoesOn, Returns
    <3>5. QED
      BY <1>8, <3>1, <3>2, <3>3, <3>4
  <2>3. t.pc \in {"encodeMove", "saveMove"} => t.kind = "move"
    BY <1>2 DEF MovesInv, Working
  <2>4. CASE Returns(i)
    BY <1>5, <2>1, <2>4 DEF Returns
  <2>5. CASE t.kind = "move"
    BY <1>5, <2>1, <2>2, <2>5 DEF PastAct, GoesOn, Returns
  <2>6. CASE t.kind # "move"
    BY <1>5, <2>1, <2>2, <2>3, <2>6 DEF GoesOn, Returns
  <2>7. QED
    BY <2>5, <2>6
<1>9. CASE Approve(i) \/ AnnounceEnd(i)
  <2>1. UNCHANGED object /\ (Returns(i) \/ GoesOn(i, "remove"))
    BY <1>1, <1>9, StepFields DEF Approve, AnnounceEnd, memory
  <2>2. /\ t.pc \in {"approve", "announce"}
        /\ t.pc = "approve" => t.kind = "move"
        /\ UNCHANGED approved \/ (t.kind = "move" /\ approved' = [approved EXCEPT ![g] = Append(@, t.ply)])
    BY <1>2, <1>9 DEF Approve, AnnounceEnd, ApproveMove, MovesInv, Working
  <2>3. gameTh'[i].pc \in {"idle", "remove"}
    BY <2>1 DEF Returns, GoesOn
  <2>4. CASE UNCHANGED approved
    BY <1>5, <2>1, <2>3, <2>4
  <2>5. CASE t.kind = "move" /\ approved' = [approved EXCEPT ![g] = Append(@, t.ply)]
    <3>1. t.ply = object[g].moves /\ \A k \in DOMAIN approved[g] : approved[g][k] < t.ply
      BY <1>2, <2>2, <2>5 DEF MovesInv, Working, PastAct
    <3>2. approved'[g] = Append(approved[g], t.ply)
      BY <1>1, <2>5
    <3>3. /\ Increasing(approved'[g])
          /\ \A k \in DOMAIN approved'[g] : approved'[g][k] <= t.ply
      BY <1>1, <3>1, <3>2, AppendIncreasing DEF MovesInv
    <3>4. QED
      BY <1>4, <2>1, <2>3, <3>1, <3>3 DEF PastAct
  <2>6. QED
    BY <2>2, <2>4, <2>5
<1>10. QED
  BY <1>6, <1>7, <1>8, <1>9 DEF GameStep, ActStep

LEMMA InitMoves == Init => \A g \in Game : MovesInv(g)
BY DEF Init, MovesInv, Increasing, Working, GameIdle

\* The facts every later invariant starts from.
LifeInv == BaseInv /\ CopiesInv /\ OwnerInv /\ \A g \in Game : MovesInv(g)

LEMMA InitLife == Init => LifeInv
BY BaseInit, InitCopies, InitOwner, InitMoves DEF LifeInv

LEMMA NextLife == LifeInv /\ [Next]_vars => LifeInv'
<1>. SUFFICES ASSUME LifeInv, [Next]_vars PROVE LifeInv'
  OBVIOUS
<1>1. GamesKept
  BY NextKeeps DEF LifeInv, BaseInv
<1>2. ASSUME NEW g \in Game PROVE MovesInv(g)'
  BY <1>1, OneGameAtATime, MovesQuiet, MovesDrawn, MovesOwn DEF LifeInv
<1>3. QED
  BY <1>2, BaseNext, NextCopies, NextOwner DEF LifeInv

\* The game.moveApproved events of a game carry strictly increasing indexes, on
\* any number of instances, whatever fails or restarts: a ply is approved by the
\* one handler that played it, before the next one is played.
THEOREM ApprovedInOrderHolds == Spec => []ApprovedInOrder
<1>1. Spec => []LifeInv
  BY InitLife, NextLife, PTL DEF Spec
<1>2. LifeInv => ApprovedInOrder
  BY DEF LifeInv, MovesInv, Increasing, ApprovedInOrder
<1>3. QED
  BY <1>1, <1>2, PTL

-----------------------------------------------------------------------------
(* The end of a game is in Redis before its handler announces it *)

EndedBy(g, who) == \E a \in ended[g] : a.by = who

\* What makes HandlerEndRecorded inductive: a handler that is still to write a
\* running game saw no result, so its game's end is not announced; one that is
\* to announce the end has written it.
RecordedInv(g) ==
  /\ EndedBy(g, "game") => object[g].outcome # "none" /\ cached[g].kept # "forever"
  /\ \A i \in Instance :
       /\ Starting(i, g) => ~EndedBy(g, "game")
       /\ Working(i, g) =>
            /\ gameTh[i].pc \in {"encodeMove", "saveMove"} => ~EndedBy(g, "game")
            /\ \/ gameTh[i].pc = "announce"
               \/ gameTh[i].pc = "remove" /\ gameTh[i].kind = "resign"
               => cached[g].kept # "forever"

LEMMA RecordedQuiet ==
  ASSUME LifeInv, GamesKept, NEW g \in Game, RecordedInv(g), Quiet(g),
         \A i \in Instance : HandsOn(i, g)
  PROVE  RecordedInv(g)'
<1>1. EndedBy(g, "game")' <=> EndedBy(g, "game")
  BY DEF Quiet, QuietBus, EndedBy
<1>2. EndedBy(g, "game") => origin[g] # NoMatch
  BY DEF LifeInv, MovesInv, EndedBy
<1>3. EndedBy(g, "game") => object'[g].outcome # "none" /\ cached'[g].kept # "forever"
  BY <1>2 DEF GamesKept, Keeps, Quiet, QuietCache, RecordedInv
<1>4. ASSUME NEW i \in Instance PROVE Starting(i, g)' => ~EndedBy(g, "game")
  BY <1>2 DEF HandsOn, Draws, RecordedInv
<1>5. ASSUME NEW i \in Instance, Working(i, g)', gameTh'[i].pc # "act"
      PROVE  gameTh'[i] = gameTh[i] /\ Working(i, g) /\ \A j \in Instance : ~Starting(j, g)
  BY <1>5 DEF Quiet, QuietHandlers, Working, Receives, LifeInv, OwnerInv, Holds, Manages
<1>6. QED
  BY <1>1, <1>3, <1>4, <1>5 DEF RecordedInv, Quiet, QuietCache

LEMMA RecordedDrawn ==
  ASSUME LifeInv, NEW g \in Game, NEW i \in Instance, Draws(i, g)
  PROVE  RecordedInv(g)'
<1>1. ended'[g] = {} /\ UNCHANGED gameTh /\ origin[g] = NoMatch
  BY DEF Draws, LifeInv, MovesInv
<1>2. \A j \in Instance : ~Working(j, g)'
  BY <1>1 DEF LifeInv, OwnerInv, Holds, Manages, Working
<1>3. QED
  BY <1>1, <1>2 DEF RecordedInv, EndedBy

LEMMA RecordedOwn ==
  ASSUME LifeInv, NEW g \in Game, RecordedInv(g), NEW i \in Instance,
         GameStep(i), Working(i, g)
  PROVE  RecordedInv(g)'
<1>. DEFINE t == gameTh[i]  u == gameTh'[i]
<1>1. /\ BaseInv /\ TypeInv /\ OwnerInv /\ GamesKept /\ object \in [Game -> GameRecord]
      /\ cached \in [Game -> CacheEntry] /\ ended \in [Game -> SUBSET Announcement]
  BY GameStepKeeps DEF LifeInv, BaseInv, TypeInv, TypeOK
<1>2. t.pc # "idle" /\ t.game = g
  BY DEF Working
<1>3. /\ \A j \in Instance : Working(j, g)' => j = i
      /\ \A j \in Instance : ~Starting(j, g)'
      /\ origin[g] # NoMatch
  BY <1>1, OneHandler
<1>4. object[g].outcome # "none" => object'[g].outcome # "none"
  BY <1>1, <1>3 DEF GamesKept, Keeps
<1>5. ASSUME EndedBy(g, "game")' => object'[g].outcome # "none" /\ cached'[g].kept # "forever",
             u.pc \in {"encodeMove", "saveMove"} => ~EndedBy(g, "game")',
             u.pc = "announce" \/ (u.pc = "remove" /\ u.kind = "resign") => cached'[g].kept # "forever"
      PROVE  RecordedInv(g)'
  BY <1>3, <1>5 DEF RecordedInv
<1>6. ASSUME UNCHANGED <<cached, ended>>,
             u.pc \in {"encodeMove", "saveMove"} => ~EndedBy(g, "game"),
             u.pc = "announce" \/ (u.pc = "remove" /\ u.kind = "resign") =>
               t.pc = "announce" \/ (t.pc = "remove" /\ t.kind = "resign")
      PROVE  RecordedInv(g)'
  <2>1. EndedBy(g, "game")' <=> EndedBy(g, "game")
    BY <1>6 DEF EndedBy
  <2>2. QED
    BY <1>2, <1>4, <1>5, <1>6, <2>1 DEF RecordedInv, Working
<1>7. CASE ActStep(i)
  <2>1. UNCHANGED <<cached, ended>> /\ u.pc \in {"idle", "branch", "encode"}
    BY <1>1, <1>7, ActCases DEF bus, redis, PlayedPly, Acted, Refused, GoesOn, Returns
  <2>2. QED
    BY <1>6, <2>1
<1>8. CASE BranchOnOutcome(i)
  <2>1. UNCHANGED <<cached, ended>>
    BY <1>8 DEF BranchOnOutcome, bus, redis
  <2>2. IF object[g].outcome # "none" THEN u.pc = "encode" ELSE u.pc = "encodeMove"
    BY <1>1, <1>2, <1>8, StepFields DEF GoesOn
  <2>3. QED
    BY <1>6, <2>1, <2>2 DEF RecordedInv
<1>9. CASE EncodeGame(i)
  <2>1. UNCHANGED <<cached, ended>>
    BY <1>9 DEF EncodeGame, bus, redis
  <2>2. u.pc = "save" \/ (u.pc = "saveMove" /\ t.pc = "encodeMove")
    BY <1>1, <1>9, StepFields DEF GoesOn
  <2>3. QED
    BY <1>2, <1>6, <2>1, <2>2 DEF RecordedInv, Working
<1>10. CASE SaveMove(i)
  <2>1. UNCHANGED ended /\ t.pc = "saveMove"
    BY <1>10 DEF SaveMove, bus
  <2>2. ~EndedBy(g, "game")'
    BY <1>2, <2>1 DEF RecordedInv, Working, EndedBy
  <2>3. u.pc \in {"approve", "idle"}
    BY <1>1, <1>10, StepFields DEF GoesOn, Returns
  <2>4. QED
    BY <1>5, <2>2, <2>3
<1>11. CASE Approve(i)
  <2>1. UNCHANGED <<cached, ended>> /\ u.pc = "idle"
    BY <1>1, <1>11, StepFields DEF Approve, redis, Returns
  <2>2. QED
    BY <1>6, <2>1
<1>12. CASE SaveEnd(i)
  <2>1. UNCHANGED <<ended, object>>
    BY <1>12 DEF SaveEnd, bus, memory
  <2>2. EndedBy(g, "game")' <=> EndedBy(g, "game")
    BY <2>1 DEF EndedBy
  <2>3. \/ UNCHANGED cached /\ u.pc = "idle"
        \/ cached'[g].kept = "ttl"
    <3>1. PICK ok \in BOOLEAN, applied \in BOOLEAN :
             /\ RedisReply(ok, applied)
             /\ IF applied THEN DeactivateInRedis({t.game}, [x \in {t.game} |-> t.copy])
                           ELSE UNCHANGED redis
             /\ ~ok => gameTh' = [gameTh EXCEPT ![i] = GameIdle]
      BY <1>12 DEF SaveEnd
    <3>2. CASE applied
      BY <1>1, <1>2, <3>1, <3>2 DEF DeactivateInRedis
    <3>3. CASE ~applied
      BY <1>1, <3>1, <3>3 DEF RedisReply, redis, GameIdle, TypeInv, TypeOK
    <3>4. QED
      BY <3>2, <3>3
  <2>4. u.pc \in {"idle", "remove", "announce"}
    BY <1>1, <1>12, StepFields DEF GoesOn, Returns
  <2>5. QED
    BY <1>5, <2>1, <2>2, <2>3, <2>4 DEF RecordedInv
<1>13. CASE AnnounceEnd(i)
  <2>1. UNCHANGED <<cached, object>> /\ t.pc = "announce"
    BY <1>13 DEF AnnounceEnd, redis, memory
  <2>2. object[g].outcome # "none" /\ cached[g].kept # "forever"
    BY <1>1, <1>2, <2>1 DEF BaseInv, GameEnd, GameEnding, RecordedInv, Working
  <2>3. u.pc = "idle" \/ (u.pc = "remove" /\ u.kind # "resign")
    BY <1>1, <1>13, StepFields DEF GoesOn, Returns
  <2>4. QED
    BY <1>5, <2>1, <2>2, <2>3
<1>14. CASE RemoveGame(i)
  <2>1. UNCHANGED <<cached, ended>> /\ t.pc = "remove"
    BY <1>14 DEF RemoveGame, redis, bus
  <2>2. u.pc = "idle" \/ (u.pc = "announce" /\ t.kind = "resign")
    BY <1>1, <1>14, StepFields DEF GoesOn, Returns
  <2>3. QED
    BY <1>6, <2>1, <2>2
<1>15. QED
  BY <1>7, <1>8, <1>9, <1>10, <1>11, <1>12, <1>13, <1>14 DEF GameStep, ActStep

LEMMA InitRecorded == Init => \A g \in Game : RecordedInv(g)
BY DEF Init, RecordedInv, EndedBy, Working, Starting, GameIdle, MatchIdle

LEMMA NextRecorded ==
  LifeInv /\ (\A g \in Game : RecordedInv(g)) /\ [Next]_vars => (\A g \in Game : RecordedInv(g))'
<1>. SUFFICES ASSUME LifeInv, \A g \in Game : RecordedInv(g), [Next]_vars, NEW g \in Game
              PROVE  RecordedInv(g)'
  OBVIOUS
<1>1. GamesKept /\ \A i \in Instance : HandsOn(i, g)
  BY NextKeeps, NextHands DEF LifeInv, BaseInv
<1>2. QED
  BY <1>1, OneGameAtATime, RecordedQuiet, RecordedDrawn, RecordedOwn DEF LifeInv

\* Once a handler has announced the end of a game, Redis never holds the game
\* without its expiry again: neither a late move nor another goroutine revives
\* it, whichever calls fail and whichever instances restart.
THEOREM HandlerEndRecordedHolds == Spec => []HandlerEndRecorded
<1>. DEFINE Inv == LifeInv /\ \A g \in Game : RecordedInv(g)
<1>1. Init => Inv
  BY InitLife, InitRecorded
<1>2. Inv /\ [Next]_vars => Inv'
  BY NextLife, NextRecorded
<1>3. Inv => HandlerEndRecorded
  BY DEF RecordedInv, EndedBy, HandlerEndRecorded
<1>4. QED
  BY <1>1, <1>2, <1>3, PTL DEF Spec

-----------------------------------------------------------------------------
(* Which action writes which variable *)

\* A goroutine's record changes in its own steps and when its instance stops;
\* a game comes into memory from the match subscription.
LEMMA WhoseStep ==
  ASSUME TypeInv, [Next]_vars, NEW i \in Instance
  PROVE  /\ matchTh'[i] = matchTh[i] \/ MatchStep(i) \/ Crash(i)
         /\ gameTh'[i] = gameTh[i] \/ GameEvent(i) \/ GameStep(i) \/ Crash(i)
         /\ tickTh'[i] = tickTh[i] \/ TickList(i) \/ TickStep(i) \/ Crash(i)
         /\ \/ httpTh'[i] = httpTh[i] \/ HttpStep(i) \/ Crash(i)
            \/ \E h \in Game, p \in Player : HttpRequest(i, h, p)
<1>1. /\ matchTh \in [Instance -> MatchThread] /\ gameTh \in [Instance -> GameThread]
      /\ tickTh \in [Instance -> TickThread] /\ httpTh \in [Instance -> HttpThread]
  BY DEF TypeInv, TypeOK
<1>. DEFINE Kept == /\ matchTh'[i] = matchTh[i] /\ gameTh'[i] = gameTh[i]
                    /\ tickTh'[i] = tickTh[i] /\ httpTh'[i] = httpTh[i]
<1>2. CASE \/ \E m \in Match, p, q \in Player : MatchFound(m, p, q)
           \/ \E h \in Game : Expire(h)
           \/ UNCHANGED vars
  BY <1>2 DEF MatchFound, Expire, vars
<1>3. ASSUME NEW j \in Instance, Crash(j), j # i PROVE Kept
  BY <1>1, <1>3 DEF Crash
<1>4. ASSUME NEW j \in Instance, MatchStep(j) PROVE UNCHANGED <<gameTh, tickTh, httpTh>>
  BY <1>4 DEF MatchStep, ReceiveMatch, CacheNewGame, ManageGame, PublishCreated
<1>5. ASSUME NEW j \in Instance, MatchStep(j), j # i PROVE matchTh'[i] = matchTh[i]
  BY <1>1, <1>5 DEF MatchStep, ReceiveMatch, CacheNewGame, ManageGame, PublishCreated
<1>6. ASSUME NEW j \in Instance, GameEvent(j) \/ GameStep(j)
      PROVE  UNCHANGED <<matchTh, tickTh, httpTh>> /\ (j # i => gameTh'[i] = gameTh[i])
  <2>1. UNCHANGED <<tickTh, httpTh>> /\ (j # i => gameTh'[i] = gameTh[i])
    BY <1>1, <1>6, GameThreadOwn
  <2>2. CASE GameEvent(j)
    BY <2>1, <2>2 DEF GameEvent, ReceiveGameEvent, PlayerLeft, PlayerJoined, ForgetConnections
  <2>3. CASE ActStep(j)
    BY <2>1, <2>3, ActCases
  <2>4. QED
    BY <1>6, <2>1, <2>2, <2>3 DEF GameStep, ActStep, BranchOnOutcome, EncodeGame, SaveMove, Approve,
       SaveEnd, AnnounceEnd, RemoveGame
<1>7. ASSUME NEW j \in Instance, TickList(j) \/ TickStep(j)
      PROVE  UNCHANGED <<matchTh, gameTh, httpTh>> /\ (j # i => tickTh'[i] = tickTh[i])
  BY <1>1, <1>7, TickThreadOwn DEF TickList, TickStep, TickScan, TickCheck, TickForfeit, TickEncode,
     TickSave, TickAnnounce, TickRemove
<1>8. ASSUME NEW j \in Instance, HttpStep(j) \/ \E h \in Game, p \in Player : HttpRequest(j, h, p)
      PROVE  UNCHANGED <<matchTh, gameTh, tickTh>> /\ (j # i => httpTh'[i] = httpTh[i])
  BY <1>1, <1>8, HttpThreadOwn DEF HttpStep, HttpRequest, HttpLoad, HttpCheck, HttpAct, HttpEncode,
     HttpSave, HttpRemove, HttpAnnounce
<1>9. QED
  BY <1>2, <1>3, <1>4, <1>5, <1>6, <1>7, <1>8 DEF Next

\* A handler's place changes in its own steps, and when its instance stops.
LEMMA WorkStays ==
  ASSUME TypeInv, [Next]_vars, NEW g, NEW i \in Instance, Working(i, g), ~GameStep(i)
  PROVE  gameTh'[i] = gameTh[i] \/ games'[i] = {}
<1>1. ASSUME GameEvent(i) PROVE gameTh'[i] = gameTh[i]
  BY <1>1 DEF Working, GameEvent, ReceiveGameEvent, PlayerLeft, PlayerJoined, ForgetConnections
<1>2. ASSUME Crash(i) PROVE games'[i] = {}
  BY <1>2 DEF Crash, TypeInv, TypeOK
<1>3. QED
  BY <1>1, <1>2, WhoseStep

LEMMA GamesGrow ==
  ASSUME TypeInv, [Next]_vars, NEW i \in Instance, NEW g \in games'[i]
  PROVE  g \in games[i] \/ (Starting(i, g) /\ ManageGame(i))
<1>1. games \in [Instance -> SUBSET Game]
  BY DEF TypeInv, TypeOK
<1>2. CASE ManageGame(i)
  <2>1. games'[i] = games[i] \cup {matchTh[i].game} /\ matchTh[i].pc = "manage"
    BY <1>1, <1>2 DEF ManageGame
  <2>2. QED
    BY <1>2, <2>1 DEF Starting
<1>3. ASSUME NEW m \in Match, ReceiveMatch(i, m)
      PROVE  g \in games[i]
  BY <1>3 DEF ReceiveMatch
<1>4. QED
  BY <1>2, <1>3, OnlyMatchAddsGames DEF NoGameAdded

\* The end of a game is announced by its handler, by the ticker that ended it,
\* or by a request.
LEMMA WhoAnnounces ==
  ASSUME TypeInv, [Next]_vars, NEW g \in Game
  PROVE  /\ EndedBy(g, "game")' =>
              EndedBy(g, "game") \/ \E i \in Instance : AnnounceEnd(i) /\ Working(i, g)
         /\ EndedBy(g, "tick")' =>
              EndedBy(g, "tick") \/ \E i \in Instance : TickAnnounce(i) /\ g \in tickTh[i].ending
<1>1. ended \in [Game -> SUBSET Announcement] /\ \A i \in Instance : gameTh[i].pc # "idle" => gameTh[i].game \in Game
  BY DEF TypeInv, TypeOK, ThreadsOK
<1>2. ASSUME UNCHANGED ended
      PROVE  /\ EndedBy(g, "game")' => EndedBy(g, "game")
             /\ EndedBy(g, "tick")' => EndedBy(g, "tick")
  BY <1>2 DEF EndedBy
<1>3. ASSUME NEW i \in Instance, AnnounceEnd(i)
      PROVE  /\ EndedBy(g, "game")' => EndedBy(g, "game") \/ Working(i, g)
             /\ EndedBy(g, "tick")' => EndedBy(g, "tick")
  <2>. DEFINE a == [by |-> "game", outcome |-> object[gameTh[i].game].outcome]
  <2>1. a.by = "game"
    OBVIOUS
  <2>2. gameTh[i].pc # "idle" /\ (ended' = [ended EXCEPT ![gameTh[i].game] = @ \cup {a}] \/ UNCHANGED ended)
    BY <1>3 DEF AnnounceEnd
  <2>. HIDE DEF a
  <2>3. QED
    BY <1>1, <1>2, <2>1, <2>2 DEF EndedBy, Working
<1>4. ASSUME NEW i \in Instance, HttpAnnounce(i)
      PROVE  /\ EndedBy(g, "game")' => EndedBy(g, "game")
             /\ EndedBy(g, "tick")' => EndedBy(g, "tick")
  <2>. DEFINE a == [by |-> "http", outcome |-> HttpGame(httpTh[i]).outcome]
  <2>1. a.by = "http"
    OBVIOUS
  <2>2. ended' = [ended EXCEPT ![httpTh[i].game] = @ \cup {a}] \/ UNCHANGED ended
    BY <1>4 DEF HttpAnnounce
  <2>. HIDE DEF a
  <2>3. QED
    BY <1>1, <1>2, <2>1, <2>2 DEF EndedBy
<1>5. ASSUME NEW i \in Instance, TickAnnounce(i)
      PROVE  /\ EndedBy(g, "game")' => EndedBy(g, "game")
             /\ EndedBy(g, "tick")' => EndedBy(g, "tick") \/ g \in tickTh[i].ending
  <2>1. PICK sent \in SUBSET tickTh[i].ending :
           ended' = [h \in Game |-> IF h \in sent
              THEN ended[h] \cup {[by |-> "tick", outcome |-> tickTh[i].outcome[h]]}
              ELSE ended[h]]
    BY <1>5 DEF TickAnnounce
  <2>2. QED
    BY <2>1 DEF EndedBy
<1>6. ASSUME NEW i \in Instance, GameStep(i)
      PROVE  AnnounceEnd(i) \/ UNCHANGED ended
  <2>1. CASE ActStep(i)
    BY <2>1, ActCases DEF bus
  <2>2. QED
    BY <1>6, <2>1 DEF GameStep, ActStep, BranchOnOutcome, EncodeGame, SaveMove, Approve, SaveEnd,
       RemoveGame, bus
<1>7. ASSUME NEW i \in Instance, TickList(i) \/ TickStep(i)
      PROVE  TickAnnounce(i) \/ UNCHANGED ended
  BY <1>7 DEF TickList, TickStep, TickScan, TickCheck, TickForfeit, TickEncode, TickSave,
              TickRemove, bus
<1>8. ASSUME NEW i \in Instance,
             HttpStep(i) \/ \E h \in Game, p \in Player : HttpRequest(i, h, p)
      PROVE  HttpAnnounce(i) \/ UNCHANGED ended
  BY <1>8 DEF HttpRequest, HttpStep, HttpLoad, HttpCheck, HttpAct, HttpEncode, HttpSave,
              HttpRemove, bus
<1>9. ASSUME NEW i \in Instance, MatchStep(i) \/ GameEvent(i) \/ Crash(i)
      PROVE  UNCHANGED ended
  BY <1>9 DEF MatchStep, ReceiveMatch, CacheNewGame, ManageGame, PublishCreated, GameEvent,
              ReceiveGameEvent, PlayerLeft, PlayerJoined, ForgetConnections, Crash, bus
<1>10. CASE \/ \E m \in Match, p, q \in Player : MatchFound(m, p, q)
            \/ \E h \in Game : Expire(h)
            \/ UNCHANGED vars
  BY <1>2, <1>10 DEF MatchFound, Expire, vars, bus
<1>11. QED
  BY <1>2, <1>3, <1>4, <1>5, <1>6, <1>7, <1>8, <1>9, <1>10 DEF Next

-----------------------------------------------------------------------------
(* The end of a game is announced once *)

\* A game whose handler has announced its end is only left for that handler to
\* drop, and a resigned game is dropped before it is announced.
GameOnceInv(g) ==
  \A i \in Instance :
    /\ EndedBy(g, "game") =>
         /\ ~Starting(i, g)
         /\ g \in games[i] \/ Working(i, g) =>
              Working(i, g) /\ gameTh[i].pc = "remove" /\ gameTh[i].kind # "resign"
    /\ Working(i, g) /\ gameTh[i].pc = "announce" /\ gameTh[i].kind = "resign" => g \notin games[i]

LEMMA GameOnceOther ==
  ASSUME LifeInv, NEW g \in Game, GameOnceInv(g), [Next]_vars,
         Quiet(g) \/ (\E i \in Instance : Draws(i, g)),
         \A i \in Instance : ~(GameStep(i) /\ Working(i, g))
  PROVE  GameOnceInv(g)'
<1>1. /\ TypeInv /\ BaseInv /\ OwnerInv /\ games \in [Instance -> SUBSET Game]
      /\ gameTh \in [Instance -> GameThread]
  BY DEF LifeInv, BaseInv, TypeInv, TypeOK
<1>2. EndedBy(g, "game")' => EndedBy(g, "game")
  <2>1. ASSUME NEW i \in Instance, AnnounceEnd(i), Working(i, g) PROVE FALSE
    BY <2>1 DEF GameStep
  <2>2. QED
    BY <1>1, <2>1, WhoAnnounces
<1>. SUFFICES ASSUME NEW i \in Instance
              PROVE  /\ EndedBy(g, "game") =>
                          /\ ~Starting(i, g)'
                          /\ g \in games'[i] \/ Working(i, g)' =>
                               /\ Working(i, g)' /\ gameTh'[i].pc = "remove"
                               /\ gameTh'[i].kind # "resign"
                     /\ Working(i, g)' /\ gameTh'[i].pc = "announce" /\ gameTh'[i].kind = "resign"
                          => g \notin games'[i]
  BY <1>2 DEF GameOnceInv
<1>3. Working(i, g)' => \/ gameTh'[i] = gameTh[i] /\ Working(i, g)
                        \/ /\ gameTh'[i].pc = "act" /\ gameTh[i].pc = "idle" /\ g \in games[i]
  BY DEF Quiet, QuietHandlers, Receives, Draws, Working
<1>4. g \in games'[i] => g \in games[i] \/ Starting(i, g)
  BY <1>1, GamesGrow
<1>5. Working(i, g) => gameTh'[i] = gameTh[i] \/ games'[i] = {}
  BY <1>1, WorkStays
<1>6. ASSUME EndedBy(g, "game")
      PROVE  /\ ~Starting(i, g)'
             /\ g \in games'[i] \/ Working(i, g)' =>
                  Working(i, g)' /\ gameTh'[i].pc = "remove" /\ gameTh'[i].kind # "resign"
  <2>1. origin[g] # NoMatch /\ ~Starting(i, g)
    BY <1>6 DEF LifeInv, MovesInv, EndedBy, GameOnceInv
  <2>2. ~Starting(i, g)'
    BY <1>1, <2>1, NextHands DEF HandsOn, Draws, LifeInv
  <2>3. Working(i, g)' => gameTh'[i] = gameTh[i] /\ Working(i, g)
    BY <1>3, <1>6 DEF GameOnceInv, Working
  <2>4. g \in games'[i] => Working(i, g) /\ gameTh'[i] = gameTh[i]
    BY <1>4, <1>5, <1>6, <2>1 DEF GameOnceInv
  <2>5. QED
    BY <1>6, <2>2, <2>3, <2>4 DEF GameOnceInv, Working
<1>7. ASSUME Working(i, g)', gameTh'[i].pc = "announce", gameTh'[i].kind = "resign"
      PROVE  g \notin games'[i]
  <2>1. Working(i, g) /\ gameTh'[i] = gameTh[i]
    BY <1>3, <1>7
  <2>2. ~Starting(i, g)
    BY <1>1, <2>1 DEF OwnerInv, Manages
  <2>3. QED
    BY <1>4, <1>7, <2>1, <2>2 DEF GameOnceInv
<1>8. QED
  BY <1>6, <1>7

LEMMA GameOnceOwn ==
  ASSUME LifeInv, NEW g \in Game, GameOnceInv(g), [Next]_vars, ~PublishMayFail,
         NEW i \in Instance, GameStep(i), Working(i, g)
  PROVE  GameOnceInv(g)'
<1>. DEFINE t == gameTh[i]  u == gameTh'[i]
<1>1. /\ TypeInv /\ BaseInv /\ OwnerInv /\ games \in [Instance -> SUBSET Game]
      /\ gameTh \in [Instance -> GameThread] /\ t \in GameThread /\ t.game = g /\ t.pc # "idle"
  BY DEF LifeInv, BaseInv, TypeInv, TypeOK, Working
<1>2. /\ \A j \in Instance : Working(j, g)' => j = i
      /\ \A j \in Instance : ~Starting(j, g) /\ ~Starting(j, g)'
  BY <1>1, OneHandler
<1>3. \A j \in Instance : g \in games'[j] => j = i /\ g \in games[i]
  <2>1. ASSUME NEW j \in Instance, g \in games'[j] PROVE g \in games[j]
    BY <1>1, <1>2, <2>1, GamesGrow
  <2>2. QED
    BY <1>1, <2>1 DEF OwnerInv, Holds, Manages
<1>4. ASSUME EndedBy(g, "game")' => u.pc \in {"idle", "remove"},
             EndedBy(g, "game")' /\ u.pc = "remove" => Working(i, g)' /\ u.kind # "resign",
             EndedBy(g, "game")' /\ u.pc = "idle" => g \notin games'[i],
             u.pc = "announce" /\ u.kind = "resign" => g \notin games'[i]
      PROVE  GameOnceInv(g)'
  BY <1>2, <1>3, <1>4 DEF GameOnceInv, Working
<1>5. CASE RemoveGame(i)
  <2>1. g \notin games'[i]
    BY <1>1, <1>5 DEF RemoveGame
  <2>2. EndedBy(g, "game")' => EndedBy(g, "game")
    BY <1>5 DEF RemoveGame, bus, EndedBy
  <2>3. EndedBy(g, "game") => t.kind # "resign"
    BY DEF GameOnceInv
  <2>4. \/ t.kind # "resign" /\ u.pc = "idle"
        \/ t.kind = "resign" /\ u.pc = "announce"
    BY <1>1, <1>5, StepFields DEF Returns, GoesOn
  <2>5. QED
    BY <1>4, <2>1, <2>2, <2>3, <2>4
<1>6. CASE AnnounceEnd(i)
  <2>1. t.pc = "announce" /\ UNCHANGED games
    BY <1>6 DEF AnnounceEnd, memory
  <2>2. IF t.kind # "resign" THEN GoesOn(i, "remove") ELSE u.pc = "idle"
    <3>1. PICK ok \in BOOLEAN : /\ ok
                                /\ gameTh' = [gameTh EXCEPT ![i] =
                                     IF ok /\ t.kind # "resign" THEN [@ EXCEPT !.pc = "remove"] ELSE GameIdle]
      BY <1>6 DEF AnnounceEnd, PublishReply
    <3>2. QED
      BY <1>1, <3>1 DEF GoesOn, GameIdle, GameThread
  <2>3. t.kind = "resign" => g \notin games'[i]
    BY <2>1 DEF GameOnceInv
  <2>4. QED
    BY <1>1, <1>4, <2>2, <2>3 DEF GoesOn, Working
<1>7. CASE ~RemoveGame(i) /\ ~AnnounceEnd(i)
  <2>1. t.pc # "remove"
    <3>1. CASE ActStep(i)
      BY <1>1, <3>1, ActCases
    <3>2. QED
      BY <1>7, <3>1 DEF GameStep, ActStep, BranchOnOutcome, EncodeGame, SaveMove, Approve, SaveEnd
  <2>2. ~EndedBy(g, "game")
    BY <2>1 DEF GameOnceInv
  <2>3. ~EndedBy(g, "game")'
    <3>1. ASSUME NEW j \in Instance, AnnounceEnd(j), Working(j, g) PROVE FALSE
      BY <1>1, <1>7, <3>1 DEF OwnerInv, Holds, Manages
    <3>2. QED
      BY <1>1, <2>2, <3>1, WhoAnnounces
  <2>4. u.pc = "announce" => u.kind # "resign"
    <3>1. CASE ActStep(i)
      BY <1>1, <3>1, ActCases DEF PlayedPly, Acted, Refused, Returns, GoesOn
    <3>2. CASE ~ActStep(i)
      BY <1>1, <1>7, <3>2, StepFields DEF GameStep, ActStep, Returns, GoesOn
    <3>3. QED
      BY <3>1, <3>2
  <2>5. QED
    BY <1>4, <2>3, <2>4
<1>8. QED
  BY <1>5, <1>6, <1>7

\* A ticker that writes, announces or drops has been through its whole snapshot,
\* and a game whose end it announced is only left for it to drop.
TickShape(i) ==
  /\ tickTh[i].pc \in {"save", "announce", "remove"} => tickTh[i].list = {}
  /\ tickTh[i].pc = "idle" => tickTh[i].list = {} /\ tickTh[i].ending = {}
TickOnceInv(g) ==
  EndedBy(g, "tick") => \A i \in Instance :
    /\ ~Starting(i, g)
    /\ g \in games[i] \/ Ticking(i, g) => tickTh[i].pc = "remove" /\ g \in tickTh[i].ending

\* What one step of the ticker does to its place, its snapshot and its games.
LEMMA TickFields ==
  ASSUME TypeInv, NEW i \in Instance, TickShape(i), TickList(i) \/ TickStep(i)
  PROVE  LET t == tickTh[i]  u == tickTh'[i] IN
         \/ /\ TickList(i) /\ u.pc = "scan" /\ u.list = games[i] /\ u.ending = {} /\ t.pc = "idle"
         \/ /\ t.pc \in {"scan", "loop"} /\ u.pc \in {"loop", "left"}
            /\ u.list \subseteq t.list /\ u.ending = t.ending
            /\ u.pc = "left" => u.game \in t.list
         \/ /\ TickForfeit(i) /\ t.pc = "left" /\ u.pc = "loop"
            /\ u.list = t.list /\ u.ending = t.ending \cup {t.game}
         \/ /\ TickEncode(i) /\ t.pc = "loop" /\ t.list = {}
            /\ \/ u.pc = "idle" /\ u.list = {} /\ u.ending = {}
               \/ u.pc = "save" /\ u.list = {} /\ u.ending = t.ending
         \/ /\ TickSave(i) /\ t.pc = "save" /\ u.pc = "announce" /\ u.list = {} /\ u.ending = t.ending
         \/ /\ TickAnnounce(i) /\ t.pc = "announce" /\ u.pc = "remove" /\ u.list = {} /\ u.ending = t.ending
         \/ /\ TickRemove(i) /\ t.pc = "remove" /\ u.pc = "idle" /\ u.list = {} /\ u.ending = {}
            /\ games'[i] = games[i] \ t.ending
<1>. DEFINE t == tickTh[i]  u == tickTh'[i]
<1>1. /\ games \in [Instance -> SUBSET Game] /\ tickTh \in [Instance -> TickThread]
      /\ t \in TickThread
  BY DEF TypeInv, TypeOK
<1>2. TickIdle.list = {} /\ TickIdle.ending = {} /\ TickIdle.pc = "idle"
  BY DEF TickIdle
<1>3. CASE TickList(i)
  BY <1>1, <1>3 DEF TickList, TickIdle
<1>4. ASSUME NEW due \in SUBSET Game, TickScan(i, due)
      PROVE  /\ t.pc = "scan" /\ u.pc = "loop"
             /\ u.list \subseteq t.list /\ u.ending = t.ending
  BY <1>1, <1>4 DEF TickScan, TickThread
<1>5. ASSUME NEW h \in Game, TickCheck(i, h)
      PROVE  /\ t.pc = "loop" /\ u.pc \in {"loop", "left"}
             /\ u.list \subseteq t.list /\ u.ending = t.ending
             /\ u.pc = "left" => u.game \in t.list
  BY <1>1, <1>5 DEF TickCheck, TickThread
<1>6. CASE TickForfeit(i)
  BY <1>1, <1>6 DEF TickForfeit, TickThread
<1>7. CASE TickEncode(i)
  BY <1>1, <1>2, <1>7 DEF TickEncode, TickThread
<1>8. CASE TickSave(i) \/ TickAnnounce(i)
  <2>1. t.list = {}
    BY <1>8 DEF TickShape, TickSave, TickAnnounce
  <2>2. CASE TickSave(i)
    BY <1>1, <2>1, <2>2 DEF TickSave, TickThread
  <2>3. CASE TickAnnounce(i)
    BY <1>1, <2>1, <2>3 DEF TickAnnounce, TickThread
  <2>4. QED
    BY <1>8, <2>2, <2>3
<1>9. CASE TickRemove(i)
  BY <1>1, <1>2, <1>9 DEF TickRemove
<1>10. QED
  BY <1>3, <1>4, <1>5, <1>6, <1>7, <1>8, <1>9 DEF TickStep

LEMMA NextTickShape ==
  ASSUME TypeInv, [Next]_vars, NEW i \in Instance, TickShape(i)
  PROVE  TickShape(i)'
<1>1. CASE tickTh'[i] = tickTh[i]
  BY <1>1 DEF TickShape
<1>2. CASE Crash(i)
  BY <1>2 DEF Crash, TickIdle, TickShape, TypeInv, TypeOK
<1>3. CASE TickList(i) \/ TickStep(i)
  BY <1>3, TickFields DEF TickShape
<1>4. QED
  BY <1>1, <1>2, <1>3, WhoseStep

LEMMA NextTickOnce ==
  ASSUME LifeInv, [Next]_vars, NEW g \in Game, TickOnceInv(g), \A i \in Instance : TickShape(i)
  PROVE  TickOnceInv(g)'
<1>1. /\ TypeInv /\ BaseInv /\ OwnerInv /\ CopiesInv /\ games \in [Instance -> SUBSET Game]
      /\ tickTh \in [Instance -> TickThread]
  BY DEF LifeInv, BaseInv, TypeInv, TypeOK
<1>2. ASSUME NEW i \in Instance, TickAnnounce(i), g \in tickTh[i].ending
      PROVE  TickOnceInv(g)'
  <2>1. TickStep(i) /\ UNCHANGED <<games, matchTh>> /\ \A j \in Instance : j # i => tickTh'[j] = tickTh[j]
    BY <1>1, <1>2, TickThreadOwn DEF TickStep, TickAnnounce, memory
  <2>2. tickTh'[i].pc = "remove" /\ g \in tickTh'[i].ending
    BY <1>1, <1>2, <2>1 DEF TickAnnounce, TickThread
  <2>3. ASSUME NEW j \in Instance PROVE ~Starting(j, g) /\ (g \in games[j] \/ Ticking(j, g) => j = i)
    BY <1>1, <1>2 DEF OwnerInv, Holds, Manages, Ticking
  <2>4. ASSUME NEW j \in Instance
        PROVE  /\ ~Starting(j, g)'
               /\ g \in games'[j] \/ Ticking(j, g)' => tickTh'[j].pc = "remove" /\ g \in tickTh'[j].ending
    BY <2>1, <2>2, <2>3 DEF Starting, Ticking
  <2>5. QED
    BY <2>4 DEF TickOnceInv
<1>3. ASSUME EndedBy(g, "tick"), NEW i \in Instance
      PROVE  /\ ~Starting(i, g)'
             /\ g \in games'[i] \/ Ticking(i, g)' =>
                  tickTh'[i].pc = "remove" /\ g \in tickTh'[i].ending
  <2>1. origin[g] # NoMatch /\ ~Starting(i, g)
    BY <1>3 DEF LifeInv, MovesInv, EndedBy, TickOnceInv
  <2>2. ~Starting(i, g)'
    BY <1>1, <2>1, NextHands DEF HandsOn, Draws
  <2>3. g \in games'[i] => g \in games[i]
    BY <1>1, <2>1, GamesGrow
  <2>4. CASE tickTh'[i] = tickTh[i]
    BY <1>3, <2>2, <2>3, <2>4 DEF TickOnceInv, Ticking
  <2>5. CASE Crash(i)
    BY <1>1, <2>2, <2>5 DEF Crash, TickIdle, Ticking
  <2>6. CASE TickList(i) \/ TickStep(i)
    BY <1>1, <1>3, <2>2, <2>3, <2>6, TickFields DEF TickOnceInv, Ticking
  <2>7. QED
    BY <1>1, <2>4, <2>5, <2>6, WhoseStep
<1>4. QED
  BY <1>1, <1>2, <1>3, WhoAnnounces DEF TickOnceInv

-----------------------------------------------------------------------------
(* At most one ply is approved after the end was announced *)

\* A game that is over stays over.
LEMMA StaysOver ==
  ASSUME LifeInv, [Next]_vars, NEW g \in Game, origin[g] # NoMatch
  PROVE  /\ object[g].status = "deactive" => object'[g].status = "deactive"
         /\ object[g].outcome # "none" => object'[g].outcome # "none"
<1>1. /\ TypeInv /\ BaseInv /\ OwnerInv /\ GamesKept /\ object \in [Game -> GameRecord]
      /\ object[g] \in GameRecord
  BY NextKeeps DEF LifeInv, BaseInv, TypeInv, TypeOK
<1>2. ASSUME NEW i \in Instance, GameStep(i), Working(i, g), object[g].status = "deactive"
      PROVE  object'[g].status = "deactive"
  <2>1. gameTh[i].game = g
    BY <1>2 DEF Working
  <2>2. CASE ActStep(i)
    BY <1>1, <1>2, <2>1, <2>2, ActCases DEF PlayedPly, Acted, Refused
  <2>3. CASE BranchOnOutcome(i)
    <3>1. Deactivated(object[g]).status = "deactive"
      BY <1>1 DEF Deactivated, GameRecord
    <3>2. QED
      BY <1>1, <1>2, <2>1, <2>3, <3>1 DEF BranchOnOutcome
  <2>4. CASE ~ActStep(i) /\ ~BranchOnOutcome(i)
    BY <1>2, <2>4 DEF GameStep, ActStep, EncodeGame, SaveMove, Approve, SaveEnd, AnnounceEnd,
       RemoveGame, memory
  <2>5. QED
    BY <2>2, <2>3, <2>4
<1>3. object[g].status = "deactive" => object'[g].status = "deactive"
  BY <1>1, <1>2, OneGameAtATime DEF Quiet, QuietObject, Draws
<1>4. QED
  BY <1>1, <1>3 DEF GamesKept, Keeps

\* What the ticker is ending it has ended in the object.
TickOver(g) ==
  \A i \in Instance : g \in tickTh[i].ending =>
    object[g].status = "deactive" /\ object[g].outcome # "none"

LEMMA NextTickOver ==
  ASSUME LifeInv, [Next]_vars, NEW g \in Game, TickOver(g), \A i \in Instance : TickShape(i)
  PROVE  TickOver(g)'
<1>1. /\ TypeInv /\ OwnerInv /\ object \in [Game -> GameRecord] /\ tickTh \in [Instance -> TickThread]
  BY DEF LifeInv, BaseInv, TypeInv, TypeOK
<1>. SUFFICES ASSUME NEW i \in Instance, g \in tickTh'[i].ending
              PROVE  object'[g].status = "deactive" /\ object'[g].outcome # "none"
  BY DEF TickOver
<1>2. CASE g \in tickTh[i].ending
  BY <1>1, <1>2, StaysOver DEF TickOver, OwnerInv, Holds, Manages, Ticking
<1>3. CASE TickForfeit(i) /\ tickTh[i].game = g
  <2>. DEFINE t == tickTh[i]  r == Resigned(object[g], t.loser[g])
  <2>1. t.loser[g] \in PlayerOrNone
    BY <1>1 DEF TickThread
  <2>2. r.status = "deactive" /\ r.outcome # "none"
    BY <1>1, <2>1, EndFields, ResignedType
  <2>3. object' = [object EXCEPT ![g] = r]
    BY <1>3 DEF TickForfeit
  <2>4. QED
    BY <1>1, <2>2, <2>3
<1>4. CASE g \notin tickTh[i].ending
  <2>1. ~Crash(i)
    BY <1>1 DEF Crash, TickIdle
  <2>2. TickList(i) \/ TickStep(i)
    BY <1>1, <1>4, <2>1, WhoseStep
  <2>3. TickForfeit(i) /\ tickTh[i].game = g
    BY <1>1, <1>4, <2>2, TickFields
  <2>4. QED
    BY <1>3, <2>3
<1>5. QED
  BY <1>2, <1>4

\* A move on its way through the handler.
InFlight(i) ==
  /\ gameTh[i].kind = "move"
  /\ gameTh[i].pc \in {"act", "branch", "encodeMove", "saveMove", "approve", "encode", "save",
                       "announce"}

\* What makes AtMostOneLateMove inductive: who announces an end has deactivated
\* the game, so a move in flight then was the last to pass the status check.
LateInv(g) ==
  /\ ended[g] # {} => object[g].outcome # "none"
  /\ late[g] <= 1
  /\ late[g] # 0 => /\ origin[g] # NoMatch /\ object[g].status = "deactive"
                    /\ \A i \in Instance : Working(i, g) => ~InFlight(i)
  /\ \A i \in Instance : Working(i, g) =>
       /\ gameTh[i].pc \in {"encodeMove", "saveMove", "approve"} /\ ended[g] # {}
            => object[g].status = "deactive"
       /\ gameTh[i].kind = "move" /\ gameTh[i].pc \in {"encode", "save", "announce"}
            => object[g].status = "deactive"

LEMMA LateQuiet ==
  ASSUME LifeInv, [Next]_vars, NEW g \in Game, LateInv(g), TickOver(g), Quiet(g),
         \A i \in Instance : httpTh[i].pc = "idle"
  PROVE  LateInv(g)'
<1>1. /\ GamesKept /\ OwnerInv /\ BaseInv /\ TypeInv /\ late'[g] = late[g]
  BY NextKeeps DEF LifeInv, BaseInv, Quiet, QuietBus
<1>2. ended'[g] # {} =>
        \/ ended[g] # {}
        \/ /\ origin[g] # NoMatch
           /\ object[g].status = "deactive" /\ object[g].outcome # "none"
  <2>1. \A a \in ended'[g] : a \in ended[g] \/ \E i \in Instance : g \in tickTh[i].ending
    BY DEF Quiet, QuietBus
  <2>2. QED
    BY <1>1, <2>1 DEF TickOver, OwnerInv, Holds, Manages, Ticking
<1>3. ended[g] # {} => origin[g] # NoMatch
  BY DEF LifeInv, MovesInv
<1>4. ended'[g] # {} => object'[g].outcome # "none"
  BY <1>2, <1>3, StaysOver DEF LateInv
<1>5. ASSUME NEW i \in Instance, Working(i, g)'
      PROVE  \/ gameTh'[i] = gameTh[i] /\ Working(i, g) /\ origin[g] # NoMatch
             \/ /\ gameTh'[i].pc = "act" /\ object[g].status = "active"
                /\ ended'[g] = ended[g] /\ object'[g] = object[g]
  BY <1>1, <1>5 DEF Quiet, QuietHandlers, Working, Receives, OwnerInv, Holds, Manages, bus, memory
<1>6. late'[g] # 0 => /\ origin'[g] # NoMatch /\ object'[g].status = "deactive"
                      /\ \A i \in Instance : Working(i, g)' => ~InFlight(i)'
  <2>. SUFFICES ASSUME late[g] # 0
                PROVE  /\ origin'[g] # NoMatch /\ object'[g].status = "deactive"
                       /\ \A i \in Instance : Working(i, g)' => ~InFlight(i)'
    BY <1>1
  <2>1. /\ origin[g] # NoMatch /\ object[g].status = "deactive"
        /\ \A i \in Instance : Working(i, g) => ~InFlight(i)
    BY DEF LateInv
  <2>2. \A i \in Instance : Working(i, g)' => ~InFlight(i)'
    BY <1>5, <2>1 DEF InFlight
  <2>3. origin'[g] # NoMatch
    BY <1>1, <2>1 DEF GamesKept
  <2>4. QED
    BY <2>1, <2>2, <2>3, StaysOver
<1>7. ASSUME NEW i \in Instance, Working(i, g)'
      PROVE  /\ gameTh'[i].pc \in {"encodeMove", "saveMove", "approve"} /\ ended'[g] # {}
                  => object'[g].status = "deactive"
             /\ gameTh'[i].kind = "move" /\ gameTh'[i].pc \in {"encode", "save", "announce"}
                  => object'[g].status = "deactive"
  BY <1>2, <1>5, <1>7, StaysOver DEF LateInv
<1>8. QED
  BY <1>1, <1>4, <1>6, <1>7 DEF LateInv

LEMMA LateDrawn ==
  ASSUME LifeInv, NEW g \in Game, NEW i \in Instance, Draws(i, g)
  PROVE  LateInv(g)'
<1>1. ended'[g] = {} /\ late'[g] = 0 /\ UNCHANGED gameTh /\ origin[g] = NoMatch
  BY DEF Draws, LifeInv, MovesInv
<1>2. \A j \in Instance : ~Working(j, g)'
  BY <1>1 DEF LifeInv, OwnerInv, Holds, Manages, Working
<1>3. QED
  BY <1>1, <1>2 DEF LateInv

LEMMA LateOwn ==
  ASSUME LifeInv, [Next]_vars, NEW g \in Game, LateInv(g), NEW i \in Instance,
         GameStep(i), Working(i, g)
  PROVE  LateInv(g)'
<1>. DEFINE t == gameTh[i]  u == gameTh'[i]
<1>1. /\ TypeInv /\ BaseInv /\ OwnerInv /\ object \in [Game -> GameRecord]
      /\ object[g] \in GameRecord /\ late \in [Game -> Nat]
      /\ ended \in [Game -> SUBSET Announcement]
      /\ t.pc # "idle" /\ t.game = g
  BY DEF LifeInv, BaseInv, TypeInv, TypeOK, Working
<1>2. /\ \A j \in Instance : Working(j, g)' => j = i
      /\ origin[g] # NoMatch /\ origin'[g] # NoMatch
  BY <1>1, OneHandler
<1>3. /\ object[g].status = "deactive" => object'[g].status = "deactive"
      /\ object[g].outcome # "none" => object'[g].outcome # "none"
  BY <1>2, StaysOver
<1>4. t.pc \in {"encodeMove", "saveMove", "approve"} => t.kind = "move"
  BY DEF LifeInv, MovesInv
<1>5. ASSUME ended'[g] # {} => object'[g].outcome # "none",
             late'[g] <= 1,
             late'[g] # 0 => object'[g].status = "deactive" /\ ~InFlight(i)',
             u.pc \in {"encodeMove", "saveMove", "approve"} /\ ended'[g] # {}
               => object'[g].status = "deactive",
             u.kind = "move" /\ u.pc \in {"encode", "save", "announce"}
               => object'[g].status = "deactive"
      PROVE  LateInv(g)'
  BY <1>2, <1>5 DEF LateInv
<1>6. ASSUME UNCHANGED <<ended, late>>,
             InFlight(i)' => InFlight(i),
             u.pc \in {"encodeMove", "saveMove", "approve"} /\ ended[g] # {} =>
               object'[g].status = "deactive",
             u.kind = "move" /\ u.pc \in {"encode", "save", "announce"} =>
               object'[g].status = "deactive"
      PROVE  LateInv(g)'
  BY <1>3, <1>5, <1>6 DEF LateInv
<1>7. CASE ActStep(i)
  <2>1. UNCHANGED <<ended, late>> /\ t.pc = "act"
    BY <1>1, <1>7, ActCases DEF bus
  <2>2. \/ u.pc = "idle"
        \/ u.pc = "branch" /\ t.kind = "move"
        \/ u.pc = "encode" /\ u.kind = t.kind /\ t.kind # "move"
    BY <1>1, <1>7, ActCases DEF PlayedPly, Acted, Refused, GoesOn, Returns
  <2>3. InFlight(i)' => InFlight(i)
    BY <2>1, <2>2 DEF InFlight
  <2>4. QED
    BY <1>6, <2>1, <2>2, <2>3
<1>8. CASE BranchOnOutcome(i)
  <2>1. UNCHANGED <<ended, late>> /\ t.pc = "branch"
    BY <1>8 DEF BranchOnOutcome, bus
  <2>2. IF object[g].outcome # "none" THEN GoesOn(i, "encode") ELSE GoesOn(i, "encodeMove")
    BY <1>1, <1>8, StepFields
  <2>3. object[g].outcome # "none" => object'[g].status = "deactive"
    <3>1. Deactivated(object[g]).status = "deactive"
      BY <1>1 DEF Deactivated, GameRecord
    <3>2. QED
      BY <1>1, <1>8, <3>1 DEF BranchOnOutcome
  <2>4. ended[g] # {} => object[g].outcome # "none"
    BY DEF LateInv
  <2>5. InFlight(i)' => InFlight(i)
    BY <2>1, <2>2 DEF InFlight, GoesOn
  <2>6. QED
    BY <1>6, <2>1, <2>2, <2>3, <2>4, <2>5 DEF GoesOn
<1>9. CASE EncodeGame(i) \/ SaveMove(i) \/ SaveEnd(i) \/ RemoveGame(i)
  <2>1. UNCHANGED <<ended, late, object>>
    BY <1>9 DEF EncodeGame, SaveMove, SaveEnd, RemoveGame, bus, memory
  <2>2. \/ u.pc \in {"idle", "remove"}
        \/ t.kind # "move" /\ u.kind = t.kind /\ u.pc \notin {"encodeMove", "saveMove", "approve"}
        \/ /\ u.kind = t.kind
           /\ \/ t.pc = "encode" /\ u.pc = "save"
              \/ t.pc \in {"encodeMove", "saveMove"} /\ u.pc \in {"saveMove", "approve"}
              \/ t.pc = "save" /\ u.pc = "announce"
    <3>1. CASE EncodeGame(i)
      BY <1>1, <3>1, StepFields DEF GoesOn
    <3>2. CASE SaveMove(i)
      BY <1>1, <3>2, StepFields DEF SaveMove, GoesOn, Returns
    <3>3. CASE SaveEnd(i)
      BY <1>1, <3>3, StepFields DEF SaveEnd, GoesOn, Returns
    <3>4. CASE RemoveGame(i)
      BY <1>1, <3>4, StepFields DEF GoesOn, Returns
    <3>5. QED
      BY <1>9, <3>1, <3>2, <3>3, <3>4
  <2>3. InFlight(i)' => InFlight(i)
    BY <2>2 DEF InFlight
  <2>4. QED
    BY <1>6, <2>1, <2>2, <2>3 DEF LateInv
<1>10. CASE Approve(i)
  <2>1. UNCHANGED <<ended, object>> /\ t.pc = "approve" /\ u.pc = "idle"
    BY <1>1, <1>10, StepFields DEF Approve, memory, Returns
  <2>2. late[g] = 0
    BY <1>4, <2>1 DEF LateInv, InFlight
  <2>3. late'[g] \in {0, 1} /\ (late'[g] # 0 => ended[g] # {})
    BY <1>1, <1>10, <2>2 DEF Approve, ApproveMove
  <2>4. QED
    BY <1>5, <2>1, <2>3 DEF LateInv, InFlight
<1>11. CASE AnnounceEnd(i)
  <2>1. UNCHANGED object /\ t.pc = "announce" /\ u.pc \in {"idle", "remove"}
    BY <1>1, <1>11, StepFields DEF AnnounceEnd, memory, Returns, GoesOn
  <2>2. object[g].outcome # "none"
    BY <1>1, <2>1 DEF BaseInv, GameEnd, GameEnding
  <2>3. CASE t.kind = "move"
    <3>1. late[g] = 0 /\ object[g].status = "deactive"
      BY <2>1, <2>3 DEF LateInv, InFlight
    <3>2. late'[g] \in {0, 1}
      BY <1>1, <1>11, <3>1 DEF AnnounceEnd, ApproveMove
    <3>3. QED
      BY <1>5, <2>1, <2>2, <3>1, <3>2 DEF InFlight
  <2>4. CASE t.kind # "move"
    <3>1. late'[g] = late[g]
      BY <1>11, <2>4 DEF AnnounceEnd
    <3>2. QED
      BY <1>5, <2>1, <2>2, <3>1 DEF LateInv, InFlight
  <2>5. QED
    BY <2>3, <2>4
<1>12. QED
  BY <1>7, <1>8, <1>9, <1>10, <1>11 DEF GameStep, ActStep

-----------------------------------------------------------------------------
(* When nothing fails every ply is approved *)

\* The plies of a game are approved without a gap: what its object has played
\* is approved, but for the ply that a handler is still to approve.
Unapproved(i, g) == Working(i, g) /\ PastAct(i)
GaplessInv(g) ==
  /\ \A k \in DOMAIN approved[g] : approved[g][k] = k
  /\ \A i \in Instance :
       /\ Unapproved(i, g) => object[g].moves = Len(approved[g]) + 1
       /\ ~Unapproved(i, g) /\ (Starting(i, g) \/ g \in games[i] \/ Working(i, g)) =>
            object[g].moves = Len(approved[g])

LEMMA GaplessOther ==
  ASSUME LifeInv, NEW g \in Game, GaplessInv(g), [Next]_vars,
         Quiet(g) \/ (\E i \in Instance : Draws(i, g)),
         \A i \in Instance : ~(GameStep(i) /\ Working(i, g))
  PROVE  GaplessInv(g)'
<1>1. /\ TypeInv /\ BaseInv /\ OwnerInv /\ CopiesInv
      /\ object \in [Game -> GameRecord] /\ approved[g] \in Seq(Nat)
  BY DEF LifeInv, BaseInv, TypeInv, TypeOK
<1>2. ASSUME NEW j \in Instance, Draws(j, g)
      PROVE  GaplessInv(g)'
  <2>1. /\ origin[g] = NoMatch /\ approved'[g] = <<>> /\ UNCHANGED gameTh
    BY <1>2 DEF Draws, LifeInv, MovesInv
  <2>2. object'[g].moves = 0
    BY <1>1, <1>2 DEF Draws, NewGame
  <2>3. \A i \in Instance : ~Working(i, g)'
    BY <1>1, <2>1 DEF OwnerInv, Holds, Manages, Working
  <2>4. QED
    BY <2>1, <2>2, <2>3 DEF GaplessInv, Unapproved
<1>3. CASE Quiet(g) /\ ~(\E i \in Instance : Draws(i, g))
  <2>1. approved'[g] = approved[g] /\ object'[g].moves = object[g].moves
    BY <1>3 DEF Quiet, QuietBus, QuietObject
  <2>. SUFFICES ASSUME NEW i \in Instance
                PROVE  /\ Unapproved(i, g)' => Unapproved(i, g)
                       /\ ~Unapproved(i, g)' /\ (Starting(i, g) \/ g \in games[i] \/ Working(i, g))' =>
                            ~Unapproved(i, g) /\ (Starting(i, g) \/ g \in games[i] \/ Working(i, g))
    BY <2>1 DEF GaplessInv
  <2>2. Working(i, g)' => \/ gameTh'[i] = gameTh[i] /\ Working(i, g)
                          \/ gameTh'[i].pc = "act" /\ g \in games[i]
    BY <1>3 DEF Quiet, QuietHandlers, Receives, Working
  <2>3. Unapproved(i, g)' => Unapproved(i, g)
    BY <2>2 DEF Unapproved, PastAct
  <2>4. /\ g \in games'[i] => g \in games[i] \/ Starting(i, g)
        /\ Starting(i, g)' => Starting(i, g)
    BY <1>1, <1>3, GamesGrow, NextHands DEF HandsOn
  <2>5. ASSUME Unapproved(i, g), ~Unapproved(i, g)'
        PROVE  ~Starting(i, g)' /\ g \notin games'[i] /\ ~Working(i, g)'
    <3>1. Working(i, g) /\ ~Starting(i, g)
      BY <1>1, <2>5 DEF Unapproved, OwnerInv, Manages
    <3>2. gameTh'[i] # gameTh[i]
      BY <2>5 DEF Unapproved, Working, PastAct
    <3>3. games'[i] = {} /\ gameTh[i].pc # "idle"
      BY <1>1, <3>1, <3>2, WorkStays DEF Working
    <3>4. ~Working(i, g)'
      BY <1>3, <3>2, <3>3 DEF Quiet, QuietHandlers, Receives
    <3>5. QED
      BY <2>4, <3>1, <3>3, <3>4
  <2>6. QED
    BY <2>2, <2>3, <2>4, <2>5
<1>4. QED
  BY <1>2, <1>3

LEMMA GaplessOwn ==
  ASSUME LifeInv, NEW g \in Game, GaplessInv(g), [Next]_vars, ~RedisMayFail, ~PublishMayFail,
         NEW i \in Instance, GameStep(i), Working(i, g)
  PROVE  GaplessInv(g)'
<1>. DEFINE t == gameTh[i]  u == gameTh'[i]
<1>1. /\ TypeInv /\ BaseInv /\ OwnerInv /\ gameTh \in [Instance -> GameThread]
      /\ object \in [Game -> GameRecord] /\ object[g].moves \in Nat
      /\ approved \in [Game -> Seq(Nat)] /\ approved[g] \in Seq(Nat)
      /\ t \in GameThread /\ t.game = g /\ t.pc # "idle"
  BY DEF LifeInv, BaseInv, TypeInv, TypeOK, Working, GameRecord
<1>2. /\ \A j \in Instance : Working(j, g)' => j = i
      /\ \A j \in Instance : ~Starting(j, g)'
      /\ \A j \in Instance : g \in games'[j] => j = i
  <2>1. /\ \A j \in Instance : Working(j, g)' => j = i
        /\ \A j \in Instance : ~Starting(j, g) /\ ~Starting(j, g)'
    BY <1>1, OneHandler
  <2>2. ASSUME NEW j \in Instance, g \in games'[j] PROVE g \in games[j]
    BY <1>1, <2>1, <2>2, GamesGrow
  <2>3. QED
    BY <1>1, <2>1, <2>2 DEF OwnerInv, Holds, Manages
<1>3. ASSUME \A k \in DOMAIN approved'[g] : approved'[g][k] = k,
             u.pc # "idle" /\ PastAct(i)' => object'[g].moves = Len(approved'[g]) + 1,
             ~(u.pc # "idle" /\ PastAct(i)') => object'[g].moves = Len(approved'[g]),
             u.pc # "idle" => u.game = g
      PROVE  GaplessInv(g)'
  BY <1>2, <1>3 DEF GaplessInv, Unapproved, Working, PastAct
<1>4. /\ \A k \in DOMAIN approved[g] : approved[g][k] = k
      /\ PastAct(i) => object[g].moves = Len(approved[g]) + 1 /\ t.ply = object[g].moves
      /\ ~PastAct(i) => object[g].moves = Len(approved[g])
      /\ t.pc \in {"branch", "encodeMove", "saveMove", "approve"} => t.kind = "move"
  BY DEF GaplessInv, Unapproved, LifeInv, MovesInv
<1>5. ASSUME approved'[g] = approved[g], object'[g].moves = object[g].moves,
             u.pc # "idle" => u.game = g, u.pc # "idle" /\ PastAct(i)' <=> PastAct(i)
      PROVE  GaplessInv(g)'
  BY <1>3, <1>4, <1>5
<1>6. CASE ActStep(i)
  <2>1. /\ t.pc = "act" /\ UNCHANGED approved /\ ~PastAct(i)
        /\ PlayedPly(i) \/ Acted(i) \/ Refused(i)
    BY <1>1, <1>6, ActCases DEF bus, PastAct
  <2>2. CASE PlayedPly(i)
    <3>1. /\ object'[g].moves = object[g].moves + 1
          /\ u.kind = "move" /\ u.pc = "branch" /\ u.game = g
      BY <1>1, <2>2 DEF PlayedPly, GoesOn
    <3>2. QED
      BY <1>3, <1>4, <2>1, <3>1 DEF PastAct
  <2>3. CASE Acted(i)
    <3>1. object'[g].moves = object[g].moves
      BY <1>1, <2>3 DEF Acted
    <3>2. \/ u.pc = "idle"
          \/ u.pc = "encode" /\ u.kind # "move" /\ u.game = g
      BY <1>1, <2>3 DEF Acted, Returns, GoesOn
    <3>3. QED
      BY <1>5, <2>1, <3>1, <3>2 DEF PastAct
  <2>4. CASE Refused(i)
    BY <1>5, <2>1, <2>4 DEF Refused, Returns
  <2>5. QED
    BY <2>1, <2>2, <2>3, <2>4
<1>7. CASE BranchOnOutcome(i)
  <2>1. t.pc = "branch" /\ t.kind = "move" /\ UNCHANGED approved
    BY <1>4, <1>7 DEF BranchOnOutcome, bus
  <2>2. object'[g].moves = object[g].moves
    <3>1. Deactivated(object[g]).moves = object[g].moves
      BY <1>1 DEF Deactivated, GameRecord
    <3>2. QED
      BY <1>1, <1>7, <3>1 DEF BranchOnOutcome
  <2>3. u.kind = t.kind /\ u.game = g /\ u.pc \in {"encode", "encodeMove"}
    BY <1>1, <1>7, StepFields DEF GoesOn
  <2>4. QED
    BY <1>5, <2>1, <2>2, <2>3 DEF PastAct
<1>8. CASE EncodeGame(i) \/ SaveMove(i) \/ SaveEnd(i) \/ RemoveGame(i)
  <2>1. UNCHANGED <<approved, object>>
    BY <1>8 DEF EncodeGame, SaveMove, SaveEnd, RemoveGame, bus, memory
  <2>2. CASE EncodeGame(i)
    <3>1. \/ t.pc = "encode" /\ u.pc = "save"
          \/ t.pc = "encodeMove" /\ u.pc = "saveMove"
      BY <1>1, <2>2, StepFields DEF GoesOn
    <3>2. u.kind = t.kind /\ u.game = g
      BY <1>1, <2>2, StepFields DEF GoesOn
    <3>3. QED
      BY <1>5, <2>1, <3>1, <3>2 DEF PastAct
  <2>3. CASE SaveMove(i)
    <3>1. t.pc = "saveMove" /\ u.pc = "approve" /\ u.kind = t.kind /\ u.game = g
      BY <1>1, <2>3 DEF SaveMove, RedisReply, GameThread
    <3>2. QED
      BY <1>5, <2>1, <3>1 DEF PastAct
  <2>4. CASE SaveEnd(i)
    <3>1. /\ t.pc = "save" /\ u.kind = t.kind /\ u.game = g
          /\ u.pc = IF t.kind = "resign" THEN "remove" ELSE "announce"
      BY <1>1, <2>4 DEF SaveEnd, RedisReply, GameThread
    <3>2. QED
      BY <1>5, <2>1, <3>1 DEF PastAct
  <2>5. CASE RemoveGame(i)
    <3>1. t.pc = "remove" /\ ~PastAct(i)
      BY <2>5 DEF RemoveGame, PastAct
    <3>2. \/ u.pc = "idle"
          \/ u.kind = "resign" /\ u.game = g
      BY <1>1, <2>5, StepFields DEF Returns, GoesOn
    <3>3. QED
      BY <1>5, <2>1, <3>1, <3>2 DEF PastAct
  <2>6. QED
    BY <1>8, <2>2, <2>3, <2>4, <2>5
<1>9. CASE Approve(i) \/ AnnounceEnd(i)
  <2>1. /\ UNCHANGED object /\ t.pc \in {"approve", "announce"}
        /\ u.pc = "idle" \/ (u.pc = "remove" /\ u.game = g)
    BY <1>1, <1>9, StepFields DEF Approve, AnnounceEnd, memory, Returns, GoesOn
  <2>2. IF t.kind = "move" THEN approved' = [approved EXCEPT ![g] = Append(@, t.ply)]
                           ELSE UNCHANGED approved
    BY <1>1, <1>4, <1>9 DEF Approve, AnnounceEnd, ApproveMove, PublishReply
  <2>3. CASE t.kind # "move"
    <3>1. ~PastAct(i) /\ approved'[g] = approved[g]
      BY <2>2, <2>3 DEF PastAct
    <3>2. QED
      BY <1>5, <2>1, <3>1 DEF PastAct
  <2>4. CASE t.kind = "move"
    <3>1. /\ t.ply = Len(approved[g]) + 1 /\ object'[g].moves = t.ply
          /\ approved'[g] = Append(approved[g], t.ply)
      BY <1>1, <1>4, <2>1, <2>2, <2>4 DEF PastAct
    <3>2. /\ \A k \in DOMAIN approved'[g] : approved'[g][k] = k
          /\ Len(approved'[g]) = t.ply
      BY <1>1, <1>4, <3>1
    <3>3. QED
      BY <1>3, <2>1, <3>1, <3>2 DEF PastAct
  <2>5. QED
    BY <2>3, <2>4
<1>10. QED
  BY <1>6, <1>7, <1>8, <1>9 DEF GameStep, ActStep

-----------------------------------------------------------------------------
(* The announcements keep the promises of GameTopic *)

\* The ply in a handler's hand is one of an event.
PlyKnown(i) == gameTh[i].pc # "idle" => gameTh[i].ply \in 0..MaxMoves

LEMMA NextPlyKnown ==
  ASSUME TypeInv, [Next]_vars, NEW i \in Instance, PlyKnown(i)
  PROVE  PlyKnown(i)'
<1>1. /\ gameTh \in [Instance -> GameThread]
      /\ GameIdle.pc = "idle" /\ MaxMoves \in Nat
  BY ServiceAssumption DEF TypeInv, TypeOK, GameIdle
<1>2. CASE gameTh'[i] = gameTh[i]
  BY <1>2 DEF PlyKnown
<1>3. CASE Crash(i)
  BY <1>1, <1>3 DEF Crash, PlyKnown
<1>4. CASE GameEvent(i)
  <2>1. ASSUME NEW g \in Game, NEW p \in Player, NEW kind \in Kinds, NEW n \in 0..MaxMoves,
               ReceiveGameEvent(i, g, p, kind, n)
        PROVE  gameTh'[i].ply \in 0..MaxMoves
    BY <1>1, <2>1 DEF ReceiveGameEvent, GameIdle
  <2>2. ASSUME NEW g \in Game,
               ForgetConnections(i, g) \/ \E p \in Player : PlayerLeft(i, g, p) \/ PlayerJoined(i, g, p)
        PROVE  gameTh'[i] = gameTh[i]
    BY <2>2 DEF ForgetConnections, PlayerLeft, PlayerJoined
  <2>3. QED
    BY <1>2, <1>4, <2>1, <2>2 DEF GameEvent, PlyKnown
<1>5. CASE GameStep(i)
  <2>1. gameTh[i].pc # "idle"
    <3>1. CASE ActStep(i)
      BY <3>1, ActCases
    <3>2. QED
      BY <1>5, <3>1 DEF GameStep, ActStep, BranchOnOutcome, EncodeGame, SaveMove, Approve, SaveEnd,
         AnnounceEnd, RemoveGame
  <2>2. Returns(i) \/ gameTh'[i].ply = gameTh[i].ply
    <3>1. CASE ActStep(i)
      BY <3>1, ActCases DEF PlayedPly, Acted, Refused, GoesOn
    <3>2. CASE ~ActStep(i)
      BY <1>5, <3>2, StepFields DEF GameStep, ActStep, GoesOn
    <3>3. QED
      BY <3>1, <3>2
  <2>3. QED
    BY <2>1, <2>2 DEF PlyKnown, Returns
<1>6. QED
  BY <1>2, <1>3, <1>4, <1>5, WhoseStep

\* What each promise rests on, under the condition it is made.
TopicInv ==
  /\ LifeInv /\ \A i \in Instance : TickShape(i) /\ PlyKnown(i)
  /\ ~PublishMayFail => \A g \in Game : GameOnceInv(g) /\ TickOnceInv(g)
  /\ ~RedisMayFail /\ ~PublishMayFail => \A g \in Game : GaplessInv(g)
  /\ ~HttpResign => /\ \A i \in Instance : httpTh[i].pc = "idle"
                    /\ \A g \in Game : LateInv(g) /\ TickOver(g)

Silent == UNCHANGED <<created, approved, ended, late>>

\* The five places of the code that publish on the game topic.
LEMMA WhoPublishes ==
  ASSUME TypeInv, [Next]_vars
  PROVE  \/ Silent
         \/ \E i \in Instance : \/ PublishCreated(i) \/ Approve(i) \/ AnnounceEnd(i)
                                \/ TickAnnounce(i) \/ HttpAnnounce(i)
<1>1. CASE \/ \E m \in Match, p, q \in Player : MatchFound(m, p, q)
           \/ \E g \in Game : Expire(g)
           \/ UNCHANGED vars
  BY <1>1 DEF MatchFound, Expire, vars, bus, Silent
<1>2. ASSUME NEW i \in Instance, MatchStep(i) \/ GameEvent(i) \/ Crash(i)
      PROVE  PublishCreated(i) \/ Silent
  BY <1>2 DEF MatchStep, ReceiveMatch, CacheNewGame, ManageGame, GameEvent, ReceiveGameEvent,
     PlayerLeft, PlayerJoined, ForgetConnections, Crash, bus, Silent
<1>3. ASSUME NEW i \in Instance, GameStep(i)
      PROVE  Approve(i) \/ AnnounceEnd(i) \/ Silent
  <2>1. CASE ActStep(i)
    BY <2>1, ActCases DEF bus, Silent
  <2>2. QED
    BY <1>3, <2>1 DEF GameStep, ActStep, BranchOnOutcome, EncodeGame, SaveMove, SaveEnd,
       RemoveGame, bus, Silent
<1>4. ASSUME NEW i \in Instance, TickList(i) \/ TickStep(i)
      PROVE  TickAnnounce(i) \/ Silent
  BY <1>4 DEF TickList, TickStep, TickScan, TickCheck, TickForfeit, TickEncode, TickSave,
              TickRemove, bus, Silent
<1>5. ASSUME NEW i \in Instance,
             HttpStep(i) \/ \E g \in Game, p \in Player : HttpRequest(i, g, p)
      PROVE  HttpAnnounce(i) \/ Silent
  BY <1>5 DEF HttpRequest, HttpStep, HttpLoad, HttpCheck, HttpAct, HttpEncode, HttpSave,
              HttpRemove, bus, Silent
<1>6. QED
  BY <1>1, <1>2, <1>3, <1>4, <1>5 DEF Next

\* A ply that its handler publishes may follow what the topic has told.
LEMMA ApprovedFits ==
  ASSUME TopicInv, NEW i \in Instance, NEW g \in Game, Working(i, g),
         \/ gameTh[i].pc = "approve"
         \/ gameTh[i].pc = "announce" /\ gameTh[i].kind = "move",
         ApproveMove(g, gameTh[i].ply)
  PROVE  gameTh[i].ply \in 0..MaxMoves /\ Topic!Approved(g, gameTh[i].ply)
<1>. DEFINE n == gameTh[i].ply
<1>1. gameTh[i].kind = "move" /\ PastAct(i) /\ InFlight(i)
  BY DEF TopicInv, LifeInv, MovesInv, PastAct, InFlight
<1>2. n = object[g].moves /\ \A k \in DOMAIN approved[g] : approved[g][k] < n
  BY <1>1 DEF TopicInv, LifeInv, MovesInv
<1>3. ~RedisMayFail /\ ~PublishMayFail => n = Len(approved[g]) + 1
  BY <1>1, <1>2 DEF TopicInv, GaplessInv, Unapproved
<1>4. ~HttpResign => late[g] = 0
  BY <1>1 DEF TopicInv, LateInv
<1>5. ~PublishMayFail => \A a \in ended[g] : a.by # "game"
  BY DEF TopicInv, GameOnceInv, EndedBy
<1>6. n \in 0..MaxMoves
  BY DEF TopicInv, PlyKnown, Working
<1>7. QED
  BY <1>2, <1>3, <1>4, <1>5, <1>6 DEF Topic!Approved, ApproveMove

LEMMA TopicStep ==
  ASSUME TopicInv, [Next]_vars
  PROVE  [Topic!Next]_(Topic!vars)
<1>1. /\ TypeInv /\ BaseInv /\ ended \in [Game -> SUBSET Announcement] /\ created \subseteq Game
      /\ object \in [Game -> GameRecord]
      /\ \A i \in Instance : gameTh[i].pc # "idle" => gameTh[i].game \in Game
      /\ \A i \in Instance : httpTh[i].pc # "idle" => httpTh[i].game \in Game
      /\ \A i \in Instance : matchTh[i].pc # "idle" => matchTh[i].game \in Game
  BY DEF TopicInv, LifeInv, BaseInv, TypeInv, TypeOK, ThreadsOK
<1>2. CASE Silent
  BY <1>2 DEF Silent, Topic!vars
<1>3. ASSUME NEW i \in Instance, PublishCreated(i)
      PROVE  Topic!Create \/ UNCHANGED Topic!vars
  <2>1. /\ matchTh[i].game \in Game
        /\ UNCHANGED <<approved, ended, late>>
        /\ created' = created \cup {matchTh[i].game} \/ UNCHANGED created
    BY <1>1, <1>3 DEF PublishCreated
  <2>2. QED
    BY <2>1 DEF Topic!Create, Topic!vars
<1>4. ASSUME NEW i \in Instance, Approve(i)
      PROVE  Topic!Approve \/ UNCHANGED Topic!vars
  <2>. DEFINE g == gameTh[i].game  n == gameTh[i].ply
  <2>1. /\ gameTh[i].pc = "approve" /\ g \in Game /\ Working(i, g)
        /\ UNCHANGED <<created, ended>>
        /\ ApproveMove(g, n) \/ UNCHANGED <<approved, late>>
    BY <1>1, <1>4 DEF Approve, Working
  <2>2. ApproveMove(g, n) => n \in 0..MaxMoves /\ Topic!Approved(g, n)
    BY <2>1, ApprovedFits
  <2>3. QED
    BY <2>1, <2>2 DEF Topic!Approve, Topic!vars
<1>5. ASSUME NEW i \in Instance, AnnounceEnd(i)
      PROVE  Topic!Approve \/ Topic!End \/ Topic!ApproveLast \/ UNCHANGED Topic!vars
  <2>. DEFINE g == gameTh[i].game  n == gameTh[i].ply  r == object[g].outcome
  <2>1. /\ gameTh[i].pc = "announce" /\ g \in Game /\ Working(i, g)
        /\ UNCHANGED created
        /\ \/ gameTh[i].kind = "move" /\ ApproveMove(g, n)
           \/ UNCHANGED <<approved, late>>
        /\ \/ ended' = [ended EXCEPT ![g] = @ \cup {[by |-> "game", outcome |-> r]}]
           \/ UNCHANGED ended
    BY <1>1, <1>5 DEF AnnounceEnd, Working
  <2>2. r \in Outcome \ {"none"}
    <3>1. r # "none"
      BY <1>1, <2>1 DEF BaseInv, GameEnd, GameEnding
    <3>2. QED
      BY <1>1, <2>1, <3>1 DEF GameRecord
  <2>3. gameTh[i].kind = "move" /\ ApproveMove(g, n) => n \in 0..MaxMoves /\ Topic!Approved(g, n)
    BY <2>1, ApprovedFits
  <2>4. ended' = [ended EXCEPT ![g] = @ \cup {[by |-> "game", outcome |-> r]}]
          => Topic!Ended({g}, "game", [h \in {g} |-> r])
    <3>1. ~PublishMayFail => \A a \in ended[g] : a.by # "game"
      BY <2>1 DEF TopicInv, GameOnceInv, EndedBy
    <3>2. QED
      BY <1>1, <2>1, <3>1 DEF Topic!Ended
  <2>. HIDE DEF g, n, r
  <2>5. [h \in {g} |-> r] \in [{g} -> Outcome \ {"none"}] /\ {g} \in SUBSET Game
    BY <2>1, <2>2
  <2>6. QED
    BY <2>1, <2>2, <2>3, <2>4, <2>5 DEF Topic!Approve, Topic!End, Topic!ApproveLast, Topic!vars
<1>6. ASSUME NEW i \in Instance, TickAnnounce(i)
      PROVE  Topic!End
  <2>. DEFINE t == tickTh[i]
  <2>1. PICK sent \in SUBSET t.ending :
           ended' = [g \in Game |-> IF g \in sent
             THEN ended[g] \cup {[by |-> "tick", outcome |-> t.outcome[g]]} ELSE ended[g]]
    BY <1>6 DEF TickAnnounce
  <2>2. /\ t.pc = "announce" /\ UNCHANGED <<created, approved, late>>
        /\ t.ending \subseteq Game /\ t.outcome \in [Game -> Outcome]
    BY <1>1, <1>6 DEF TickAnnounce, TypeInv, TypeOK, TickThread
  <2>. DEFINE result == [g \in sent |-> t.outcome[g]]
  <2>3. result \in [sent -> Outcome \ {"none"}]
    BY <1>1, <2>2 DEF BaseInv, TickEnd
  <2>4. ~PublishMayFail => \A g \in sent : \A a \in ended[g] : a.by # "tick"
    BY <2>1, <2>2 DEF TopicInv, TickOnceInv, Ticking, EndedBy
  <2>5. Topic!Ended(sent, "tick", result)
    BY <2>1, <2>4 DEF Topic!Ended
  <2>. HIDE DEF result
  <2>6. QED
    BY <2>2, <2>3, <2>5 DEF Topic!End
<1>7. ASSUME NEW i \in Instance, HttpAnnounce(i)
      PROVE  Topic!End \/ UNCHANGED Topic!vars
  <2>. DEFINE t == httpTh[i]  g == t.game  r == HttpGame(t).outcome
  <2>1. /\ t.pc = "announce" /\ g \in Game /\ UNCHANGED <<created, approved, late>>
        /\ \/ ended' = [ended EXCEPT ![g] = @ \cup {[by |-> "http", outcome |-> r]}]
           \/ UNCHANGED ended
    BY <1>1, <1>7 DEF HttpAnnounce
  <2>2. r \in Outcome \ {"none"}
    <3>1. r # "none"
      BY <1>1, <2>1 DEF BaseInv, HttpEnd, HttpEnding
    <3>2. HttpGame(t) \in GameRecord
      BY <1>1, <2>1 DEF HttpGame, TypeInv, TypeOK, HttpThread
    <3>3. QED
      BY <3>1, <3>2 DEF GameRecord
  <2>3. ended' = [ended EXCEPT ![g] = @ \cup {[by |-> "http", outcome |-> r]}]
          => Topic!Ended({g}, "http", [h \in {g} |-> r])
    BY <1>1, <2>1 DEF Topic!Ended
  <2>. HIDE DEF g, r
  <2>4. [h \in {g} |-> r] \in [{g} -> Outcome \ {"none"}] /\ {g} \in SUBSET Game
    BY <2>1, <2>2
  <2>5. QED
    BY <2>1, <2>3, <2>4 DEF Topic!End, Topic!vars
<1>8. QED
  BY <1>1, <1>2, <1>3, <1>4, <1>5, <1>6, <1>7, WhoPublishes DEF Topic!Next

LEMMA NextTopicInv == TopicInv /\ [Next]_vars => TopicInv'
<1>. SUFFICES ASSUME TopicInv, [Next]_vars PROVE TopicInv'
  OBVIOUS
<1>1. TypeInv /\ LifeInv /\ LifeInv'
  BY NextLife DEF TopicInv, LifeInv, BaseInv
<1>2. ASSUME NEW i \in Instance PROVE TickShape(i)' /\ PlyKnown(i)'
  BY <1>1, NextTickShape, NextPlyKnown DEF TopicInv
<1>3. ASSUME ~PublishMayFail, NEW g \in Game PROVE GameOnceInv(g)' /\ TickOnceInv(g)'
  BY <1>1, <1>3, OneGameAtATime, GameOnceOther, GameOnceOwn, NextTickOnce DEF TopicInv, LifeInv
<1>4. ASSUME ~RedisMayFail, ~PublishMayFail, NEW g \in Game PROVE GaplessInv(g)'
  BY <1>1, <1>4, OneGameAtATime, GaplessOther, GaplessOwn DEF TopicInv, LifeInv
<1>5. ASSUME ~HttpResign, NEW i \in Instance PROVE httpTh'[i].pc = "idle"
  <2>1. httpTh \in [Instance -> HttpThread]
    BY <1>1 DEF TypeInv, TypeOK
  <2>2. CASE Crash(i)
    BY <2>1, <2>2 DEF Crash, HttpIdle
  <2>3. ~HttpStep(i)
    BY <1>5 DEF TopicInv, HttpStep, HttpLoad, HttpCheck, HttpAct, HttpEncode, HttpSave, HttpRemove,
       HttpAnnounce
  <2>4. \A h \in Game, p \in Player : ~HttpRequest(i, h, p)
    BY <1>5 DEF HttpRequest
  <2>5. QED
    BY <1>1, <1>5, <2>2, <2>3, <2>4, WhoseStep DEF TopicInv
<1>6. ASSUME ~HttpResign, NEW g \in Game PROVE LateInv(g)' /\ TickOver(g)'
  BY <1>1, <1>6, OneGameAtATime, LateQuiet, LateDrawn, LateOwn, NextTickOver DEF TopicInv, LifeInv
<1>7. QED
  BY <1>1, <1>2, <1>3, <1>4, <1>5, <1>6 DEF TopicInv

LEMMA InitTopicInv == Init => TopicInv
BY InitLife DEF Init, TopicInv, TickShape, PlyKnown, GameOnceInv, TickOnceInv, GaplessInv, Unapproved,
   LateInv, TickOver, EndedBy, Starting, Working, Ticking, GameIdle, TickIdle, MatchIdle, HttpIdle

LEMMA AlwaysTopicInv == Spec => []TopicInv
BY InitTopicInv, NextTopicInv, PTL DEF Spec

\* On any number of instances the announcements of the service are a behaviour
\* of GameTopic, with the promises that the failure constants leave: plies rise,
\* and follow each other without a gap when Redis and the publisher answer; an
\* end has a result, is announced once by the handlers and once by the ticker when
\* the publisher answers, no ply then follows the handler's announcement, and at
\* most one any announcement while no resignation comes over HTTP.
THEOREM ServiceImplementsTopic == Spec => ImplementsTopic
<1>1. Init => Topic!Init
  BY DEF Init, Topic!Init
<1>2. QED
  BY <1>1, AlwaysTopicInv, TopicStep, PTL DEF Spec, ImplementsTopic, Topic!Spec

\* Neither a handler nor the ticker announces the end of a game twice, on any
\* number of instances, whichever restart and whatever Redis does, as long as
\* the publisher does not fail: then whoever announces an end drops the game.
THEOREM AnnouncedOnceHolds ==
  ASSUME ~PublishMayFail
  PROVE  Spec => []AnnouncedOnce
<1>1. TopicInv => AnnouncedOnce
  <2>. SUFFICES ASSUME TopicInv, NEW i \in Instance
                PROVE  /\ gameTh[i].pc = "announce" => ~EndedBy(gameTh[i].game, "game")
                       /\ tickTh[i].pc = "announce" =>
                            \A g \in tickTh[i].ending : ~EndedBy(g, "tick")
    BY DEF AnnouncedOnce, EndedBy
  <2>1. /\ gameTh[i].pc # "idle" => gameTh[i].game \in Game
        /\ tickTh[i].ending \subseteq Game
    BY DEF TopicInv, LifeInv, BaseInv, TypeInv, TypeOK, ThreadsOK, TickThread
  <2>2. gameTh[i].pc = "announce" => ~EndedBy(gameTh[i].game, "game")
    BY <2>1 DEF TopicInv, GameOnceInv, Working
  <2>3. tickTh[i].pc = "announce" => \A g \in tickTh[i].ending : ~EndedBy(g, "tick")
    BY <2>1 DEF TopicInv, TickOnceInv, Ticking
  <2>4. QED
    BY <2>2, <2>3
<1>2. QED
  BY <1>1, AlwaysTopicInv, PTL

\* Once the end of a game is announced at most one more ply of it is approved,
\* on any number of instances, whatever fails or restarts, while no resignation
\* comes over HTTP: a handler's and the ticker's announcement both come after
\* the game is deactivated, so that only a move in flight then can follow.
THEOREM AtMostOneLateMoveHolds ==
  ASSUME ~HttpResign
  PROVE  Spec => []AtMostOneLateMove
<1>1. TopicInv => AtMostOneLateMove
  BY DEF TopicInv, LateInv, AtMostOneLateMove
<1>2. QED
  BY <1>1, AlwaysTopicInv, PTL

-----------------------------------------------------------------------------
(* A managed game that is over is being taken down *)

\* The object of a game is written when it is drawn, by its handler, by the
\* ticker that forfeits it, and by a request that resigns the managed object.
LEMMA WhoWrites ==
  ASSUME LifeInv, [Next]_vars, NEW g \in Game
  PROVE  \/ object'[g] = object[g]
         \/ \E i \in Instance : Draws(i, g)
         \/ \E i \in Instance : (ActStep(i) \/ BranchOnOutcome(i)) /\ Working(i, g)
         \/ \E i \in Instance : TickForfeit(i) /\ tickTh[i].game = g
         \/ \E i \in Instance : HttpAct(i) /\ Serving(i, g)
<1>1. /\ TypeInv /\ BaseInv /\ object \in [Game -> GameRecord]
  BY DEF LifeInv, BaseInv, TypeInv, TypeOK
<1>2. ASSUME NEW i \in Instance, MatchStep(i) \/ Crash(i)
      PROVE  object'[g] = object[g] \/ Draws(i, g)
  <2>1. CASE \E m \in Match : ReceiveMatch(i, m)
    <3>1. CASE UNCHANGED object
      BY <3>1
    <3>2. CASE ~UNCHANGED object
      <4>1. PICK m \in Match : ReceiveMatch(i, m)
        BY <2>1
      <4>2. PICK h \in Game, w \in matches[m], b \in matches[m] :
               /\ origin[h] = NoMatch
               /\ origin' = [origin EXCEPT ![h] = m]
               /\ object' = [object EXCEPT ![h] = NewGame(w, b)]
               /\ matchTh' = [matchTh EXCEPT ![i] = [pc |-> "cache", match |-> m, game |-> h]]
        BY <3>2, <4>1 DEF ReceiveMatch
      <4>3. Draws(i, h)
        BY <4>1, <4>2 DEF ReceiveMatch, Draws
      <4>4. QED
        BY <1>1, <4>2, <4>3
    <3>3. QED
      BY <3>1, <3>2
  <2>2. CASE CacheNewGame(i) \/ ManageGame(i) \/ PublishCreated(i) \/ Crash(i)
    BY <2>2 DEF CacheNewGame, ManageGame, PublishCreated, Crash, memory
  <2>3. QED
    BY <1>2, <2>1, <2>2 DEF MatchStep
<1>3. ASSUME NEW i \in Instance, GameEvent(i) \/ GameStep(i)
      PROVE  object'[g] = object[g] \/ ((ActStep(i) \/ BranchOnOutcome(i)) /\ Working(i, g))
  <2>1. CASE ActStep(i)
    <3>1. gameTh[i].pc = "act" /\ gameTh[i].game \in Game
      BY <1>1, <2>1, ActCases
    <3>2. gameTh[i].game # g => object'[g] = object[g]
      BY <1>1, <2>1, ActCases DEF PlayedPly, Acted, Refused
    <3>3. QED
      BY <2>1, <3>1, <3>2 DEF Working
  <2>2. CASE BranchOnOutcome(i)
    <3>1. gameTh[i].pc = "branch" /\ (gameTh[i].game # g => object'[g] = object[g])
      BY <1>1, <2>2 DEF BranchOnOutcome
    <3>2. QED
      BY <2>2, <3>1 DEF Working
  <2>3. CASE GameEvent(i)
    BY <2>3 DEF GameEvent, ReceiveGameEvent, PlayerLeft, PlayerJoined, ForgetConnections, memory
  <2>4. QED
    BY <1>3, <2>1, <2>2, <2>3 DEF GameStep, ActStep, EncodeGame, SaveMove, Approve, SaveEnd,
       AnnounceEnd, RemoveGame, memory
<1>4. ASSUME NEW i \in Instance, TickList(i) \/ TickStep(i)
      PROVE  object'[g] = object[g] \/ (TickForfeit(i) /\ tickTh[i].game = g)
  <2>1. CASE TickForfeit(i)
    BY <1>1, <2>1 DEF TickForfeit
  <2>2. QED
    BY <1>4, <2>1 DEF TickList, TickStep, TickScan, TickCheck, TickEncode, TickSave, TickAnnounce,
       TickRemove, memory
<1>5. ASSUME NEW i \in Instance,
             HttpStep(i) \/ \E h \in Game, p \in Player : HttpRequest(i, h, p)
      PROVE  object'[g] = object[g] \/ (HttpAct(i) /\ Serving(i, g))
  <2>1. CASE HttpAct(i)
    <3>1. CASE HttpOnObject(httpTh[i]) /\ httpTh[i].game = g
      BY <2>1, <3>1 DEF HttpAct, Serving
    <3>2. CASE ~(HttpOnObject(httpTh[i]) /\ httpTh[i].game = g)
      BY <1>1, <2>1, <3>2 DEF HttpAct
    <3>3. QED
      BY <3>1, <3>2
  <2>2. QED
    BY <1>5, <2>1 DEF HttpRequest, HttpStep, HttpLoad, HttpCheck, HttpEncode, HttpSave, HttpRemove,
       HttpAnnounce, memory
<1>6. CASE \/ \E m \in Match, p, q \in Player : MatchFound(m, p, q)
           \/ \E h \in Game : Expire(h)
           \/ UNCHANGED vars
  BY <1>6 DEF MatchFound, Expire, vars, memory
<1>7. QED
  BY <1>2, <1>3, <1>4, <1>5, <1>6 DEF Next

\* What one step of a request does to its place and its game.
LEMMA HttpFields ==
  ASSUME TypeInv, NEW i \in Instance, HttpStep(i)
  PROVE  LET t == httpTh[i]  u == httpTh'[i] IN
         \/ u.pc = "idle" /\ t.pc \in {"load", "check", "announce"}
         \/ u.pc = "idle" /\ HttpSave(i) /\ RedisMayFail /\ t.pc = "save"
         \/ /\ u.game = t.game
            /\ \/ t.pc \in {"load", "check"} /\ u.pc = "resign"
               \/ t.pc = "resign" /\ HttpAct(i) /\ u.pc = "encode"
               \/ t.pc = "encode" /\ u.pc = "save"
               \/ t.pc = "save" /\ HttpSave(i) /\ u.pc = "remove"
               \/ t.pc = "remove" /\ HttpRemove(i) /\ u.pc = "announce"
<1>1. httpTh \in [Instance -> HttpThread] /\ httpTh[i] \in HttpThread /\ HttpIdle.pc = "idle"
  BY DEF TypeInv, TypeOK, HttpIdle
<1>2. CASE HttpLoad(i)
  BY <1>1, <1>2 DEF HttpLoad, HttpThread
<1>3. CASE HttpCheck(i)
  BY <1>1, <1>3 DEF HttpCheck, HttpThread
<1>4. CASE HttpAct(i)
  BY <1>1, <1>4 DEF HttpAct, HttpThread
<1>5. CASE HttpEncode(i)
  BY <1>1, <1>5 DEF HttpEncode, HttpThread
<1>6. CASE HttpSave(i)
  <2>1. PICK ok \in BOOLEAN :
           /\ RedisMayFail \/ ok
           /\ httpTh' = [httpTh EXCEPT ![i] =
                IF ok THEN [@ EXCEPT !.pc = "remove", !.copy = NoRecord] ELSE HttpIdle]
    BY <1>6 DEF HttpSave, RedisReply
  <2>2. httpTh[i].pc = "save"
    BY <1>6 DEF HttpSave
  <2>3. QED
    BY <1>1, <1>6, <2>1, <2>2 DEF HttpThread
<1>7. CASE HttpRemove(i)
  BY <1>1, <1>7 DEF HttpRemove, HttpThread
<1>8. CASE HttpAnnounce(i)
  BY <1>1, <1>8 DEF HttpAnnounce
<1>9. QED
  BY <1>2, <1>3, <1>4, <1>5, <1>6, <1>7, <1>8 DEF HttpStep

\* What makes NoZombieGame inductive: a game comes into memory running.
ZombieInv(g) ==
  \A i \in Instance :
    /\ Starting(i, g) => object[g].status = "active"
    /\ g \in games[i] /\ object[g].status = "deactive" => Ending(i, g)

\* The step of a handler that ends a managed game: it goes on ending it until it
\* drops it.
LEMMA GameStepEnding ==
  ASSUME LifeInv, NEW g \in Game, NEW i \in Instance, GameStep(i), Working(i, g),
         ~RedisMayFail, ~PublishMayFail, GameOnceInv(g), g \in games'[i], g \in games[i],
         \/ gameTh[i].pc \in {"encode", "save", "announce", "remove"}
         \/ object[g].status # object'[g].status
  PROVE  Ending(i, g)'
<1>. DEFINE t == gameTh[i]  u == gameTh'[i]
<1>1. /\ TypeInv /\ object \in [Game -> GameRecord] /\ object[g] \in GameRecord
      /\ games \in [Instance -> SUBSET Game]
      /\ gameTh \in [Instance -> GameThread] /\ t \in GameThread /\ t.pc # "idle" /\ t.game = g
      /\ object[g].status \in {"active", "deactive"}
  BY DEF LifeInv, BaseInv, TypeInv, TypeOK, Working, GameRecord, Status
<1>2. ASSUME NEW pc \in {"encode", "save", "announce", "remove"}, GoesOn(i, pc)
      PROVE  Ending(i, g)'
  BY <1>1, <1>2 DEF GoesOn, Ending
<1>3. CASE ActStep(i)
  <2>1. t.pc = "act" /\ (PlayedPly(i) \/ Acted(i) \/ Refused(i))
    BY <1>1, <1>3, ActCases
  <2>2. object[g].status # object'[g].status
    BY <2>1
  <2>3. ~PlayedPly(i) /\ ~Refused(i)
    BY <1>1, <2>2 DEF PlayedPly, Refused
  <2>4. PICK r \in GameRecord :
           /\ object' = [object EXCEPT ![t.game] = r]
           /\ r.status = object[t.game].status \/ (t.kind = "resign" /\ GoesOn(i, "encode"))
    BY <2>1, <2>3 DEF Acted
  <2>5. QED
    BY <1>1, <1>2, <2>2, <2>4
<1>4. CASE BranchOnOutcome(i)
  <2>1. t.pc = "branch"
    BY <1>4 DEF BranchOnOutcome
  <2>2. object[g].outcome # "none"
    BY <1>1, <1>4, <2>1 DEF BranchOnOutcome
  <2>3. QED
    BY <1>1, <1>2, <1>4, <2>2, StepFields
<1>5. CASE ~ActStep(i) /\ ~BranchOnOutcome(i)
  <2>1. UNCHANGED object
    BY <1>5 DEF GameStep, ActStep, EncodeGame, SaveMove, Approve, SaveEnd, AnnounceEnd, RemoveGame,
       memory
  <2>2. t.pc \in {"encode", "save", "announce", "remove"}
    BY <2>1
  <2>3. CASE EncodeGame(i)
    BY <1>1, <1>2, <2>2, <2>3, StepFields
  <2>4. CASE SaveEnd(i)
    <3>1. ~Returns(i)
      <4>1. gameTh' = [gameTh EXCEPT ![i] =
              [@ EXCEPT !.pc = IF t.kind = "resign" THEN "remove" ELSE "announce",
                        !.copy = NoRecord]]
        BY <2>4 DEF SaveEnd, RedisReply
      <4>2. QED
        BY <1>1, <4>1 DEF Returns, GameThread
    <3>2. QED
      BY <1>1, <1>2, <2>4, <3>1, StepFields
  <2>5. CASE AnnounceEnd(i)
    <3>1. t.pc = "announce"
      BY <2>5 DEF AnnounceEnd
    <3>2. t.kind # "resign"
      BY <3>1 DEF GameOnceInv
    <3>3. PICK ok \in BOOLEAN : /\ ok
                                /\ gameTh' = [gameTh EXCEPT ![i] =
                                     IF ok /\ t.kind # "resign" THEN [@ EXCEPT !.pc = "remove"] ELSE GameIdle]
      BY <2>5 DEF AnnounceEnd, PublishReply
    <3>4. GoesOn(i, "remove")
      BY <1>1, <3>2, <3>3 DEF GoesOn, GameThread
    <3>5. QED
      BY <1>2, <3>4
  <2>6. ~RemoveGame(i)
    BY <1>1 DEF RemoveGame
  <2>7. ~SaveMove(i) /\ ~Approve(i)
    BY <2>2 DEF SaveMove, Approve
  <2>8. QED
    BY <1>5, <2>3, <2>4, <2>5, <2>6, <2>7 DEF GameStep, ActStep
<1>6. QED
  BY <1>3, <1>4, <1>5

LEMMA NextZombie ==
  ASSUME LifeInv, [Next]_vars, NEW g \in Game, ZombieInv(g), GameOnceInv(g),
         \A i \in Instance : TickShape(i), ~RedisMayFail, ~PublishMayFail
  PROVE  ZombieInv(g)'
<1>1. /\ TypeInv /\ BaseInv /\ OwnerInv /\ CopiesInv /\ object \in [Game -> GameRecord]
      /\ games \in [Instance -> SUBSET Game]
      /\ tickTh \in [Instance -> TickThread] /\ httpTh \in [Instance -> HttpThread]
      /\ object[g].status \in {"active", "deactive"}
  BY DEF LifeInv, BaseInv, TypeInv, TypeOK, GameRecord, Status
<1>. SUFFICES ASSUME NEW i \in Instance
              PROVE  /\ Starting(i, g)' => object'[g].status = "active"
                     /\ g \in games'[i] /\ object'[g].status = "deactive" => Ending(i, g)'
  BY DEF ZombieInv
<1>2. Starting(i, g) => object'[g] = object[g]
  <2>. SUFFICES ASSUME Starting(i, g) PROVE object'[g] = object[g]
    OBVIOUS
  <2>1. \A j \in Instance : ~Manages(j, g) /\ origin[g] # NoMatch
    BY <1>1 DEF OwnerInv, Holds
  <2>2. QED
    BY <2>1, WhoWrites DEF Manages, Draws, Ticking, TickForfeit
<1>3. Starting(i, g)' => object'[g].status = "active"
  <2>1. Draws(i, g) => object'[g].status = "active"
    BY <1>1 DEF Draws, NewGame
  <2>2. QED
    BY <1>1, <1>2, <2>1, NextHands DEF HandsOn, ZombieInv
<1>4. ASSUME g \in games'[i], object'[g].status = "deactive"
      PROVE  Ending(i, g)'
  <2>1. g \in games[i]
    BY <1>1, <1>2, <1>4, GamesGrow DEF ZombieInv
  <2>2. ~Crash(i)
    BY <1>1, <1>4 DEF Crash
  <2>3. \A j \in Instance : Holds(j, g) => j = i
    BY <1>1, <2>1 DEF OwnerInv, Holds, Manages
  <2>4. CASE object[g].status # object'[g].status
    <3>1. ASSUME NEW j \in Instance, Draws(j, g) PROVE FALSE
      BY <1>1, <2>1, <3>1 DEF OwnerInv, Holds, Manages, Draws
    <3>2. ASSUME NEW j \in Instance, ActStep(j) \/ BranchOnOutcome(j), Working(j, g)
          PROVE  Ending(i, g)'
      <4>1. j = i /\ GameStep(i)
        BY <2>3, <3>2 DEF Holds, Manages, GameStep, ActStep
      <4>2. QED
        BY <1>4, <2>1, <2>4, <3>2, <4>1, GameStepEnding
    <3>3. ASSUME NEW j \in Instance, TickForfeit(j), tickTh[j].game = g
          PROVE  Ending(i, g)'
      <4>1. j = i
        BY <2>3, <3>3 DEF Holds, Manages, Ticking, TickForfeit
      <4>2. tickTh'[i].pc = "loop" /\ tickTh'[i].ending = tickTh[i].ending \cup {g}
        BY <1>1, <3>3, <4>1 DEF TickForfeit, TickThread
      <4>3. QED
        BY <4>2 DEF Ending
    <3>4. ASSUME NEW j \in Instance, HttpAct(j), Serving(j, g)
          PROVE  Ending(i, g)'
      <4>1. j = i
        BY <2>3, <3>4 DEF Holds, Manages
      <4>2. httpTh'[i].pc = "encode" /\ httpTh'[i].game = g
        BY <1>1, <3>4, <4>1 DEF HttpAct, HttpThread, Serving
      <4>3. QED
        BY <4>2 DEF Ending
    <3>5. QED
      BY <2>4, <3>1, <3>2, <3>3, <3>4, WhoWrites
  <2>5. CASE object[g].status = object'[g].status
    <3>1. Ending(i, g)
      BY <1>4, <2>1, <2>5 DEF ZombieInv
    <3>2. CASE gameTh[i].game = g /\ gameTh[i].pc \in {"encode", "save", "announce", "remove"}
      <4>1. ASSUME GameEvent(i) PROVE gameTh'[i] = gameTh[i]
        BY ZenonT(30), <3>2, <4>1 DEF GameEvent, ReceiveGameEvent, PlayerLeft, PlayerJoined, ForgetConnections
      <4>2. ASSUME gameTh'[i] = gameTh[i] PROVE Ending(i, g)'
        BY <3>2, <4>2 DEF Ending
      <4>3. ASSUME GameStep(i) PROVE Ending(i, g)'
        BY <1>4, <2>1, <3>2, <4>3, GameStepEnding DEF Working
      <4>4. QED
        BY <1>1, <2>2, <4>1, <4>2, <4>3, WhoseStep
    <3>3. CASE tickTh[i].pc # "idle" /\ g \in tickTh[i].ending
      <4>1. ASSUME tickTh'[i] = tickTh[i] PROVE Ending(i, g)'
        BY <3>3, <4>1 DEF Ending
      <4>2. ASSUME TickList(i) \/ TickStep(i) PROVE tickTh'[i].pc # "idle" /\ g \in tickTh'[i].ending
        <5>1. tickTh[i].pc # "idle"
          BY <3>3
        <5>2. CASE TickEncode(i)
          BY <1>1, <3>3, <5>2 DEF TickEncode, TickThread
        <5>3. CASE ~TickEncode(i)
          BY <1>1, <1>4, <3>3, <4>2, <5>3, TickFields
        <5>4. QED
          BY <5>2, <5>3
      <4>3. QED
        BY <1>1, <2>2, <4>1, <4>2, WhoseStep DEF Ending
    <3>4. CASE httpTh[i].game = g /\ httpTh[i].pc \in {"encode", "save", "remove"}
      <4>1. ASSUME httpTh'[i] = httpTh[i] PROVE Ending(i, g)'
        BY <3>4, <4>1 DEF Ending
      <4>2. ASSUME HttpStep(i) PROVE httpTh'[i].game = g /\ httpTh'[i].pc \in {"encode", "save", "remove"}
        <5>1. ~HttpRemove(i)
          BY <1>1, <1>4, <3>4 DEF HttpRemove
        <5>2. QED
          BY <1>1, <3>4, <4>2, <5>1, HttpFields
      <4>3. \A h \in Game, p \in Player : ~HttpRequest(i, h, p)
        BY <3>4 DEF HttpRequest
      <4>4. QED
        BY <1>1, <2>2, <4>1, <4>2, <4>3, WhoseStep DEF Ending
    <3>5. QED
      BY <3>1, <3>2, <3>3, <3>4 DEF Ending
  <2>6. QED
    BY <2>4, <2>5
<1>5. QED
  BY <1>3, <1>4

\* A managed game that is over is being taken down by a handler, the ticker or
\* a request, on any number of instances, restarted or not, as long as neither
\* Redis nor the publisher fails: no path forgets a game it has ended.
THEOREM NoZombieGameHolds ==
  ASSUME ~RedisMayFail, ~PublishMayFail
  PROVE  Spec => []NoZombieGame
<1>. DEFINE Inv == LifeInv /\ (\A g \in Game : GameOnceInv(g) /\ ZombieInv(g))
                           /\ \A i \in Instance : TickShape(i)
<1>1. Init => Inv
  BY InitLife DEF Init, GameOnceInv, ZombieInv, TickShape, EndedBy, Starting, Working,
     GameIdle, TickIdle, MatchIdle
<1>2. Inv /\ [Next]_vars => Inv'
  <2>. SUFFICES ASSUME Inv, [Next]_vars PROVE Inv'
    OBVIOUS
  <2>1. LifeInv' /\ TypeInv
    BY NextLife DEF LifeInv, BaseInv
  <2>2. ASSUME NEW g \in Game PROVE GameOnceInv(g)' /\ ZombieInv(g)'
    BY OneGameAtATime, GameOnceOther, GameOnceOwn, NextZombie DEF LifeInv
  <2>3. ASSUME NEW i \in Instance PROVE TickShape(i)'
    BY <2>1, NextTickShape
  <2>4. QED
    BY <2>1, <2>2, <2>3
<1>3. Inv => NoZombieGame
  BY DEF ZombieInv, NoZombieGame, LifeInv, BaseInv, TypeInv, TypeOK
<1>4. QED
  BY <1>1, <1>2, <1>3, PTL DEF Spec

-----------------------------------------------------------------------------
(* A game dropped from memory has freed its players *)

Freed(g) == \A p \in Player : playerGame[p] # g

Caching(i, g) == matchTh[i].pc = "cache" /\ matchTh[i].game = g

\* A player_game key points to a game of that player.
KeysInv ==
  \A p \in Player : playerGame[p] # NoGame => p \in PlayersOf(object[playerGame[p]])

\* A key is deleted, or set when a new game of the player is cached.
LEMMA KeyWrites ==
  ASSUME TypeInv, [Next]_vars, NEW p \in Player
  PROVE  \/ playerGame'[p] \in {playerGame[p], NoGame}
         \/ \E i \in Instance : /\ CacheNewGame(i) /\ Caching(i, playerGame'[p])
                                /\ p \in PlayersOf(object[playerGame'[p]])
<1>1. playerGame \in [Player -> GameOrNone]
  BY DEF TypeInv, TypeOK
<1>2. ASSUME NEW gs, NEW copy, DeactivateInRedis(gs, copy)
      PROVE  playerGame'[p] \in {playerGame[p], NoGame}
  BY <1>2 DEF DeactivateInRedis
<1>3. ASSUME NEW i \in Instance, CacheNewGame(i)
      PROVE  \/ playerGame'[p] = playerGame[p]
             \/ Caching(i, playerGame'[p]) /\ p \in PlayersOf(object[playerGame'[p]])
  BY <1>1, <1>3 DEF CacheNewGame, Caching, redis
<1>4. ASSUME NEW i \in Instance, GameEvent(i) \/ GameStep(i)
      PROVE  playerGame'[p] \in {playerGame[p], NoGame}
  <2>1. CASE ActStep(i)
    BY <2>1, ActCases DEF redis
  <2>2. CASE SaveEnd(i)
    BY <1>2, <2>2 DEF SaveEnd, redis
  <2>3. CASE GameEvent(i)
    BY <2>3 DEF GameEvent, ReceiveGameEvent, PlayerLeft, PlayerJoined, ForgetConnections, redis
  <2>4. QED
    BY <1>4, <2>1, <2>2, <2>3 DEF GameStep, ActStep, BranchOnOutcome, EncodeGame, SaveMove, Approve,
       AnnounceEnd, RemoveGame, redis
<1>5. ASSUME NEW i \in Instance, TickList(i) \/ TickStep(i)
      PROVE  playerGame'[p] \in {playerGame[p], NoGame}
  <2>1. CASE TickSave(i)
    BY <1>2, <2>1 DEF TickSave, redis
  <2>2. QED
    BY <1>5, <2>1 DEF TickList, TickStep, TickScan, TickCheck, TickForfeit, TickEncode,
       TickAnnounce, TickRemove, redis
<1>6. ASSUME NEW i \in Instance,
             HttpStep(i) \/ \E h \in Game, q \in Player : HttpRequest(i, h, q)
      PROVE  playerGame'[p] \in {playerGame[p], NoGame}
  <2>1. CASE HttpSave(i)
    BY <1>2, <2>1 DEF HttpSave, redis
  <2>2. QED
    BY <1>6, <2>1 DEF HttpRequest, HttpStep, HttpLoad, HttpCheck, HttpAct, HttpEncode, HttpRemove,
       HttpAnnounce, redis
<1>7. ASSUME NEW i \in Instance, Crash(i) \/ (MatchStep(i) /\ ~CacheNewGame(i))
      PROVE  playerGame'[p] = playerGame[p]
  BY <1>7 DEF MatchStep, ReceiveMatch, ManageGame, PublishCreated, Crash, redis
<1>8. CASE \/ \E m \in Match, q, r \in Player : MatchFound(m, q, r)
           \/ \E h \in Game : Expire(h)
           \/ UNCHANGED vars
  BY <1>8 DEF MatchFound, Expire, vars, redis
<1>9. QED
  BY <1>3, <1>4, <1>5, <1>6, <1>7, <1>8 DEF Next

LEMMA FreedKept ==
  ASSUME TypeInv, [Next]_vars, NEW g \in Game, Freed(g),
         \A i \in Instance : ~(CacheNewGame(i) /\ Caching(i, g))
  PROVE  Freed(g)'
BY KeyWrites, ServiceAssumption DEF Freed

LEMMA NextKeys ==
  ASSUME LifeInv, [Next]_vars, KeysInv
  PROVE  KeysInv'
<1>1. /\ TypeInv /\ NotDrawn /\ GamesKept /\ playerGame \in [Player -> GameOrNone]
      /\ origin \in [Game -> Match \cup {NoMatch}]
      /\ \A i \in Instance : matchTh[i].pc = "cache" => matchTh[i].game \in Game
  BY NextKeeps DEF LifeInv, BaseInv, TypeInv, TypeOK, ThreadsOK
<1>. SUFFICES ASSUME NEW p \in Player, playerGame'[p] # NoGame
              PROVE  p \in PlayersOf(object'[playerGame'[p]])
  BY DEF KeysInv, PlayersOf
<1>2. CASE playerGame'[p] = playerGame[p]
  <2>1. playerGame[p] \in Game /\ p \in PlayersOf(object[playerGame[p]])
    BY <1>1, <1>2 DEF KeysInv, GameOrNone
  <2>2. origin[playerGame[p]] # NoMatch
    BY <1>1, <2>1, PlayerAssumption DEF NotDrawn
  <2>3. QED
    BY <1>1, <1>2, <2>1, <2>2 DEF GamesKept, Keeps
<1>3. ASSUME NEW i \in Instance, CacheNewGame(i), Caching(i, playerGame'[p]),
             p \in PlayersOf(object[playerGame'[p]])
      PROVE  p \in PlayersOf(object'[playerGame'[p]])
  BY <1>3 DEF CacheNewGame, memory
<1>4. QED
  BY <1>1, <1>2, <1>3, KeyWrites

LEMMA DeactivateFrees ==
  ASSUME TypeInv, KeysInv, NEW gs, NEW copy, DeactivateInRedis(gs, copy),
         NEW g \in gs, g \in Game, SamePlayers(copy[g], g)
  PROVE  Freed(g)'
<1>. SUFFICES ASSUME NEW p \in Player, playerGame'[p] = g PROVE FALSE
  BY DEF Freed
<1>1. g # NoGame
  BY ServiceAssumption
<1>2. playerGame[p] = g /\ ~(\E h \in gs : p \in PlayersOf(copy[h]))
  BY <1>1 DEF DeactivateInRedis
<1>3. p \in PlayersOf(object[g])
  BY <1>1, <1>2 DEF KeysInv
<1>4. QED
  BY <1>2, <1>3 DEF SamePlayers

\* A game leaves memory in one of three actions.
LEMMA WhoDrops ==
  ASSUME TypeInv, [Next]_vars, ~MayCrash, NEW i \in Instance, NEW g \in games[i], g \notin games'[i]
  PROVE  \/ RemoveGame(i) /\ gameTh[i].pc = "remove" /\ gameTh[i].game = g
         \/ TickRemove(i) /\ tickTh[i].pc = "remove" /\ g \in tickTh[i].ending
         \/ HttpRemove(i) /\ httpTh[i].pc = "remove" /\ httpTh[i].game = g
<1>1. games \in [Instance -> SUBSET Game]
  BY DEF TypeInv, TypeOK
<1>2. ASSUME NEW j \in Instance, MatchStep(j) \/ Crash(j)
      PROVE  FALSE
  BY <1>1, <1>2 DEF MatchStep, ReceiveMatch, CacheNewGame, ManageGame, PublishCreated, Crash, memory
<1>3. ASSUME NEW j \in Instance, GameEvent(j) \/ GameStep(j)
      PROVE  RemoveGame(i) /\ gameTh[i].pc = "remove" /\ gameTh[i].game = g
  <2>1. CASE ActStep(j)
    BY <2>1, ActCases
  <2>2. CASE GameEvent(j)
    BY <2>2 DEF GameEvent, ReceiveGameEvent, PlayerLeft, PlayerJoined, ForgetConnections, memory
  <2>3. CASE RemoveGame(j)
    BY <1>1, <2>3 DEF RemoveGame
  <2>4. QED
    BY <1>3, <2>1, <2>2, <2>3 DEF GameStep, ActStep, BranchOnOutcome, EncodeGame, SaveMove, Approve,
       SaveEnd, AnnounceEnd, memory
<1>4. ASSUME NEW j \in Instance, TickList(j) \/ TickStep(j)
      PROVE  TickRemove(i) /\ tickTh[i].pc = "remove" /\ g \in tickTh[i].ending
  <2>1. CASE TickRemove(j)
    BY <1>1, <2>1 DEF TickRemove
  <2>2. QED
    BY <1>4, <2>1 DEF TickList, TickStep, TickScan, TickCheck, TickForfeit, TickEncode, TickSave,
       TickAnnounce, memory
<1>5. ASSUME NEW j \in Instance,
             HttpStep(j) \/ \E h \in Game, q \in Player : HttpRequest(j, h, q)
      PROVE  HttpRemove(i) /\ httpTh[i].pc = "remove" /\ httpTh[i].game = g
  <2>1. CASE HttpRemove(j)
    BY <1>1, <2>1 DEF HttpRemove
  <2>2. QED
    BY <1>5, <2>1 DEF HttpRequest, HttpStep, HttpLoad, HttpCheck, HttpAct, HttpEncode, HttpSave,
       HttpAnnounce, memory
<1>6. CASE \/ \E m \in Match, q, r \in Player : MatchFound(m, q, r)
           \/ \E h \in Game : Expire(h)
           \/ UNCHANGED vars
  BY <1>6 DEF MatchFound, Expire, vars, memory
<1>7. QED
  BY <1>2, <1>3, <1>4, <1>5, <1>6 DEF Next

\* Who writes the Redis entry of a game.
LEMMA CacheWrites ==
  ASSUME TypeInv, [Next]_vars, NEW g \in Game
  PROVE  \/ cached'[g] = cached[g]
         \/ cached'[g].kept = "absent"
         \/ \E i \in Instance : CacheNewGame(i) /\ Caching(i, g)
         \/ \E i \in Instance : Working(i, g)
         \/ \E i \in Instance : g \in tickTh[i].ending
         \/ \E i \in Instance : httpTh[i].pc = "save" /\ httpTh[i].game = g
<1>1. cached \in [Game -> CacheEntry] /\ Absent.kept = "absent"
  BY DEF TypeInv, TypeOK, Absent
<1>2. ASSUME NEW gs, NEW copy, DeactivateInRedis(gs, copy)
      PROVE  cached'[g] = cached[g] \/ g \in gs
  BY <1>2 DEF DeactivateInRedis
<1>3. ASSUME NEW i \in Instance, CacheNewGame(i)
      PROVE  cached'[g] = cached[g] \/ Caching(i, g)
  BY <1>1, <1>3 DEF CacheNewGame, Caching, redis
<1>4. ASSUME NEW i \in Instance, GameEvent(i) \/ GameStep(i)
      PROVE  cached'[g] = cached[g] \/ Working(i, g)
  <2>1. CASE ActStep(i)
    BY <2>1, ActCases DEF redis
  <2>2. CASE SaveEnd(i)
    BY <1>2, <2>2 DEF SaveEnd, Working, redis
  <2>3. CASE SaveMove(i)
    BY <1>1, <2>3 DEF SaveMove, Working
  <2>4. CASE GameEvent(i)
    BY <2>4 DEF GameEvent, ReceiveGameEvent, PlayerLeft, PlayerJoined, ForgetConnections, redis
  <2>5. QED
    BY <1>4, <2>1, <2>2, <2>3, <2>4 DEF GameStep, ActStep, BranchOnOutcome, EncodeGame, Approve,
       AnnounceEnd, RemoveGame, redis
<1>5. ASSUME NEW i \in Instance, TickList(i) \/ TickStep(i)
      PROVE  cached'[g] = cached[g] \/ g \in tickTh[i].ending
  <2>1. CASE TickSave(i)
    BY <1>2, <2>1 DEF TickSave, redis
  <2>2. QED
    BY <1>5, <2>1 DEF TickList, TickStep, TickScan, TickCheck, TickForfeit, TickEncode,
       TickAnnounce, TickRemove, redis
<1>6. ASSUME NEW i \in Instance,
             HttpStep(i) \/ \E h \in Game, q \in Player : HttpRequest(i, h, q)
      PROVE  cached'[g] = cached[g] \/ (httpTh[i].pc = "save" /\ httpTh[i].game = g)
  <2>1. CASE HttpSave(i)
    BY <1>2, <2>1 DEF HttpSave, redis
  <2>2. QED
    BY <1>6, <2>1 DEF HttpRequest, HttpStep, HttpLoad, HttpCheck, HttpAct, HttpEncode, HttpRemove,
       HttpAnnounce, redis
<1>7. ASSUME NEW i \in Instance, Crash(i) \/ (MatchStep(i) /\ ~CacheNewGame(i))
      PROVE  cached'[g] = cached[g]
  BY <1>7 DEF MatchStep, ReceiveMatch, ManageGame, PublishCreated, Crash, redis
<1>8. ASSUME NEW h \in Game, Expire(h)
      PROVE  cached'[g] = cached[g] \/ cached'[g].kept = "absent"
  BY <1>1, <1>8 DEF Expire
<1>9. CASE \/ \E m \in Match, q, r \in Player : MatchFound(m, q, r)
           \/ UNCHANGED vars
  BY <1>9 DEF MatchFound, vars, redis
<1>10. QED
  BY <1>3, <1>4, <1>5, <1>6, <1>7, <1>8, <1>9 DEF Next

\* The match subscription goes on to manage the game it has cached.
LEMMA MatchFields ==
  ASSUME TypeInv, NEW i \in Instance, MatchStep(i), ~RedisMayFail
  PROVE  LET t == matchTh[i]  u == matchTh'[i] IN
         \/ u = t
         \/ t.pc = "idle" /\ u.pc = "cache" /\ \E h \in Game : Draws(i, h) /\ u.game = h
         \/ t.pc = "cache" /\ u.pc = "manage" /\ u.game = t.game
         \/ t.pc = "manage" /\ u.pc = "publish" /\ u.game = t.game /\ t.game \in games'[i]
         \/ t.pc = "publish" /\ u.pc = "idle" /\ u.game = NoGame /\ UNCHANGED games
<1>1. matchTh \in [Instance -> MatchThread] /\ games \in [Instance -> SUBSET Game]
  BY DEF TypeInv, TypeOK
<1>2. ASSUME NEW m \in Match, ReceiveMatch(i, m), ~UNCHANGED matchTh
      PROVE  /\ matchTh[i].pc = "idle" /\ matchTh'[i].pc = "cache"
             /\ \E h \in Game : Draws(i, h) /\ matchTh'[i].game = h
  <2>1. PICK h \in Game, w \in matches[m], b \in matches[m] :
           /\ origin[h] = NoMatch
           /\ origin' = [origin EXCEPT ![h] = m]
           /\ object' = [object EXCEPT ![h] = NewGame(w, b)]
           /\ matchTh' = [matchTh EXCEPT ![i] = [pc |-> "cache", match |-> m, game |-> h]]
    BY <1>2 DEF ReceiveMatch
  <2>2. Draws(i, h)
    BY <1>2, <2>1 DEF ReceiveMatch, Draws
  <2>3. QED
    BY <1>1, <1>2, <2>1, <2>2 DEF ReceiveMatch
<1>3. CASE CacheNewGame(i)
  BY <1>1, <1>3 DEF CacheNewGame, RedisReply, MatchThread
<1>4. CASE ManageGame(i)
  BY <1>1, <1>4 DEF ManageGame, MatchThread
<1>5. CASE PublishCreated(i)
  BY <1>1, <1>5 DEF PublishCreated, MatchIdle, memory
<1>6. QED
  BY <1>2, <1>3, <1>4, <1>5 DEF MatchStep

\* What makes DroppedGameFreesPlayers inductive: the keys of a game are set when
\* it is cached, before anybody works on it, and deleted before it is dropped.
DropInv(g) ==
  /\ Dropped(g) => Freed(g)
  /\ \A i \in Instance :
       /\ Caching(i, g) => /\ Freed(g) /\ cached[g].kept = "absent"
                           /\ \A j \in Instance : httpTh[j].pc \notin {"idle", "load"} =>
                                httpTh[j].game # g
                           /\ \A j \in Instance : matchTh[j].game = g => j = i
       /\ matchTh[i].game = g => origin[g] # NoMatch
       /\ matchTh[i].pc = "publish" /\ matchTh[i].game = g => g \in games[i] \/ Freed(g)
       /\ Working(i, g) /\ gameTh[i].pc \in {"announce", "remove"} => Freed(g)
       /\ tickTh[i].pc \in {"announce", "remove"} /\ g \in tickTh[i].ending => Freed(g)
       /\ httpTh[i].pc \in {"remove", "announce"} /\ httpTh[i].game = g => Freed(g)
MatchShape(i) == matchTh[i].pc = "idle" => matchTh[i].game = NoGame

LEMMA NextMatchShape ==
  ASSUME TypeInv, [Next]_vars, ~MayCrash, ~RedisMayFail, NEW i \in Instance, MatchShape(i)
  PROVE  MatchShape(i)'
<1>1. ~Crash(i)
  BY DEF Crash
<1>2. QED
  BY <1>1, WhoseStep, MatchFields DEF MatchShape

\* An undrawn game is in no player's key and in no entry.
LEMMA UndrawnIsFree ==
  ASSUME LifeInv, KeysInv, NEW g \in Game, origin[g] = NoMatch
  PROVE  /\ Freed(g) /\ cached[g].kept = "absent"
         /\ \A j \in Instance : httpTh[j].pc # "idle" => httpTh[j].game # g
<1>1. Freed(g)
  BY PlayerAssumption, ServiceAssumption DEF LifeInv, BaseInv, NotDrawn, KeysInv, Freed
<1>2. cached[g].kept = "absent"
  BY DEF LifeInv, CopiesInv, CachedCopy
<1>3. QED
  BY <1>1, <1>2 DEF LifeInv, BaseInv, HttpEnd

LEMMA NextDrop ==
  ASSUME LifeInv, KeysInv, [Next]_vars, NEW g \in Game, DropInv(g),
         \A i \in Instance : TickShape(i) /\ MatchShape(i), ~RedisMayFail, ~MayCrash
  PROVE  DropInv(g)'
<1>1. /\ TypeInv /\ BaseInv /\ OwnerInv /\ CopiesInv /\ GamesKept
      /\ games \in [Instance -> SUBSET Game] /\ matchTh \in [Instance -> MatchThread]
      /\ gameTh \in [Instance -> GameThread] /\ tickTh \in [Instance -> TickThread]
      /\ httpTh \in [Instance -> HttpThread]
  BY NextKeeps DEF LifeInv, BaseInv, TypeInv, TypeOK
<1>2. \A i \in Instance : ~Crash(i)
  BY DEF Crash
<1>3. g # NoGame
  BY ServiceAssumption
<1>4. (\A j \in Instance : ~Caching(j, g)) /\ Freed(g) => Freed(g)'
  BY <1>1, FreedKept
<1>5. ASSUME NEW i \in Instance, Manages(i, g) PROVE \A j \in Instance : ~Caching(j, g)
  BY <1>1, <1>5 DEF OwnerInv, Holds, Starting, Caching
<1>6. ASSUME NEW i \in Instance, g \in games[i], g \notin games'[i]
      PROVE  Freed(g)'
  <2>1. Freed(g)
    BY <1>1, <1>6, WhoDrops DEF DropInv, Working
  <2>2. QED
    BY <1>4, <1>5, <1>6, <2>1 DEF Manages
<1>7. ASSUME NEW i \in Instance
      PROVE  \/ matchTh'[i] = matchTh[i]
             \/ matchTh[i].pc = "idle" /\ matchTh'[i].pc = "cache" /\
                  (matchTh'[i].game = g => Draws(i, g))
             \/ matchTh[i].pc = "cache" /\ matchTh'[i].pc = "manage" /\ matchTh'[i].game = matchTh[i].game
             \/ /\ matchTh[i].pc = "manage" /\ matchTh'[i].pc = "publish"
                /\ matchTh'[i].game = matchTh[i].game /\ matchTh[i].game \in games'[i]
             \/ /\ matchTh[i].pc = "publish" /\ matchTh'[i].pc = "idle" /\ matchTh'[i].game = NoGame
                /\ UNCHANGED games
  BY <1>1, <1>2, WhoseStep, MatchFields
<1>8. Dropped(g)' => Freed(g)'
  <2>. SUFFICES ASSUME Dropped(g)' PROVE Freed(g)'
    OBVIOUS
  <2>1. CASE Dropped(g)
    BY <1>4, <2>1 DEF DropInv, Dropped, Caching
  <2>2. CASE origin[g] = NoMatch
    <3>1. \A j \in Instance : ~Caching(j, g)
      BY <2>2 DEF DropInv, Caching
    <3>2. QED
      BY <1>4, <2>2, <3>1, UndrawnIsFree
  <2>3. ASSUME NEW i \in Instance, g \in games[i] PROVE Freed(g)'
    BY <1>6, <2>3 DEF Dropped
  <2>4. ASSUME NEW i \in Instance, matchTh[i].game = g PROVE Freed(g)'
    <3>1. /\ matchTh[i].pc = "publish" /\ UNCHANGED games
      BY <1>3, <1>7, <2>4 DEF Dropped, MatchShape
    <3>2. Freed(g)
      BY <2>4, <3>1 DEF DropInv, Dropped
    <3>3. \A j \in Instance : ~Caching(j, g)
      BY <2>4, <3>1 DEF DropInv, Caching
    <3>4. QED
      BY <1>4, <3>2, <3>3
  <2>5. QED
    BY <2>1, <2>2, <2>3, <2>4 DEF Dropped
<1>. SUFFICES ASSUME NEW i \in Instance
              PROVE  /\ Caching(i, g)' =>
                          /\ Freed(g)' /\ cached'[g].kept = "absent"
                          /\ \A j \in Instance :
                               /\ httpTh'[j].pc \notin {"idle", "load"} => httpTh'[j].game # g
                               /\ matchTh'[j].game = g => j = i
                     /\ matchTh'[i].game = g => origin'[g] # NoMatch
                     /\ matchTh'[i].pc = "publish" /\ matchTh'[i].game = g => g \in games'[i] \/ Freed(g)'
                     /\ Working(i, g)' /\ gameTh'[i].pc \in {"announce", "remove"} => Freed(g)'
                     /\ tickTh'[i].pc \in {"announce", "remove"} /\ g \in tickTh'[i].ending => Freed(g)'
                     /\ httpTh'[i].pc \in {"remove", "announce"} /\ httpTh'[i].game = g => Freed(g)'
  BY <1>8 DEF DropInv
<1>9. ASSUME Draws(i, g)
      PROVE  /\ Freed(g)' /\ cached'[g].kept = "absent"
             /\ \A j \in Instance :
                  /\ httpTh'[j].pc \notin {"idle", "load"} => httpTh'[j].game # g
                  /\ matchTh'[j].game = g => j = i
  <2>1. /\ origin[g] = NoMatch /\ UNCHANGED <<cached, playerGame, httpTh>>
        /\ \A j \in Instance : j # i => matchTh'[j] = matchTh[j]
    BY <1>1, <1>9 DEF Draws, redis
  <2>2. /\ Freed(g) /\ cached[g].kept = "absent"
        /\ \A j \in Instance : httpTh[j].pc # "idle" => httpTh[j].game # g
    BY <2>1, UndrawnIsFree
  <2>3. \A j \in Instance : matchTh[j].game # g
    BY <2>1 DEF DropInv
  <2>4. QED
    BY <2>1, <2>2, <2>3 DEF Freed
<1>10. ASSUME Caching(i, g), Caching(i, g)'
       PROVE  /\ Freed(g)' /\ cached'[g].kept = "absent"
              /\ \A j \in Instance :
                   /\ httpTh'[j].pc \notin {"idle", "load"} => httpTh'[j].game # g
                   /\ matchTh'[j].game = g => j = i
  <2>1. ~CacheNewGame(i)
    BY <1>1, <1>10 DEF CacheNewGame, MatchIdle, MatchThread, Caching
  <2>2. /\ Freed(g) /\ cached[g].kept = "absent" /\ origin[g] # NoMatch
        /\ \A j \in Instance : httpTh[j].pc \notin {"idle", "load"} => httpTh[j].game # g
        /\ \A j \in Instance : matchTh[j].game = g => j = i
    BY <1>10 DEF DropInv, Caching
  <2>3. \A j \in Instance : ~(CacheNewGame(j) /\ Caching(j, g)) /\ ~Manages(j, g)
    BY <1>1, <1>10, <2>1, <2>2 DEF Caching, OwnerInv, Holds, Starting
  <2>4. Freed(g)'
    BY <1>1, <2>2, <2>3, FreedKept
  <2>5. cached'[g].kept = "absent"
    BY <1>1, <2>2, <2>3, CacheWrites DEF Manages, Ticking
  <2>6. ASSUME NEW j \in Instance, httpTh'[j].pc \notin {"idle", "load"}, httpTh'[j].game = g
        PROVE  FALSE
    <3>1. CASE httpTh'[j] = httpTh[j]
      BY <2>2, <2>6, <3>1
    <3>2. CASE HttpStep(j)
      <4>1. httpTh[j].game = g /\ httpTh[j].pc = "load"
        BY <1>1, <2>2, <2>6, <3>2, HttpFields
      <4>2. HttpLoad(j)
        BY <3>2, <4>1 DEF HttpStep, HttpCheck, HttpAct, HttpEncode, HttpSave, HttpRemove, HttpAnnounce
      <4>3. httpTh'[j] = HttpIdle
        BY <1>1, <2>2, <4>1, <4>2 DEF HttpLoad
      <4>4. QED
        BY <2>6, <4>3 DEF HttpIdle
    <3>3. ASSUME NEW h \in Game, NEW p \in Player, HttpRequest(j, h, p)
          PROVE  FALSE
      <4>1. h = g /\ g \in games[j]
        BY <1>1, <2>6, <3>3 DEF HttpRequest, HttpIdle
      <4>2. QED
        BY <2>3, <4>1 DEF Manages
    <3>4. QED
      BY <1>1, <1>2, <3>1, <3>2, <3>3, WhoseStep
  <2>7. ASSUME NEW j \in Instance, matchTh'[j].game = g PROVE j = i
    BY <1>3, <1>7, <2>2, <2>7 DEF Draws
  <2>8. QED
    BY <2>4, <2>5, <2>6, <2>7
<1>11. Caching(i, g)' => Caching(i, g) \/ Draws(i, g)
  BY <1>7 DEF Caching
<1>12. matchTh'[i].game = g => origin'[g] # NoMatch
  <2>1. Draws(i, g) => origin'[g] # NoMatch
    BY <1>1, ServiceAssumption DEF Draws, TypeInv, TypeOK
  <2>2. QED
    BY <1>1, <1>3, <1>7, <2>1 DEF DropInv, GamesKept
<1>13. ASSUME matchTh'[i].pc = "publish", matchTh'[i].game = g
       PROVE  g \in games'[i] \/ Freed(g)'
  <2>1. CASE matchTh'[i] = matchTh[i]
    <3>1. \A j \in Instance : ~Caching(j, g)
      BY <1>13, <2>1 DEF DropInv, Caching
    <3>2. QED
      BY <1>4, <1>6, <1>13, <2>1, <3>1 DEF DropInv
  <2>2. QED
    BY <1>7, <1>13, <2>1
<1>14. ASSUME Working(i, g)', gameTh'[i].pc \in {"announce", "remove"}
       PROVE  Freed(g)'
  <2>1. CASE GameEvent(i)
    <3>1. gameTh'[i] = gameTh[i]
      BY ZenonT(30), <1>1, <1>14, <2>1 DEF GameEvent, ReceiveGameEvent, PlayerLeft, PlayerJoined,
         ForgetConnections, GameIdle
    <3>2. QED
      BY <1>4, <1>5, <1>14, <3>1 DEF DropInv, Working, Manages
  <2>2. CASE gameTh'[i] = gameTh[i]
    BY <1>4, <1>5, <1>14, <2>2 DEF DropInv, Working, Manages
  <2>3. CASE SaveEnd(i)
    <3>1. /\ gameTh[i].pc = "save" /\ DeactivateInRedis({gameTh[i].game}, [h \in {gameTh[i].game} |-> gameTh[i].copy])
          \/ gameTh'[i].pc = "idle"
      BY <1>1, <2>3 DEF SaveEnd, RedisReply, GameIdle
    <3>2. gameTh[i].game = g /\ gameTh[i].pc = "save"
      BY <1>1, <1>14, <2>3, StepFields DEF GoesOn, Returns, Working, SaveEnd
    <3>3. SamePlayers(gameTh[i].copy, g)
      BY <1>1, <3>2 DEF CopiesInv, GameCopy
    <3>4. DeactivateInRedis({g}, [h \in {g} |-> gameTh[i].copy])
      BY <1>14, <3>1, <3>2 DEF Working
    <3>5. QED
      BY <1>1, <3>3, <3>4, DeactivateFrees
  <2>4. CASE GameStep(i) /\ ~SaveEnd(i)
    <3>1. ~ActStep(i)
      BY <1>1, <1>14, ActCases DEF PlayedPly, Acted, Refused, GoesOn, Returns
    <3>2. gameTh[i].pc \in {"announce", "remove"} /\ gameTh[i].game = g
      <4>1. CASE AnnounceEnd(i)
        BY <1>1, <1>14, <4>1, StepFields DEF AnnounceEnd, GoesOn, Returns, Working
      <4>2. CASE RemoveGame(i)
        BY <1>1, <1>14, <4>2, StepFields DEF RemoveGame, GoesOn, Returns, Working
      <4>3. ~BranchOnOutcome(i) /\ ~EncodeGame(i) /\ ~SaveMove(i) /\ ~Approve(i)
        BY <1>1, <1>14, StepFields DEF GoesOn, Returns
      <4>4. QED
        BY <2>4, <3>1, <4>1, <4>2, <4>3 DEF GameStep, ActStep
    <3>3. QED
      BY <1>4, <1>5, <3>2 DEF DropInv, Working, Manages
  <2>5. QED
    BY <1>1, <1>2, <2>1, <2>2, <2>3, <2>4, WhoseStep
<1>15. ASSUME tickTh'[i].pc \in {"announce", "remove"}, g \in tickTh'[i].ending
       PROVE  Freed(g)'
  <2>1. CASE tickTh'[i] = tickTh[i]
    BY <1>4, <1>5, <1>15, <2>1 DEF DropInv, Manages, Ticking
  <2>2. CASE TickSave(i)
    <3>1. /\ tickTh[i].pc = "save"
          /\ tickTh'[i].ending = tickTh[i].ending
      BY <1>1, <2>2 DEF TickSave, TickThread
    <3>2. \E ok, applied \in BOOLEAN :
             /\ (ok => applied) /\ ok
             /\ IF applied THEN DeactivateInRedis(tickTh[i].ending, tickTh[i].copy) ELSE UNCHANGED redis
      BY <2>2 DEF TickSave, RedisReply
    <3>3. DeactivateInRedis(tickTh[i].ending, tickTh[i].copy)
      BY <3>2
    <3>4. SamePlayers(tickTh[i].copy[g], g)
      BY <1>1, <1>15, <2>2, <3>1 DEF CopiesInv, TickCopy, TickSave
    <3>5. QED
      BY <1>1, <1>15, <3>1, <3>3, <3>4, DeactivateFrees
  <2>3. CASE (TickList(i) \/ TickStep(i)) /\ ~TickSave(i)
    <3>1. tickTh[i].pc = "announce" /\ g \in tickTh[i].ending
      BY <1>1, <1>15, <2>3, TickFields
    <3>2. QED
      BY <1>4, <1>5, <3>1 DEF DropInv, Manages, Ticking
  <2>4. QED
    BY <1>1, <1>2, <2>1, <2>2, <2>3, WhoseStep
<1>16. ASSUME httpTh'[i].pc \in {"remove", "announce"}, httpTh'[i].game = g
       PROVE  Freed(g)'
  <2>1. ASSUME httpTh[i].pc \in {"remove", "announce"}, httpTh[i].game = g
        PROVE  Freed(g)'
    BY <1>4, <2>1 DEF DropInv
  <2>2. CASE HttpSave(i)
    <3>1. httpTh[i].pc = "save" /\ httpTh[i].game = g
      BY <1>1, <1>16, <2>2, HttpFields DEF HttpStep, HttpSave
    <3>2. \E ok, applied \in BOOLEAN :
             /\ (ok => applied) /\ ok
             /\ IF applied THEN DeactivateInRedis({httpTh[i].game}, [h \in {httpTh[i].game} |-> httpTh[i].copy])
                           ELSE UNCHANGED redis
      BY <2>2 DEF HttpSave, RedisReply
    <3>3. DeactivateInRedis({g}, [h \in {g} |-> httpTh[i].copy])
      BY <3>1, <3>2
    <3>4. SamePlayers(httpTh[i].copy, g)
      BY <1>1, <3>1 DEF CopiesInv, HttpCopy
    <3>5. QED
      BY <1>1, <3>3, <3>4, DeactivateFrees
  <2>3. CASE HttpStep(i) /\ ~HttpSave(i)
    BY <1>1, <1>16, <2>1, <2>3, HttpFields
  <2>4. \A h \in Game, p \in Player : ~HttpRequest(i, h, p)
    BY ZenonT(30), <1>1, <1>16 DEF HttpRequest, HttpIdle
  <2>5. QED
    BY <1>1, <1>2, <1>16, <2>1, <2>2, <2>3, <2>4, WhoseStep
<1>17. QED
  BY <1>9, <1>10, <1>11, <1>12, <1>13, <1>14, <1>15, <1>16

\* A game that was created and has left the memory of every instance has left
\* its players: no player_game key points to it, on any number of instances, as
\* long as Redis answers and no instance is restarted.
THEOREM DroppedGameFreesPlayersHolds ==
  ASSUME ~RedisMayFail, ~MayCrash
  PROVE  Spec => []DroppedGameFreesPlayers
<1>. DEFINE Inv == /\ LifeInv /\ KeysInv /\ (\A g \in Game : DropInv(g))
                   /\ \A i \in Instance : TickShape(i) /\ MatchShape(i)
<1>1. Init => Inv
  BY InitLife, ServiceAssumption DEF Init, KeysInv, DropInv, Dropped, Freed, Caching, TickShape, MatchShape,
     Working, GameIdle, TickIdle, MatchIdle, HttpIdle
<1>2. Inv /\ [Next]_vars => Inv'
  <2>. SUFFICES ASSUME Inv, [Next]_vars PROVE Inv'
    OBVIOUS
  <2>1. LifeInv' /\ KeysInv' /\ TypeInv
    BY NextLife, NextKeys DEF LifeInv, BaseInv
  <2>2. ASSUME NEW g \in Game PROVE DropInv(g)'
    BY NextDrop
  <2>3. ASSUME NEW i \in Instance PROVE TickShape(i)' /\ MatchShape(i)'
    BY <2>1, NextTickShape, NextMatchShape
  <2>4. QED
    BY <2>1, <2>2, <2>3
<1>3. Inv => DroppedGameFreesPlayers
  BY DEF DropInv, DroppedGameFreesPlayers, Freed
<1>4. QED
  BY <1>1, <1>2, <1>3, PTL DEF Spec
=============================================================================
