---------------------------- MODULE GameService ----------------------------
(***************************************************************************)
(* The game service: every instance's gameManager and connection tracker,  *)
(* the Redis cache the instances share, and the goroutines that work on    *)
(* them.  A goroutine's handler is a sequence of actions: one per access   *)
(* to state another goroutine can reach, and one per call that leaves the  *)
(* process (Redis, Kafka).  A failed call returns where the code returns,  *)
(* and may or may not have taken effect.                                   *)
(*                                                                         *)
(*   matchTh  the match-topic subscription   (handleEventUsersMatched)     *)
(*   gameTh   the game-topic subscription    (the other event handlers)    *)
(*   tickTh   the 2 s ticker                 (checkPlayersConnection)      *)
(*   httpTh   one GET /live/resign request   (ResingByPlayer)              *)
(***************************************************************************)
EXTENDS GameEntity, Sequences

CONSTANTS
  Instance,      \* running instances, each with its own consumer group
  Match,         \* identities of match.created events
  Game,          \* game ids that NewObjectId can draw
  NoGame, NoMatch,
  MaxMoves,      \* bound: plies per game
  Kinds,         \* bound: the player events of a run
  RedisMayFail, PublishMayFail, MayCrash, MayRejoin, HttpResign   \* BOOLEAN

EventKind == {"move", "offer", "accept", "reject", "claim", "resign"}

ASSUME ServiceAssumption ==
  /\ NoGame \notin Game /\ NoMatch \notin Match
  /\ MaxMoves \in Nat /\ Kinds \subseteq EventKind
  /\ {RedisMayFail, PublishMayFail, MayCrash, MayRejoin, HttpResign} \subseteq BOOLEAN

VARIABLES
  matches,     \* match.created events published: the two users of each
  inbox,       \* match.created events an instance has still to consume
  origin,      \* the match a game was created for (NoMatch: id not drawn)
  object,      \* the entity.Game in the memory of the creating instance
  games,       \* gameManager.games
  away,        \* playersConnectionTracker.list: who is gone, who went first
  cached,      \* Redis game:<id>
  playerGame,  \* Redis player_game:<id>
  matchTh, gameTh, tickTh, httpTh,
  created,     \* games announced with game.created
  approved,    \* plies announced with game.moveApproved, in order
  ended,       \* game.ended announcements: the goroutine and the outcome
  late         \* number of plies approved after the end was announced

redis  == <<cached, playerGame>>
bus    == <<matches, inbox, created, approved, ended, late>>
memory == <<origin, object, games, away>>
vars   == <<redis, bus, memory, matchTh, gameTh, tickTh, httpTh>>

-----------------------------------------------------------------------------
(* Types *)

NoRecord == NewGame(NoPlayer, NoPlayer)

GoneRecord == [gone: SUBSET Player, first: PlayerOrNone]
NobodyGone == [gone |-> {}, first |-> NoPlayer]

CacheEntry == [kept: {"absent", "forever", "ttl"}, game: GameRecord]
Absent     == [kept |-> "absent", game |-> NoRecord]

GameOrNone == Game \cup {NoGame}

MatchThread == [pc: {"idle", "cache", "manage", "publish"},
                match: Match \cup {NoMatch}, game: GameOrNone]
MatchIdle   == [pc |-> "idle", match |-> NoMatch, game |-> NoGame]

GameThread == [pc: {"idle", "act", "branch", "encodeMove", "saveMove", "approve",
                    "encode", "save", "remove", "announce"},
               kind: EventKind, game: GameOrNone, by: PlayerOrNone, ply: Nat,
               copy: GameRecord]
GameIdle   == [pc |-> "idle", kind |-> "move", game |-> NoGame, by |-> NoPlayer,
               ply |-> 0, copy |-> NoRecord]

TickThread == [pc: {"idle", "scan", "loop", "left", "save", "announce", "remove"},
               list: SUBSET Game, loser: [Game -> PlayerOrNone], game: GameOrNone,
               ending: SUBSET Game, outcome: [Game -> Outcome],
               copy: [Game -> GameRecord]]
TickIdle   == [pc |-> "idle", list |-> {}, loser |-> [g \in Game |-> NoPlayer],
               game |-> NoGame, ending |-> {}, outcome |-> [g \in Game |-> "none"],
               copy |-> [g \in Game |-> NoRecord]]

\* "local" is the decoded copy of a game this instance does not manage;
\* NoRecord when the request works on the managed object.
HttpThread == [pc: {"idle", "load", "check", "resign", "encode", "save", "remove",
                    "announce"},
               game: GameOrNone, by: PlayerOrNone, local: GameRecord,
               copy: GameRecord]
HttpIdle   == [pc |-> "idle", game |-> NoGame, by |-> NoPlayer,
               local |-> NoRecord, copy |-> NoRecord]

Announcement == [by: {"game", "tick", "http"}, outcome: Outcome]

\* Type invariant.
TypeOK ==
  /\ matches \in [Match -> SUBSET Player]
  /\ inbox \in [Instance -> SUBSET Match]
  /\ origin \in [Game -> Match \cup {NoMatch}]
  /\ object \in [Game -> GameRecord]
  /\ games \in [Instance -> SUBSET Game]
  /\ away \in [Instance -> [Game -> GoneRecord]]
  /\ cached \in [Game -> CacheEntry]
  /\ playerGame \in [Player -> GameOrNone]
  /\ matchTh \in [Instance -> MatchThread]
  /\ gameTh \in [Instance -> GameThread]
  /\ tickTh \in [Instance -> TickThread]
  /\ httpTh \in [Instance -> HttpThread]
  /\ created \subseteq Game
  /\ approved \in [Game -> Seq(Nat)]
  /\ ended \in [Game -> SUBSET Announcement]
  /\ late \in [Game -> Nat]

-----------------------------------------------------------------------------
Init ==
  /\ matches = [m \in Match |-> {}]
  /\ inbox = [i \in Instance |-> {}]
  /\ origin = [g \in Game |-> NoMatch]
  /\ object = [g \in Game |-> NoRecord]
  /\ games = [i \in Instance |-> {}]
  /\ away = [i \in Instance |-> [g \in Game |-> NobodyGone]]
  /\ cached = [g \in Game |-> Absent]
  /\ playerGame = [p \in Player |-> NoGame]
  /\ matchTh = [i \in Instance |-> MatchIdle]
  /\ gameTh = [i \in Instance |-> GameIdle]
  /\ tickTh = [i \in Instance |-> TickIdle]
  /\ httpTh = [i \in Instance |-> HttpIdle]
  /\ created = {}
  /\ approved = [g \in Game |-> <<>>]
  /\ ended = [g \in Game |-> {}]
  /\ late = [g \in Game |-> 0]

-----------------------------------------------------------------------------
(* Calls that leave the process *)

\* What a call may report (ok) and have done (applied, or the events sent).
RedisReply(ok, applied)   == (ok => applied) /\ (RedisMayFail \/ ok)
PublishReply(ok, sentAll) == (ok => sentAll) /\ (PublishMayFail \/ ok)

\* (mutant of DeactivateInRedis) only the white player's key is deleted.
DeactivateFreesWhite(gs, copy) ==
  /\ cached' = [g \in Game |->
       IF g \in gs THEN [kept |-> "ttl", game |-> copy[g]] ELSE cached[g]]
  /\ playerGame' = [p \in Player |->
       IF \E g \in gs : p = copy[g].white THEN NoGame ELSE playerGame[p]]

\* updateAndDeactivateGame: one MULTI/EXEC over the games of one call.
DeactivateInRedis(gs, copy) ==
  /\ cached' = [g \in Game |->
       IF g \in gs THEN [kept |-> "ttl", game |-> copy[g]] ELSE cached[g]]
  /\ playerGame' = [p \in Player |->
       IF \E g \in gs : p \in PlayersOf(copy[g]) THEN NoGame ELSE playerGame[p]]

ApproveMove(g, n) ==
  /\ approved' = [approved EXCEPT ![g] = Append(@, n)]
  /\ late' = [late EXCEPT ![g] = IF ended[g] # {} THEN @ + 1 ELSE @]

-----------------------------------------------------------------------------
(* Matches arrive *)

\* The match service pairs users who had no live game when it asked; how old
\* that answer is when an instance consumes the event is up to the inbox.
MatchFound(m, p, q) ==
  /\ matches[m] = {} /\ p # q
  /\ playerGame[p] = NoGame /\ playerGame[q] = NoGame
  /\ matches' = [matches EXCEPT ![m] = {p, q}]
  /\ inbox' = [i \in Instance |-> inbox[i] \cup {m}]
  /\ UNCHANGED <<redis, created, approved, ended, late, memory,
                 matchTh, gameTh, tickTh, httpTh>>

\* (mutant of HasGame) only the first player of a game is looked at.
HasGameAsWhite(i, p) == \E g \in games[i] : p = object[g].white

HasGame(i, p) == \E g \in games[i] : p \in PlayersOf(object[g])

\* handleEventUsersMatched up to NewGame: a match of a playing user is
\* dropped, any other draws a fresh id and colours.
ReceiveMatch(i, m) ==
  /\ matchTh[i].pc = "idle" /\ m \in inbox[i]
  /\ inbox' = [inbox EXCEPT ![i] = @ \ {m}]
  /\ \/ /\ \E p \in matches[m] : HasGame(i, p)
        /\ UNCHANGED <<origin, object, matchTh>>
     \/ /\ \A p \in matches[m] : ~HasGame(i, p)
        /\ \E g \in Game, w, b \in matches[m] :
             /\ origin[g] = NoMatch /\ w # b
             /\ origin' = [origin EXCEPT ![g] = m]
             /\ object' = [object EXCEPT ![g] = NewGame(w, b)]
             /\ matchTh' = [matchTh EXCEPT ![i] =
                              [pc |-> "cache", match |-> m, game |-> g]]
  /\ UNCHANGED <<redis, matches, created, approved, ended, late, games, away,
                 gameTh, tickTh, httpTh>>

\* cache.addGame: the script stores the game and maps both players to it.
CacheNewGame(i) ==
  /\ matchTh[i].pc = "cache"
  /\ \E ok, applied \in BOOLEAN :
       /\ RedisReply(ok, applied)
       /\ IF applied
            THEN LET g == matchTh[i].game IN
                 /\ cached' = [cached EXCEPT ![g] =
                      [kept |-> "forever", game |-> Encoded(object[g])]]
                 /\ playerGame' = [p \in Player |->
                      IF p \in PlayersOf(object[g]) THEN g ELSE playerGame[p]]
            ELSE UNCHANGED redis
       /\ matchTh' = [matchTh EXCEPT ![i] =
            IF ok THEN [@ EXCEPT !.pc = "manage"] ELSE MatchIdle]
  /\ UNCHANGED <<bus, memory, gameTh, tickTh, httpTh>>

\* gm.addGame
ManageGame(i) ==
  /\ matchTh[i].pc = "manage"
  /\ games' = [games EXCEPT ![i] = @ \cup {matchTh[i].game}]
  /\ matchTh' = [matchTh EXCEPT ![i].pc = "publish"]
  /\ UNCHANGED <<redis, bus, origin, object, away, gameTh, tickTh, httpTh>>

\* A failed publication of game.created is logged, nothing else.
PublishCreated(i) ==
  /\ matchTh[i].pc = "publish"
  /\ \E ok, sent \in BOOLEAN :
       /\ PublishReply(ok, sent)
       /\ created' = IF sent THEN created \cup {matchTh[i].game} ELSE created
  /\ matchTh' = [matchTh EXCEPT ![i] = MatchIdle]
  /\ UNCHANGED <<redis, matches, inbox, approved, ended, late, memory,
                 gameTh, tickTh, httpTh>>

-----------------------------------------------------------------------------
(* The game-topic subscription *)

\* (mutant of ReceiveGameEvent) the status check is dropped.
ReceiveAnyGameEvent(i, g, p, kind, n) ==
  /\ gameTh[i].pc = "idle"
  /\ g \in games[i] /\ p \in PlayersOf(object[g])
  /\ gameTh' = [gameTh EXCEPT ![i] = [GameIdle EXCEPT
       !.pc = "act", !.kind = kind, !.game = g, !.by = p, !.ply = n]]
  /\ UNCHANGED <<redis, bus, memory, matchTh, tickTh, httpTh>>

\* getGame and the status check every handler starts with; an event of a game
\* not managed here, or already over, is dropped.
ReceiveGameEvent(i, g, p, kind, n) ==
  /\ gameTh[i].pc = "idle"
  /\ g \in games[i] /\ object[g].status = "active"
  /\ p \in PlayersOf(object[g])
  /\ gameTh' = [gameTh EXCEPT ![i] = [GameIdle EXCEPT
       !.pc = "act", !.kind = kind, !.game = g, !.by = p, !.ply = n]]
  /\ UNCHANGED <<redis, bus, memory, matchTh, tickTh, httpTh>>

\* The entity method of the event under the game's lock: if it accepts, the
\* game changes and the handler goes on at next; otherwise the handler returns.
Act(i, kind, accepts, game, next) ==
  /\ gameTh[i].pc = "act" /\ gameTh[i].kind = kind
  /\ IF accepts
       THEN /\ object' = [object EXCEPT ![gameTh[i].game] = game]
            /\ gameTh' = [gameTh EXCEPT ![i] =
                 IF next = "idle" THEN GameIdle ELSE [@ EXCEPT !.pc = next]]
       ELSE /\ gameTh' = [gameTh EXCEPT ![i] = GameIdle]
            /\ UNCHANGED object
  /\ UNCHANGED <<redis, bus, origin, games, away, matchTh, tickTh, httpTh>>

\* legal and holds are the chess library's verdicts on the position.
ActMove(i) ==
  LET t == gameTh[i]  g == object[t.game] IN
  \E legal \in BOOLEAN, res \in PlyResult :
    Act(i, "move", legal /\ MayMove(g, t.by, t.ply), Moved(g, res), "branch")

ActOffer(i) ==
  LET t == gameTh[i]  g == object[t.game] IN
  Act(i, "offer", MayOfferDraw(g, t.by), DrawOffered(g, t.by), "idle")

ActReject(i) ==
  LET t == gameTh[i]  g == object[t.game] IN
  Act(i, "reject", MayAnswerDraw(g, t.by), DrawRejected(g), "idle")

ActAccept(i) ==
  LET t == gameTh[i]  g == object[t.game] IN
  Act(i, "accept", MayAnswerDraw(g, t.by), DrawAccepted(g), "encode")

ActClaim(i) ==
  LET g == object[gameTh[i].game] IN
  \E holds \in BOOLEAN : Act(i, "claim", holds, DrawClaimed(g), "encode")

ActResign(i) ==
  LET t == gameTh[i]  g == object[t.game] IN
  Act(i, "resign", TRUE, Resigned(g, t.by), "encode")

\* After a ply: a game with a result is deactivated, any other is saved.
BranchOnOutcome(i) ==
  LET g == gameTh[i].game IN
  /\ gameTh[i].pc = "branch"
  /\ IF object[g].outcome # "none"
       THEN /\ object' = [object EXCEPT ![g] = Deactivated(@)]
            /\ gameTh' = [gameTh EXCEPT ![i].pc = "encode"]
       ELSE /\ gameTh' = [gameTh EXCEPT ![i].pc = "encodeMove"]
            /\ UNCHANGED object
  /\ UNCHANGED <<redis, bus, origin, games, away, matchTh, tickTh, httpTh>>

EncodeGame(i) ==
  /\ gameTh[i].pc \in {"encode", "encodeMove"}
  /\ gameTh' = [gameTh EXCEPT
       ![i].pc = IF @ = "encode" THEN "save" ELSE "saveMove",
       ![i].copy = Encoded(object[gameTh[i].game])]
  /\ UNCHANGED <<redis, bus, memory, matchTh, tickTh, httpTh>>

\* updateGameMove: a plain SET, without expiry.
SaveMove(i) ==
  LET g == gameTh[i].game IN
  /\ gameTh[i].pc = "saveMove"
  /\ \E ok, applied \in BOOLEAN :
       /\ RedisReply(ok, applied)
       /\ cached' = IF applied
            THEN [cached EXCEPT ![g] = [kept |-> "forever", game |-> gameTh[i].copy]]
            ELSE cached
       /\ gameTh' = [gameTh EXCEPT ![i] =
            IF ok THEN [@ EXCEPT !.pc = "approve", !.copy = NoRecord] ELSE GameIdle]
  /\ UNCHANGED <<playerGame, bus, memory, matchTh, tickTh, httpTh>>

Approve(i) ==
  /\ gameTh[i].pc = "approve"
  /\ \E ok, sent \in BOOLEAN :
       /\ PublishReply(ok, sent)
       /\ IF sent THEN ApproveMove(gameTh[i].game, gameTh[i].ply)
                  ELSE UNCHANGED <<approved, late>>
  /\ gameTh' = [gameTh EXCEPT ![i] = GameIdle]
  /\ UNCHANGED <<redis, matches, inbox, created, ended, memory,
                 matchTh, tickTh, httpTh>>

\* (mutant of SaveEnd) an error of Redis is ignored.
SaveEndUnchecked(i) ==
  LET t == gameTh[i] IN
  /\ t.pc = "save"
  /\ \E ok, applied \in BOOLEAN :
       /\ RedisReply(ok, applied)
       /\ IF applied THEN DeactivateInRedis({t.game}, [g \in {t.game} |-> t.copy])
                     ELSE UNCHANGED redis
  /\ gameTh' = [gameTh EXCEPT ![i].copy = NoRecord,
       ![i].pc = IF t.kind = "resign" THEN "remove" ELSE "announce"]
  /\ UNCHANGED <<bus, memory, matchTh, tickTh, httpTh>>

\* updateAndDeactivateGame; the handler of a resignation then drops the game
\* before it announces the end, the others the other way round.
SaveEnd(i) ==
  LET t == gameTh[i] IN
  /\ t.pc = "save"
  /\ \E ok, applied \in BOOLEAN :
       /\ RedisReply(ok, applied)
       /\ IF applied THEN DeactivateInRedis({t.game}, [g \in {t.game} |-> t.copy])
                     ELSE UNCHANGED redis
       /\ gameTh' = [gameTh EXCEPT ![i] =
            IF ~ok THEN GameIdle
            ELSE [@ EXCEPT !.pc = IF t.kind = "resign" THEN "remove" ELSE "announce",
                           !.copy = NoRecord]]
  /\ UNCHANGED <<bus, memory, matchTh, tickTh, httpTh>>

\* game.ended, after game.moveApproved when a ply ended the game.  When the
\* publication fails the move and draw handlers return, and keep the game.
AnnounceEnd(i) ==
  LET t == gameTh[i] IN
  /\ t.pc = "announce"
  /\ \E ok, moveSent, endSent \in BOOLEAN :
       /\ PublishReply(ok, moveSent /\ endSent)
       /\ IF moveSent /\ t.kind = "move" THEN ApproveMove(t.game, t.ply)
                                         ELSE UNCHANGED <<approved, late>>
       /\ ended' = IF endSent
            THEN [ended EXCEPT ![t.game] =
                    @ \cup {[by |-> "game", outcome |-> object[t.game].outcome]}]
            ELSE ended
       /\ gameTh' = [gameTh EXCEPT ![i] =
            IF ok /\ t.kind # "resign" THEN [@ EXCEPT !.pc = "remove"] ELSE GameIdle]
  /\ UNCHANGED <<redis, matches, inbox, created, memory, matchTh, tickTh, httpTh>>

\* (mutant of RemoveGame) the game stays in memory.
KeepGame(i) ==
  LET t == gameTh[i] IN
  /\ t.pc = "remove"
  /\ gameTh' = [gameTh EXCEPT ![i] =
       IF t.kind = "resign" THEN [@ EXCEPT !.pc = "announce"] ELSE GameIdle]
  /\ UNCHANGED <<redis, bus, memory, matchTh, tickTh, httpTh>>

RemoveGame(i) ==
  LET t == gameTh[i] IN
  /\ t.pc = "remove"
  /\ games' = [games EXCEPT ![i] = @ \ {t.game}]
  /\ gameTh' = [gameTh EXCEPT ![i] =
       IF t.kind = "resign" THEN [@ EXCEPT !.pc = "announce"] ELSE GameIdle]
  /\ UNCHANGED <<redis, bus, origin, object, away, matchTh, tickTh, httpTh>>

\* The connection tracker keeps one disconnection time per player; what the
\* ticker asks of the times is who has been gone longest.
Gone(r, p) ==
  LET rest == r.gone \ {p} IN
  [gone |-> r.gone \cup {p},
   first |-> IF rest = {} THEN p ELSE CHOOSE q \in rest : TRUE]

Back(r, p) ==
  LET rest == r.gone \ {p} IN
  [gone |-> rest,
   first |-> IF rest = {} THEN NoPlayer ELSE CHOOSE q \in rest : TRUE]

\* Every instance tracks the players of every game.
PlayerLeft(i, g, p) ==
  /\ gameTh[i].pc = "idle" /\ p \in PlayersOf(object[g]) \cap Player
  /\ away' = [away EXCEPT ![i][g] = Gone(@, p)]
  /\ UNCHANGED <<redis, bus, origin, object, games, matchTh, gameTh, tickTh, httpTh>>

PlayerJoined(i, g, p) ==
  /\ MayRejoin /\ gameTh[i].pc = "idle" /\ p \in away[i][g].gone
  /\ away' = [away EXCEPT ![i][g] = Back(@, p)]
  /\ UNCHANGED <<redis, bus, origin, object, games, matchTh, gameTh, tickTh, httpTh>>

\* handleEventGameEnded's half in this component (the live list has its own).
ForgetConnections(i, g) ==
  /\ gameTh[i].pc = "idle" /\ ended[g] # {}
  /\ away' = [away EXCEPT ![i][g] = NobodyGone]
  /\ UNCHANGED <<redis, bus, origin, object, games, matchTh, gameTh, tickTh, httpTh>>

-----------------------------------------------------------------------------
(* The ticker: checkPlayersConnection *)

TickList(i) ==
  /\ tickTh[i].pc = "idle"
  /\ tickTh' = [tickTh EXCEPT ![i] = [TickIdle EXCEPT !.pc = "scan", !.list = games[i]]]
  /\ UNCHANGED <<redis, bus, memory, matchTh, gameTh, httpTh>>

\* getGamesNeedsToRemove: in the games of due the first to go has been gone
\* longer than the threshold; their entries are taken out.  The threshold (120 s)
\* dwarfs the gap between snapshot and scan, so no game managed since is due.
TickScan(i, due) ==
  /\ tickTh[i].pc = "scan" /\ due \cap games[i] \subseteq tickTh[i].list
  /\ \A g \in due : away[i][g].gone # {}
  /\ away' = [away EXCEPT ![i] =
       [g \in Game |-> IF g \in due THEN NobodyGone ELSE away[i][g]]]
  /\ tickTh' = [tickTh EXCEPT
       ![i].pc = "loop", ![i].list = @ \cap due,
       ![i].loser = [g \in Game |-> IF g \in due \cap tickTh[i].list
                                     THEN away[i][g].first ELSE NoPlayer]]
  /\ UNCHANGED <<redis, bus, origin, object, games, matchTh, gameTh, httpTh>>

\* (mutant of TickCheck) the status test is inverted: active games are skipped.
TickCheckInverted(i, g) ==
  /\ tickTh[i].pc = "loop" /\ g \in tickTh[i].list
  /\ tickTh' = [tickTh EXCEPT
       ![i].list = @ \ {g},
       ![i].pc = IF object[g].status = "active" THEN "loop" ELSE "left",
       ![i].game = IF object[g].status = "active" THEN NoGame ELSE g]
  /\ UNCHANGED <<redis, bus, memory, matchTh, gameTh, httpTh>>

\* Every absent player is over the threshold.
AllDue(i) == {g \in Game : /\ away[i][g].gone # {}
                           /\ g \in games[i] => g \in tickTh[i].list}

\* The loop over the snapshot: a game seen over is skipped, ...
TickCheck(i, g) ==
  /\ tickTh[i].pc = "loop" /\ g \in tickTh[i].list
  /\ tickTh' = [tickTh EXCEPT
       ![i].list = @ \ {g},
       ![i].pc = IF object[g].status = "active" THEN "left" ELSE "loop",
       ![i].game = IF object[g].status = "active" THEN g ELSE NoGame]
  /\ UNCHANGED <<redis, bus, memory, matchTh, gameTh, httpTh>>

\* ... any other is lost by the absent player, with the outcome read at once.
TickForfeit(i) ==
  LET t == tickTh[i]
      over == Resigned(object[t.game], t.loser[t.game]) IN
  /\ t.pc = "left"
  /\ object' = [object EXCEPT ![t.game] = over]
  /\ tickTh' = [tickTh EXCEPT
       ![i].pc = "loop", ![i].game = NoGame, ![i].ending = @ \cup {t.game},
       ![i].outcome = [@ EXCEPT ![t.game] = over.outcome]]
  /\ UNCHANGED <<redis, bus, origin, games, away, matchTh, gameTh, httpTh>>

TickEncode(i) ==
  LET t == tickTh[i] IN
  /\ t.pc = "loop" /\ t.list = {}
  /\ tickTh' = [tickTh EXCEPT ![i] =
       IF t.ending = {} THEN TickIdle
       ELSE [@ EXCEPT !.pc = "save",
                      !.loser = TickIdle.loser,
                      !.copy = [g \in Game |-> IF g \in t.ending
                                  THEN Encoded(object[g]) ELSE NoRecord]]]
  /\ UNCHANGED <<redis, bus, memory, matchTh, gameTh, httpTh>>

\* An error of Redis is only logged.
TickSave(i) ==
  LET t == tickTh[i] IN
  /\ t.pc = "save"
  /\ \E ok, applied \in BOOLEAN :
       /\ RedisReply(ok, applied)
       /\ IF applied THEN DeactivateInRedis(t.ending, t.copy) ELSE UNCHANGED redis
  /\ tickTh' = [tickTh EXCEPT ![i].pc = "announce", ![i].copy = TickIdle.copy]
  /\ UNCHANGED <<bus, memory, matchTh, gameTh, httpTh>>

\* So is an error of the publisher, which may have sent some of the events.
TickAnnounce(i) ==
  LET t == tickTh[i] IN
  /\ t.pc = "announce"
  /\ \E ok \in BOOLEAN, sent \in SUBSET t.ending :
       /\ PublishReply(ok, sent = t.ending)
       /\ ended' = [g \in Game |-> IF g \in sent
            THEN ended[g] \cup {[by |-> "tick", outcome |-> t.outcome[g]]}
            ELSE ended[g]]
  /\ tickTh' = [tickTh EXCEPT ![i].pc = "remove"]
  /\ UNCHANGED <<redis, matches, inbox, created, approved, late, memory,
                 matchTh, gameTh, httpTh>>

\* (mutant of TickRemove) the ended games stay in memory.
TickKeep(i) ==
  /\ tickTh[i].pc = "remove"
  /\ tickTh' = [tickTh EXCEPT ![i] = TickIdle]
  /\ UNCHANGED <<redis, bus, memory, matchTh, gameTh, httpTh>>

TickRemove(i) ==
  /\ tickTh[i].pc = "remove"
  /\ games' = [games EXCEPT ![i] = @ \ tickTh[i].ending]
  /\ tickTh' = [tickTh EXCEPT ![i] = TickIdle]
  /\ UNCHANGED <<redis, bus, origin, object, away, matchTh, gameTh, httpTh>>

-----------------------------------------------------------------------------
(* A resignation over HTTP: ResingByPlayer *)

\* getGameByID: the managed object, or else whatever Redis holds.
HttpRequest(i, g, p) ==
  /\ HttpResign /\ httpTh[i].pc = "idle"
  /\ p \in PlayersOf(object[g]) \cap Player
  /\ httpTh' = [httpTh EXCEPT ![i] = [HttpIdle EXCEPT
       !.pc = IF g \in games[i] THEN "check" ELSE "load", !.game = g, !.by = p]]
  /\ UNCHANGED <<redis, bus, memory, matchTh, gameTh, tickTh>>

\* The decoded copy is this request's own.  No entry, a read error and a game
\* that is over all answer "game not found" or the error.
HttpLoad(i) ==
  LET c == cached[httpTh[i].game] IN
  /\ httpTh[i].pc = "load"
  /\ \E ok \in BOOLEAN :
       /\ RedisReply(ok, TRUE)
       /\ httpTh' = [httpTh EXCEPT ![i] =
            IF ok /\ c.kept # "absent" /\ c.game.status = "active"
              THEN [@ EXCEPT !.pc = "resign", !.local = c.game] ELSE HttpIdle]
  /\ UNCHANGED <<redis, bus, memory, matchTh, gameTh, tickTh>>

HttpCheck(i) ==
  /\ httpTh[i].pc = "check"
  /\ httpTh' = [httpTh EXCEPT ![i] =
       IF object[@.game].status = "active" THEN [@ EXCEPT !.pc = "resign"] ELSE HttpIdle]
  /\ UNCHANGED <<redis, bus, memory, matchTh, gameTh, tickTh>>

HttpOnObject(t) == t.local = NoRecord

HttpAct(i) ==
  LET t == httpTh[i] IN
  /\ t.pc = "resign"
  /\ IF HttpOnObject(t)
       THEN /\ object' = [object EXCEPT ![t.game] = Resigned(@, t.by)]
            /\ httpTh' = [httpTh EXCEPT ![i].pc = "encode"]
       ELSE /\ httpTh' = [httpTh EXCEPT ![i].pc = "encode",
                                        ![i].local = Resigned(@, t.by)]
            /\ UNCHANGED object
  /\ UNCHANGED <<redis, bus, origin, games, away, matchTh, gameTh, tickTh>>

HttpGame(t) == IF HttpOnObject(t) THEN object[t.game] ELSE t.local

HttpEncode(i) ==
  /\ httpTh[i].pc = "encode"
  /\ httpTh' = [httpTh EXCEPT ![i].pc = "save", ![i].copy = Encoded(HttpGame(httpTh[i]))]
  /\ UNCHANGED <<redis, bus, memory, matchTh, gameTh, tickTh>>

HttpSave(i) ==
  LET t == httpTh[i] IN
  /\ t.pc = "save"
  /\ \E ok, applied \in BOOLEAN :
       /\ RedisReply(ok, applied)
       /\ IF applied THEN DeactivateInRedis({t.game}, [g \in {t.game} |-> t.copy])
                     ELSE UNCHANGED redis
       /\ httpTh' = [httpTh EXCEPT ![i] =
            IF ok THEN [@ EXCEPT !.pc = "remove", !.copy = NoRecord] ELSE HttpIdle]
  /\ UNCHANGED <<bus, memory, matchTh, gameTh, tickTh>>

HttpRemove(i) ==
  /\ httpTh[i].pc = "remove"
  /\ games' = [games EXCEPT ![i] = @ \ {httpTh[i].game}]
  /\ httpTh' = [httpTh EXCEPT ![i].pc = "announce"]
  /\ UNCHANGED <<redis, bus, origin, object, away, matchTh, gameTh, tickTh>>

HttpAnnounce(i) ==
  LET t == httpTh[i] IN
  /\ t.pc = "announce"
  /\ \E ok, sent \in BOOLEAN :
       /\ PublishReply(ok, sent)
       /\ ended' = IF sent
            THEN [ended EXCEPT ![t.game] =
                    @ \cup {[by |-> "http", outcome |-> HttpGame(t).outcome]}]
            ELSE ended
  /\ httpTh' = [httpTh EXCEPT ![i] = HttpIdle]
  /\ UNCHANGED <<redis, matches, inbox, created, approved, late, memory,
                 matchTh, gameTh, tickTh>>

-----------------------------------------------------------------------------
(* The environment *)

\* Redis drops an ended game when its 15 minutes are over.
Expire(g) ==
  /\ cached[g].kept = "ttl"
  /\ cached' = [cached EXCEPT ![g] = Absent]
  /\ UNCHANGED <<playerGame, bus, memory, matchTh, gameTh, tickTh, httpTh>>

\* An instance stops and starts again: its memory is empty, nothing is read
\* back from Redis (service.go:55-57), and the match it was working on is
\* consumed again unless the offset was committed.
Crash(i) ==
  /\ MayCrash
  /\ games' = [games EXCEPT ![i] = {}]
  /\ away' = [away EXCEPT ![i] = [g \in Game |-> NobodyGone]]
  /\ matchTh' = [matchTh EXCEPT ![i] = MatchIdle]
  /\ gameTh' = [gameTh EXCEPT ![i] = GameIdle]
  /\ tickTh' = [tickTh EXCEPT ![i] = TickIdle]
  /\ httpTh' = [httpTh EXCEPT ![i] = HttpIdle]
  /\ \/ UNCHANGED inbox
     \/ /\ matchTh[i].match # NoMatch
        /\ inbox' = [inbox EXCEPT ![i] = @ \cup {matchTh[i].match}]
  /\ UNCHANGED <<redis, matches, created, approved, ended, late, origin, object>>

-----------------------------------------------------------------------------
MatchStep(i) ==
  \/ \E m \in Match : ReceiveMatch(i, m)
  \/ CacheNewGame(i) \/ ManageGame(i) \/ PublishCreated(i)

GameEvent(i) ==
  \/ \E g \in Game, p \in Player :
       \/ \E kind \in Kinds, n \in 0..MaxMoves :
            /\ (kind = "move") = (n # 0)
            /\ ReceiveGameEvent(i, g, p, kind, n)
       \/ PlayerLeft(i, g, p) \/ PlayerJoined(i, g, p)
  \/ \E g \in Game : ForgetConnections(i, g)

GameStep(i) ==
  \/ ActMove(i) \/ ActOffer(i) \/ ActReject(i)
  \/ ActAccept(i) \/ ActClaim(i) \/ ActResign(i)
  \/ BranchOnOutcome(i) \/ EncodeGame(i)
  \/ SaveMove(i) \/ Approve(i)
  \/ SaveEnd(i) \/ AnnounceEnd(i) \/ RemoveGame(i)

TickStep(i) ==
  \/ \E due \in SUBSET Game : TickScan(i, due)
  \/ \E g \in Game : TickCheck(i, g)
  \/ TickForfeit(i) \/ TickEncode(i) \/ TickSave(i)
  \/ TickAnnounce(i) \/ TickRemove(i)

HttpStep(i) ==
  \/ HttpLoad(i) \/ HttpCheck(i) \/ HttpAct(i) \/ HttpEncode(i)
  \/ HttpSave(i) \/ HttpRemove(i) \/ HttpAnnounce(i)

Next ==
  \/ \E m \in Match, p, q \in Player : MatchFound(m, p, q)
  \/ \E i \in Instance :
       \/ MatchStep(i) \/ GameEvent(i) \/ GameStep(i)
       \/ TickList(i) \/ TickStep(i)
       \/ \E g \in Game, p \in Player : HttpRequest(i, g, p)
       \/ HttpStep(i) \/ Crash(i)
  \/ \E g \in Game : Expire(g)

Spec == Init /\ [][Next]_vars

\* Go schedules every goroutine with work to do; the ticker fires for ever, a
\* player who stays away is eventually over the threshold, and Kafka delivers.
Fairness ==
  \A i \in Instance :
    /\ WF_vars(MatchStep(i)) /\ WF_vars(GameStep(i))
    /\ WF_vars(TickList(i)) /\ WF_vars(TickStep(i)) /\ WF_vars(HttpStep(i))
    /\ SF_vars(TickScan(i, AllDue(i)))

FairSpec == Spec /\ Fairness

-----------------------------------------------------------------------------
(* Properties *)

\* A player is in at most one of the games an instance manages: the check of
\* handleEventUsersMatched and its addGame are apart, but only the match
\* subscription adds games.
OneGamePerPlayer ==
  \A i \in Instance : \A g, h \in games[i] :
    g # h => PlayersOf(object[g]) \cap PlayersOf(object[h]) = {}

\* No game.ended carries the empty outcome "*": every path sets the result
\* before it announces, also when two goroutines end one game.
EndHasOutcome ==
  \A g \in Game : \A a \in ended[g] : a.outcome # "none"

\* game.moveApproved events of a game carry strictly increasing indexes: no
\* stale or repeated game.playerMoved is approved a second time.  (A part of
\* ImplementsTopic.)
ApprovedInOrder ==
  \A g \in Game : \A j, k \in DOMAIN approved[g] :
    j < k => approved[g][j] < approved[g][k]

\* When an event handler has announced the end of a game, Redis holds the game
\* only with its deactivation TTL: written before announced, never revived.
HandlerEndRecorded ==
  \A g \in Game :
    (\E a \in ended[g] : a.by = "game") => cached[g].kept # "forever"

\* After the end of a game was announced at most one more ply is approved, the
\* one the handler had already let past its status check.  (Also a part of
\* ImplementsTopic.)
AtMostOneLateMove == \A g \in Game : late[g] <= 1

\* Neither the handlers nor the ticker announce the end of a game twice.
AnnouncedOnce ==
  \A i \in Instance :
    /\ gameTh[i].pc = "announce" =>
         ~ \E a \in ended[gameTh[i].game] : a.by = "game"
    /\ tickTh[i].pc = "announce" =>
         \A g \in tickTh[i].ending : ~ \E a \in ended[g] : a.by = "tick"

\* A game dropped from memory has freed its players: no player_game key points
\* to it any more.
Dropped(g) ==
  /\ origin[g] # NoMatch
  /\ \A i \in Instance : g \notin games[i] /\ matchTh[i].game # g
DroppedGameFreesPlayers ==
  \A g \in Game : Dropped(g) => \A p \in Player : playerGame[p] # g

\* A managed game that is over is being taken down by some goroutine.
Ending(i, g) ==
  \/ gameTh[i].game = g /\ gameTh[i].pc \in {"encode", "save", "announce", "remove"}
  \/ tickTh[i].pc # "idle" /\ g \in tickTh[i].ending
  \/ httpTh[i].game = g /\ httpTh[i].pc \in {"encode", "save", "remove"}
NoZombieGame ==
  \A i \in Instance : \A g \in games[i] :
    object[g].status = "deactive" => Ending(i, g)

\* A game somebody won is eventually announced as ended and dropped.
EndIsAnnounced ==
  \A i \in Instance, g \in Game :
    (g \in games[i] /\ object[g].status = "deactive")
      ~> (g \notin games[i] /\ ended[g] # {})

\* A managed game whose player left and stays away (MayRejoin is FALSE) is
\* dropped in the end, whatever the other player does.
AbsenceEndsGame ==
  \A i \in Instance, g \in Game :
    (g \in games[i] /\ away[i][g].gone # {}) ~> g \notin games[i]

\* handleEventUsersMatched is "idempotent and safe to call concurrently from
\* multiple instances" (event.go:14-17): one match gives at most one game.
IdempotentCreation ==
  \A g, h \in created : origin[g] = origin[h] => g = h

\* The announcements keep the promises of GameTopic: what one goroutine tells
\* the topic of a game fits what all the others have told, whoever ends the game.
Topic == INSTANCE GameTopic WITH
  Ply        <- 0..MaxMoves,
  Result     <- Outcome \ {"none"},
  EverySaved <- ~RedisMayFail /\ ~PublishMayFail,
  EverySent  <- ~PublishMayFail,
  ByManager  <- ~HttpResign
ImplementsTopic == Topic!Spec

=============================================================================
