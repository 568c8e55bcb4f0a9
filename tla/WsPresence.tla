----------------------------- MODULE WsPresence -----------------------------
(***************************************************************************)
(* What the websocket gateway knows of one user's presence: his sessions   *)
(* in the gateway's memory and in the Redis hash user_sessions:<id>, and   *)
(* the game.playerLeft it publishes when the last session that plays a     *)
(* game is cleaned up.  The goroutines are the request that opens a        *)
(* session; of each session, the reader, the event handler and the one     *)
(* Stop starts; the cleaner; the ticker of manageSessionsState; and the    *)
(* ticker of another gateway on the same Redis.  The hashes of two users   *)
(* do not interact.                                                        *)
(***************************************************************************)
EXTENDS Naturals, Sequences, FiniteSets

CONSTANTS
  Session,           \* bound: the sessions the user opens
  OwnGame,           \* games the user plays
  OtherGame,         \* games of others, which he may watch
  NoGame, Absent,
  UserSessionsCap, ViewCap,
  Late,              \* bound: sessions that may run for a while before sm.add
  RedisMayFail,
  MayRefresh,        \* whether the minute ticker runs, and entries grow old
  OtherGateway       \* whether another gateway deletes old entries as well

Game == OwnGame \cup OtherGame

ASSUME PresenceAssumption ==
  /\ OwnGame \cap OtherGame = {}
  /\ NoGame \notin Game /\ Absent \notin Game \cup {NoGame}
  /\ UserSessionsCap \in Nat \ {0} /\ ViewCap \in Nat /\ Late \subseteq Session
  /\ {RedisMayFail, MayRefresh, OtherGateway} \subseteq BOOLEAN

VARIABLES
  status,      \* of each game, as the game service sees it
  heard,       \* events of the game topic the listener has received
  stage,       \* of each session, from the upgrade to the end of its clean-up
  due,         \* sessions that run and that the request has yet to register
  registered,  \* sessionsManager.sessions
  entry,       \* the session's field in the hash: its game id, or Absent
  stale,       \* entries whose updatedAt is more than a minute ago
  play,        \* playGameId
  match,       \* matchId; a match is named by its game
  views,       \* viewGamesId
  reader, handler,     \* where the session's goroutines are
  eventCh,             \* events waiting for the handler
  matchSub,            \* matchSubSessions: "broadcasted" when re-sent
  gameSubs,            \* gameWithChatSubSessions
  tick,                \* the ticker, the values it is about to write and the
                       \* entries it is about to delete
  elsewhere,           \* those the ticker of the other gateway is about to delete
  seated       \* own games recorded for a session since the last playerLeft

games   == <<status, heard>>
local   == <<play, match, views>>
threads == <<reader, handler, eventCh>>
subs    == <<matchSub, gameSubs>>
hash    == <<entry, stale, seated>>
manager == <<due, registered>>
tickers == <<tick, elsewhere>>
vars    == <<games, stage, manager, hash, local, threads, subs, tickers>>

Maybe == Game \cup {NoGame}
Event == [kind: {"created", "ended"}, game: Game]
Idle  == [pc |-> "idle", game |-> NoGame]
NoTick == [pc |-> "idle", play |-> <<>>, doomed |-> {}]

TypeOK ==
  /\ status \in [Game -> {"none", "live", "over"}] /\ heard \subseteq Event
  /\ stage \in [Session -> {"new", "added", "open", "stopping", "closing", "cleaning",
                            "leaving", "gone"}]
  /\ {due, registered, stale, elsewhere} \subseteq SUBSET Session
  /\ entry \in [Session -> Maybe \cup {Absent}] /\ seated \subseteq OwnGame
  /\ play \in [Session -> OwnGame \cup {NoGame}]
  /\ match \in [Session -> OwnGame \cup {NoGame}]
  /\ views \in [Session -> SUBSET Game]
  /\ reader \in [Session -> [pc: {"idle", "resume", "join", "watch"}, game: Maybe]]
  /\ handler \in [Session -> [pc: {"idle", "join", "clear", "unsubscribe"}, game: Maybe]]
  /\ eventCh \in [Session -> Seq(Event)]
  /\ matchSub \in [Session -> {"none", "waiting", "broadcasted"}]
  /\ gameSubs \in [Game -> SUBSET Session]
  /\ tick.pc \in {"idle", "write", "find", "delete"}
  /\ DOMAIN tick.play \cup tick.doomed \subseteq Session

Init ==
  /\ status = [g \in Game |-> IF g \in OwnGame THEN "none" ELSE "live"]
  /\ heard = {}
  /\ stage = [s \in Session |-> "new"] /\ due = {} /\ registered = {}
  /\ entry = [s \in Session |-> Absent] /\ stale = {} /\ seated = {}
  /\ play = [s \in Session |-> NoGame] /\ match = [s \in Session |-> NoGame]
  /\ views = [s \in Session |-> {}]
  /\ reader = [s \in Session |-> Idle] /\ handler = [s \in Session |-> Idle]
  /\ eventCh = [s \in Session |-> <<>>]
  /\ matchSub = [s \in Session |-> "none"] /\ gameSubs = [g \in Game |-> {}]
  /\ tick = NoTick /\ elsewhere = {}

\* A call that reports success took effect; one that fails may have.
RedisReply(ok, applied) == (ok => applied) /\ (RedisMayFail \/ ok)

\* HSET with the time of the call, and HDEL.
Put(s, g) == entry' = [entry EXCEPT ![s] = g] /\ stale' = stale \ {s}
Delete(ss) == /\ entry' = [s \in Session |-> IF s \in ss THEN Absent ELSE entry[s]]
              /\ stale' = stale \ ss

-----------------------------------------------------------------------------
(* Games, and the listener of the game topic *)

\* The game service: a user has at most one live game.
GameStarts(g) ==
  /\ status[g] = "none" /\ \A h \in OwnGame : status[h] # "live"
  /\ status' = [status EXCEPT ![g] = "live"]
  /\ UNCHANGED <<heard, stage, manager, hash, local, threads, subs, tickers>>

GameEnds(g) ==
  /\ status[g] = "live"
  /\ status' = [status EXCEPT ![g] = "over"]
  /\ UNCHANGED <<heard, stage, manager, hash, local, threads, subs, tickers>>

\* session.consume; on a closed channel its panic is recovered.
Deliver(e, ss) ==
  eventCh' = [s \in Session |->
    IF s \in ss /\ stage[s] \in {"open", "stopping", "closing"}
      THEN Append(eventCh[s], e) ELSE eventCh[s]]

\* (mutant of Created) the event does not name its game.
CreatedUnnamed(g) == [kind |-> "created", game |-> NoGame]

Created(g) == [kind |-> "created", game |-> g]

Ended(g) == [kind |-> "ended", game |-> g]

AskedFor(g) == {s \in Session : match[s] = g /\ matchSub[s] # "none"}

\* The keys of the two events of a game differ, hence their partitions: they
\* are heard in either order.
ListenCreated(g) ==
  /\ status[g] # "none" /\ Created(g) \notin heard
  /\ heard' = heard \cup {Created(g)}
  /\ Deliver(Created(g), AskedFor(g))
  /\ UNCHANGED <<status, stage, manager, hash, local, reader, handler, subs, tickers>>

ListenEnded(g) ==
  /\ status[g] = "over" /\ Ended(g) \notin heard
  /\ heard' = heard \cup {Ended(g)}
  /\ Deliver(Ended(g), gameSubs[g])
  /\ UNCHANGED <<status, stage, manager, hash, local, reader, handler, subs, tickers>>

\* The broadcast ticker sends the kept game.created to every subscription once,
\* also to those the listener has served.
Broadcast(s) ==
  /\ matchSub[s] = "waiting" /\ Created(match[s]) \in heard
  /\ matchSub' = [matchSub EXCEPT ![s] = "broadcasted"]
  /\ Deliver(Created(match[s]), {s})
  /\ UNCHANGED <<games, stage, manager, hash, local, reader, handler, gameSubs, tickers>>

-----------------------------------------------------------------------------
(* A session opens *)

\* addUserSessionId, below the cap.  A failed call closes the connection; it may
\* have left an entry.
Connect(s) ==
  /\ stage[s] = "new"
  /\ Cardinality({t \in Session : entry[t] # Absent}) < UserSessionsCap
  /\ \E ok, applied \in BOOLEAN :
       /\ RedisReply(ok, applied)
       /\ IF applied THEN Put(s, NoGame) ELSE UNCHANGED <<entry, stale>>
       /\ stage' = [stage EXCEPT ![s] = IF ok THEN "added" ELSE "gone"]
  /\ UNCHANGED <<games, manager, seated, local, threads, subs, tickers>>

\* newSession starts the goroutines of the session ...
Open(s) ==
  /\ stage[s] = "added"
  /\ stage' = [stage EXCEPT ![s] = "open"]
  /\ IF s \in Late THEN due' = due \cup {s} /\ UNCHANGED registered
                   ELSE registered' = registered \cup {s} /\ UNCHANGED due
  /\ UNCHANGED <<games, hash, local, threads, subs, tickers>>

\* ... and sm.add follows, whatever has become of the session.
Register(s) ==
  /\ s \in due
  /\ due' = due \ {s} /\ registered' = registered \cup {s}
  /\ UNCHANGED <<games, stage, hash, local, threads, subs, tickers>>

-----------------------------------------------------------------------------
(* The reader: messages of the client *)

CanRead(s) == stage[s] \in {"open", "stopping"} /\ reader[s] = Idle
Reads(s, pc, g) == reader' = [reader EXCEPT ![s] = [pc |-> pc, game |-> g]]
ReaderDone(s)   == reader' = [reader EXCEPT ![s] = Idle]

FindMatch(s, g) ==
  /\ CanRead(s) /\ play[s] = NoGame /\ match[s] = NoGame
  /\ match' = [match EXCEPT ![s] = g]
  /\ matchSub' = [matchSub EXCEPT ![s] = "waiting"]
  /\ UNCHANGED <<games, stage, manager, hash, play, views, threads, gameSubs, tickers>>

\* The game service names the user's live game; the answer may be old when
\* the session stores it.
Resume(s, g) ==
  /\ CanRead(s) /\ play[s] = NoGame /\ match[s] = NoGame
  /\ g \in OwnGame /\ status[g] = "live"
  /\ Reads(s, "resume", g)
  /\ UNCHANGED <<games, stage, manager, hash, local, handler, eventCh, subs, tickers>>

ResumeStore(s) ==
  /\ reader[s].pc = "resume"
  /\ play' = [play EXCEPT ![s] = reader[s].game]
  /\ Reads(s, "join", reader[s].game)
  /\ UNCHANGED <<games, stage, manager, hash, match, views, handler, eventCh, subs, tickers>>

\* addGameIdToUserSessions and, when it succeeds, subscribeToGameWithChat (and
\* game.playerJoined).  Of an end of the game heard between the two the session
\* learns as little as of one heard before both.
Join(s, g) ==
  \E ok, applied \in BOOLEAN :
    /\ RedisReply(ok, applied)
    /\ IF applied THEN Put(s, g) ELSE UNCHANGED <<entry, stale>>
    /\ seated' = IF applied THEN seated \cup {g} ELSE seated
    /\ play' = IF ok THEN play ELSE [play EXCEPT ![s] = NoGame]
    /\ gameSubs' = IF ok THEN [gameSubs EXCEPT ![g] = @ \cup {s}] ELSE gameSubs

ResumeJoin(s) ==
  /\ reader[s].pc = "join"
  /\ Join(s, reader[s].game)
  /\ ReaderDone(s)
  /\ UNCHANGED <<games, stage, manager, match, views, handler, eventCh, matchSub, tickers>>

\* A game that GetLiveGamePGN does not know is taken out of views again.
View(s, g) ==
  /\ CanRead(s)
  /\ g \notin views[s] /\ Cardinality(views[s]) < ViewCap
  /\ status[g] = "live"
  /\ views' = [views EXCEPT ![s] = @ \cup {g}]
  /\ Reads(s, "watch", g)
  /\ UNCHANGED <<games, stage, manager, hash, play, match, handler, eventCh, subs, tickers>>

ViewSubscribe(s) ==
  /\ reader[s].pc = "watch"
  /\ gameSubs' = [gameSubs EXCEPT ![reader[s].game] = @ \cup {s}]
  /\ ReaderDone(s)
  /\ UNCHANGED <<games, stage, manager, hash, local, handler, eventCh, matchSub, tickers>>

-----------------------------------------------------------------------------
(* The event handler *)

Handles(s, pc, g) == handler' = [handler EXCEPT ![s] = [pc |-> pc, game |-> g]]
HandlerDone(s)    == handler' = [handler EXCEPT ![s] = Idle]
Receives(s, kind) ==
  /\ handler[s] = Idle /\ stage[s] \in {"open", "stopping", "closing"}
  /\ eventCh[s] # <<>> /\ Head(eventCh[s]).kind = kind
  /\ eventCh' = [eventCh EXCEPT ![s] = Tail(@)]

TakeCreated(s) ==
  /\ Receives(s, "created")
  /\ LET g == Head(eventCh[s]).game IN
     /\ play' = [play EXCEPT ![s] = g]
     /\ Handles(s, "join", g)
  /\ UNCHANGED <<games, stage, manager, hash, match, views, reader, subs, tickers>>

CreatedJoin(s) ==
  /\ handler[s].pc = "join"
  /\ Join(s, handler[s].game)
  /\ HandlerDone(s)
  /\ UNCHANGED <<games, stage, manager, match, views, reader, eventCh, matchSub, tickers>>

\* (mutant of TakeEnded) the end of any game clears playGameId.
TakeAnyEnded(s) ==
  /\ Receives(s, "ended")
  /\ play' = [play EXCEPT ![s] = NoGame]
  /\ Handles(s, "clear", Head(eventCh[s]).game)
  /\ UNCHANGED <<games, stage, manager, hash, match, views, reader, subs, tickers>>

TakeEnded(s) ==
  /\ Receives(s, "ended")
  /\ LET g == Head(eventCh[s]).game IN
     /\ play' = IF play[s] = g THEN [play EXCEPT ![s] = NoGame] ELSE play
     /\ Handles(s, "clear", g)
  /\ UNCHANGED <<games, stage, manager, hash, match, views, reader, subs, tickers>>

\* removeGameIdFromUserSessions, whichever game has ended.
EndedClear(s) ==
  /\ handler[s].pc = "clear"
  /\ \E ok, applied \in BOOLEAN :
       /\ RedisReply(ok, applied)
       /\ IF applied THEN Put(s, NoGame) ELSE UNCHANGED <<entry, stale>>
  /\ Handles(s, "unsubscribe", handler[s].game)
  /\ UNCHANGED <<games, stage, manager, seated, local, reader, eventCh, subs, tickers>>

EndedUnsubscribe(s) ==
  /\ handler[s].pc = "unsubscribe"
  /\ LET g == handler[s].game IN
     /\ views' = [views EXCEPT ![s] = @ \ {g}]
     /\ gameSubs' = [gameSubs EXCEPT ![g] = @ \ {s}]
  /\ HandlerDone(s)
  /\ UNCHANGED <<games, stage, manager, hash, play, match, reader, eventCh, matchSub, tickers>>

-----------------------------------------------------------------------------
(* Stop and the cleaner *)

Goes(s, next) == stage' = [stage EXCEPT ![s] = next]

\* The connection fails, or the heartbeat is overdue.
Stop(s) ==
  /\ stage[s] = "open"
  /\ Goes(s, "stopping")
  /\ UNCHANGED <<games, manager, hash, local, threads, subs, tickers>>

StopUnsubscribe(s) ==
  /\ stage[s] = "stopping"
  /\ matchSub' = [matchSub EXCEPT ![s] = "none"]
  /\ gameSubs' = [g \in Game |-> IF g = play[s] \/ g \in views[s]
                                   THEN gameSubs[g] \ {s} ELSE gameSubs[g]]
  /\ Goes(s, "closing")
  /\ UNCHANGED <<games, manager, hash, local, threads, tickers>>

\* (mutant of StopWait) Stop does not wait for the session's goroutines.
StopAtOnce(s) ==
  /\ stage[s] = "closing"
  /\ Goes(s, "cleaning")
  /\ UNCHANGED <<games, manager, hash, local, threads, subs, tickers>>

\* wg.Wait: reader, writer and handler have returned; what is left in eventCh
\* is dropped.
StopWait(s) ==
  /\ stage[s] = "closing"
  /\ reader[s] = Idle /\ handler[s] = Idle
  /\ Goes(s, "cleaning")
  /\ eventCh' = [eventCh EXCEPT ![s] = <<>>]
  /\ UNCHANGED <<games, manager, hash, local, reader, handler, subs, tickers>>

\* (mutant of InSomeGame) the script counts sessions without a game as well.
AnyOther(s) == {t \in Session \ {s} : entry[t] # Absent}

\* The sessions counted by removeGameSessionScript once s is deleted.
InSomeGame(s) == {t \in Session \ {s} : entry[t] \in Game}

\* The last reference to the session is gone.
Forget(s) ==
  /\ play' = [play EXCEPT ![s] = NoGame] /\ match' = [match EXCEPT ![s] = NoGame]
  /\ views' = [views EXCEPT ![s] = {}]

\* One that is still to be registered is not forgotten.
Discard(s) == Goes(s, "gone") /\ IF s \in due THEN UNCHANGED local ELSE Forget(s)

\* sm.remove, then deleteUserGameSession or deleteUserSession.
DeleteEntry(s) ==
  /\ stage[s] = "cleaning"
  /\ \E ok, applied \in BOOLEAN :
       /\ RedisReply(ok, applied)
       /\ IF applied THEN Delete({s}) ELSE UNCHANGED <<entry, stale>>
       /\ IF ok /\ play[s] # NoGame /\ InSomeGame(s) = {}
            THEN Goes(s, "leaving") /\ UNCHANGED local
            ELSE Discard(s)
  /\ registered' = registered \ {s}
  /\ UNCHANGED <<games, due, seated, threads, subs, tickers>>

PublishLeft(s) ==
  /\ stage[s] = "leaving"
  /\ seated' = seated \ {play[s]}
  /\ Discard(s)
  /\ UNCHANGED <<games, manager, entry, stale, threads, subs, tickers>>

-----------------------------------------------------------------------------
(* The minute ticker of manageSessionsState *)

\* A session that is being opened, or has yet to be.
Opening(s) == \/ stage[s] \in {"new", "added"}
              \/ s \in due /\ stage[s] \in {"open", "stopping", "closing"}

\* A minute has passed since the entry was written.  To open a session takes less,
\* and so does a tick.
GrowsOld(s) ==
  /\ MayRefresh /\ tick.pc = "idle"
  /\ entry[s] # Absent /\ ~Opening(s)
  /\ s \notin stale /\ stale' = stale \cup {s}
  /\ UNCHANGED <<games, stage, manager, entry, seated, local, threads, subs, tickers>>

\* The subscribers of ended games are dropped; without sessions, the rest of
\* the tick is skipped.
TickRead ==
  /\ MayRefresh /\ tick.pc = "idle"
  /\ gameSubs' = [g \in Game |-> IF Ended(g) \in heard THEN {} ELSE gameSubs[g]]
  /\ tick' = IF registered = {} THEN tick
             ELSE [NoTick EXCEPT !.pc = "write", !.play = [s \in registered |-> play[s]]]
  /\ UNCHANGED <<games, stage, manager, hash, local, threads, matchSub, elsewhere>>

Refresh(done) ==
  /\ entry' = [s \in Session |-> IF s \in done THEN tick.play[s] ELSE entry[s]]
  /\ stale' = stale \ done

\* (mutant of TickWrite) the tick goes on after an error.
TickWriteAnyway ==
  /\ tick.pc = "write"
  /\ \E done \in SUBSET DOMAIN tick.play :
       /\ RedisMayFail \/ done = DOMAIN tick.play
       /\ Refresh(done)
  /\ tick' = [tick EXCEPT !.pc = "find"]
  /\ UNCHANGED <<games, stage, manager, seated, local, threads, subs, elsewhere>>

\* updateSessionsTimestamp: a pipeline of HSETs, any of which may be lost when
\* it fails; the tick is over then.
TickWrite ==
  /\ tick.pc = "write"
  /\ \E done \in SUBSET DOMAIN tick.play :
       /\ RedisMayFail \/ done = DOMAIN tick.play
       /\ Refresh(done)
       /\ \/ done = DOMAIN tick.play /\ tick' = [tick EXCEPT !.pc = "find"]
          \/ RedisMayFail /\ tick' = NoTick
  /\ UNCHANGED <<games, stage, manager, seated, local, threads, subs, elsewhere>>

\* deleteExpiredSessions reads every entry and picks the old ones, whosever they are ...
Found(old) == tick' = IF old = {} THEN NoTick ELSE [NoTick EXCEPT !.pc = "delete", !.doomed = old]

\* (mutant of TickFind) After instead of Before.
TickFindsYoung ==
  /\ tick.pc = "find"
  /\ Found({s \in Session : entry[s] # Absent} \ stale)
  /\ UNCHANGED <<games, stage, manager, hash, local, threads, subs, elsewhere>>

TickFind ==
  /\ tick.pc = "find"
  /\ Found(stale) \/ (RedisMayFail /\ Found({}))
  /\ UNCHANGED <<games, stage, manager, hash, local, threads, subs, elsewhere>>

\* ... and a pipeline deletes them, whatever has been written to them since.
TickDelete ==
  /\ tick.pc = "delete"
  /\ \E done \in SUBSET tick.doomed : (RedisMayFail \/ done = tick.doomed) /\ Delete(done)
  /\ tick' = NoTick
  /\ UNCHANGED <<games, stage, manager, seated, local, threads, subs, elsewhere>>

\* The same on another gateway, whose sessions and those of this one know nothing
\* of each other.
OtherFinds ==
  /\ OtherGateway /\ elsewhere = {} /\ stale # {}
  /\ elsewhere' = stale
  /\ UNCHANGED <<games, stage, manager, hash, local, threads, subs, tick>>

OtherDeletes ==
  /\ elsewhere # {}
  /\ \E done \in SUBSET elsewhere : (RedisMayFail \/ done = elsewhere) /\ Delete(done)
  /\ elsewhere' = {}
  /\ UNCHANGED <<games, stage, manager, seated, local, threads, subs, tick>>

-----------------------------------------------------------------------------
ReaderStep(s) ==
  \/ \E g \in OwnGame : FindMatch(s, g) \/ Resume(s, g)
  \/ \E g \in Game : View(s, g)
  \/ ResumeStore(s) \/ ResumeJoin(s) \/ ViewSubscribe(s)

HandlerStep(s) ==
  \/ TakeCreated(s) \/ CreatedJoin(s)
  \/ TakeEnded(s) \/ EndedClear(s) \/ EndedUnsubscribe(s)

CleanUp(s) ==
  \/ StopUnsubscribe(s) \/ StopWait(s)
  \/ DeleteEntry(s) \/ PublishLeft(s)

Tick == TickRead \/ TickWrite \/ TickFind \/ TickDelete

Next ==
  \/ \E g \in OwnGame : GameStarts(g) \/ ListenCreated(g)
  \/ \E g \in Game : GameEnds(g) \/ ListenEnded(g)
  \/ \E s \in Session :
       \/ Connect(s) \/ Open(s) \/ Register(s) \/ Broadcast(s)
       \/ ReaderStep(s) \/ HandlerStep(s) \/ Stop(s) \/ CleanUp(s) \/ GrowsOld(s)
  \/ Tick \/ OtherFinds \/ OtherDeletes

Spec == Init /\ [][Next]_vars

\* Clean-ups in progress go on and the ticker fires for ever.  Strong fairness:
\* Redis is not down at every tick, and an entry nobody writes grows old.
FairSpec ==
  /\ Spec
  /\ \A s \in Session : WF_vars(CleanUp(s)) /\ SF_vars(GrowsOld(s))
  /\ WF_vars(TickRead) /\ WF_vars(TickWrite) /\ WF_vars(TickFind) /\ WF_vars(TickDelete)
  /\ SF_vars(TickWrite /\ tick'.pc = "find") /\ SF_vars(TickFind /\ Found(stale))
  /\ SF_vars(TickDelete /\ stale' = stale \ tick.doomed)

-----------------------------------------------------------------------------
(* Properties *)

\* No departure goes unreported: when a user has been seen in his live game and has
\* no session left in it, game.playerLeft has been published, in whatever order his
\* sessions resume, receive the game and close.  (Not the converse: the end of a game
\* that a session only watches takes the session out of the count, session.go:176,
\* and the close of another is then reported although the first still plays.)
LastOutIsAnnounced ==
  \A g \in seated : status[g] = "live" =>
    \E s \in Session : play[s] = g /\ stage[s] \notin {"new", "gone"}

\* A session that was cleaned up has no entry any more: none of its goroutines
\* writes one after the deletion.
NoOrphan == \A s \in Session : stage[s] = "gone" => entry[s] = Absent

\* What the scripts count is true of a live game: a session whose goroutines
\* are at rest is not recorded in one it does not play.  (Of a game that is
\* over it may be: Ended can be handled before the id is written.)
CountedIsPlayed ==
  \A s \in Session :
    stage[s] = "open" /\ reader[s] = Idle /\ handler[s] = Idle
      /\ entry[s] \in Game /\ play[s] # entry[s] => status[entry[s]] = "over"

InUse(s) == stage[s] \in {"added", "open", "stopping", "closing"}

\* manage.go:124: a gateway deletes only "expired sessions that failed to remove
\* after disconnection", though entries are picked by age alone: none of its own
\* sessions in use is among them, not one that is being opened during the tick nor
\* one whose refresh has failed.  (Those of the other gateway may be, when it has not
\* refreshed them in time.)
OwnSessionsSpared == \A s \in tick.doomed : ~InUse(s)

\* manage.go:119: a session whose deletion failed does not keep its place in
\* the user's cap for ever, as long as the gateway has any session at all (a
\* tick without sessions deletes nothing) and has not registered it after its end
\* (the next ticks then refresh its entry for ever).
OrphanExpires ==
  \A s \in Session :
    stage[s] = "gone" /\ entry[s] # Absent
      ~> entry[s] = Absent \/ registered = {} \/ s \in registered

=============================================================================
