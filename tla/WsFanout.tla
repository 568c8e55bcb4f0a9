------------------------------ MODULE WsFanout ------------------------------
(***************************************************************************)
(* How the websocket gateway spreads the events of games to its sessions:  *)
(* the listener of the game and chat topics, the subscribers of each game  *)
(* behind a read-write lock, and of each session the bounded channels      *)
(* eventCh and msgCh between listener, event handler and writer; reader    *)
(* and handler, which both subscribe; Stop; the ticker that publishes the  *)
(* lists of viewers; and, behind mmu, the sessions that wait for the       *)
(* creation of their game, to whom listener and broadcast routine send it. *)
(* Every wait of the code is a guard here.                                 *)
(***************************************************************************)
EXTENDS Naturals, Sequences, FiniteSets

CONSTANTS
  Session, Game, NoGame, Nobody,
  EventCap, MsgCap,       \* the channels' capacities (10 and 10 in the code)
  ViewCap,                \* defaultViewGamesCap
  End,                    \* bound: events of a game; the last is game.ended
  MaxSaid,                \* bound: events of a game's chat
  Leaver,                 \* sessions that are stopped and whose writes may fail
  Apart,                  \* bound: see Crowded, MayPlay and Quiet
  Player,                 \* bound: sessions that play
  RedisMayFail,
  MayRefuse, MayPing, MayClean    \* refused requests; the tickers that run

ASSUME FanoutAssumption ==
  /\ NoGame \notin Game /\ Nobody \notin Session /\ Leaver \cup Player \subseteq Session
  /\ {EventCap, MsgCap, ViewCap, End} \subseteq Nat \ {0} /\ MaxSaid \in Nat
  /\ {Apart, RedisMayFail, MayRefuse, MayPing, MayClean} \subseteq BOOLEAN

VARIABLES
  feed, said,      \* of each game, the events of the two topics taken; one of
                   \* the game that comes after its end counts as one of the chat
  listener,        \* its pc, the event in hand, the lock it holds, who is left
  born,            \* games whose game.created has been taken
  known, gameSubs, \* gameWithChatSubSessions
  gcmu,            \* who holds gcmu while it waits for the lock of a game
  ended,           \* endedGamesList
  stage,           \* of each session
  views,           \* viewGamesId
  play, match,     \* playGameId; matchId, a match being named by its game
  matchSub,        \* matchSubSessions, under mmu
  kept,            \* createdGameEvents, under gmu
  casting,         \* whom the broadcast routine has still to send to, under both
  failed,          \* history: sessions whose handler could not reach Redis
  leaving,         \* the games Stop is about to unsubscribe from
  reader, handler, writer,
  eventCh, msgCh,
  ticker,          \* its pc, the lists left to send, the lock it holds, who is left
  got              \* history: the last event of each game the client has

topics  == <<feed, said, born>>
locks   == <<known, gameSubs, gcmu>>
session == <<stage, views, leaving>>
matches == <<play, match, matchSub, kept, casting, failed>>
threads == <<reader, handler, writer>>
chans   == <<eventCh, msgCh>>
vars    == <<topics, listener, locks, ended, session, matches, threads, chans, ticker, got>>

Event(kind, g, n) == [kind |-> kind, game |-> g, n |-> n]
NoEvent  == Event("none", NoGame, 0)
Reply    == Event("reply", NoGame, 0)
Created(g) == Event("created", g, 0)
Messages == [kind: {"none", "game", "chat", "created", "reply"},
             game: Game \cup {NoGame}, n: 0..End + MaxSaid]
AtRest   == [pc |-> "idle", event |-> NoEvent]
Waiting  == [pc |-> "idle", event |-> NoEvent, holds |-> NoGame, left |-> {}]
NoTick   == [pc |-> "idle", todo |-> {}, holds |-> NoGame, left |-> {}]

TypeOK ==
  /\ feed \in [Game -> 0..End] /\ said \in [Game -> 0..MaxSaid]
  /\ born \cup kept \subseteq Game /\ casting \cup failed \subseteq Session
  /\ {play, match} \subseteq [Session -> Game \cup {NoGame}]
  /\ matchSub \in [Session -> {"none", "waiting", "broadcasted"}]
  /\ listener \in [pc: {"idle", "lookup", "match", "send", "keep"}, event: Messages,
                   holds: Game \cup {NoGame}, left: SUBSET Session]
  /\ (listener.pc = "send") = (listener.left # {})
  /\ known \subseteq Game /\ gameSubs \in [Game -> SUBSET Session]
  /\ gcmu \in Session \cup {Nobody} /\ ended \subseteq Game
  /\ stage \in [Session -> {"open", "stopping", "finding", "leaving", "closed", "gone"}]
  /\ {views, leaving} \subseteq [Session -> SUBSET Game]
  /\ \A s \in Session : Cardinality(views[s]) <= ViewCap
  /\ reader \in [Session -> [pc: {"idle", "ask", "join", "match", "subscribe", "add",
                                  "reply", "exit"}, event: Messages]]
  /\ handler \in [Session -> [pc: {"idle", "join", "subscribe", "add", "lookup", "lock", "send",
                                   "exit"}, event: Messages]]
  /\ writer \in [Session -> [pc: {"idle", "write", "exit"}, event: Messages]]
  /\ \A s \in Session : Len(eventCh[s]) <= EventCap /\ Len(msgCh[s]) <= MsgCap
  /\ ticker \in [pc: {"idle", "publish", "send"}, todo: SUBSET Game,
                 holds: Game \cup {NoGame}, left: SUBSET Session]
  /\ got \in [Session -> [Game -> 0..End]]

Init ==
  /\ feed = [g \in Game |-> 0] /\ said = [g \in Game |-> 0] /\ born = {}
  /\ play = [s \in Session |-> NoGame] /\ match = [s \in Session |-> NoGame]
  /\ matchSub = [s \in Session |-> "none"] /\ kept = {} /\ casting = {} /\ failed = {}
  /\ listener = Waiting /\ ticker = NoTick
  /\ known = {} /\ gameSubs = [g \in Game |-> {}] /\ gcmu = Nobody
  /\ ended = {}
  /\ stage \in [Session -> {"open", "gone"}]    \* gone: or has never been connected
  /\ views = [s \in Session |-> {}]
  /\ leaving = [s \in Session |-> {}]
  /\ reader = [s \in Session |-> AtRest]
  /\ handler = [s \in Session |-> AtRest] /\ writer = [s \in Session |-> AtRest]
  /\ eventCh = [s \in Session |-> <<>>] /\ msgCh = [s \in Session |-> <<>>]
  /\ got = [s \in Session |-> [g \in Game |-> 0]]

\* The lock of a game's subscribers is held for reading while they are served;
\* a writer's critical section does not wait, so it is one step.
ReadLocked(g) == g \in {listener.holds, ticker.holds}

InRound(kind, g) ==
  listener.pc = "send" /\ listener.event.kind = kind /\ listener.event.game = g

\* ... also of those that the clean up has taken out of the map meanwhile.
Serving(g) == ReadLocked(g) \/ InRound("game", g) \/ InRound("chat", g)

\* mmu is held while a game.created is sent.
MmuHeld == casting # {} \/ \E g \in Game : InRound("created", g)

Connected(s) == stage[s] \in {"open", "stopping", "finding", "leaving"}

\* The bounds under Apart.  While two sessions are connected none leaves, no game that is
\* over is viewed or resumed, and Quiet is false; chat, refusals and the tickers of the
\* viewers and of the ended games come while nobody plays, and a game is played that has
\* had none of them; a session plays or views; what waits for a game that is created is
\* forgotten before the game's first event.
Crowded == Apart /\ Cardinality({s \in Session : stage[s] # "gone"}) > 1
MayLeave(s) == s \in Leaver /\ ~Crowded
MayPlay(s) == s \in Player /\ (Apart => ticker = NoTick /\ \A g \in Game : said[g] = 0)
Quiet == ~Crowded /\ (Apart => \A s \in Session : {play[s], match[s]} = {NoGame})

-----------------------------------------------------------------------------
(* The listener *)

ListenGame(g) ==
  /\ listener.pc = "idle" /\ feed[g] < End
  /\ feed' = [feed EXCEPT ![g] = @ + 1]
  /\ ended' = IF feed'[g] = End THEN ended \cup {g} ELSE ended
  /\ listener' = [listener EXCEPT !.pc = "lookup", !.event = Event("game", g, feed'[g])]
  /\ UNCHANGED <<said, born, locks, session, matches, threads, chans, ticker, got>>

ListenChat(g) ==
  /\ listener.pc = "idle" /\ said[g] < MaxSaid /\ Quiet
  /\ said' = [said EXCEPT ![g] = @ + 1]
  /\ listener' = [listener EXCEPT !.pc = "lookup", !.event = Event("chat", g, 0)]
  /\ UNCHANGED <<feed, born, locks, ended, session, matches, threads, chans, ticker, got>>

\* gcmu.RLock for the look-up, then the lock of the game for the whole round.
Lookup ==
  /\ listener.pc = "lookup" /\ gcmu = Nobody
  /\ LET g == listener.event.game IN
     listener' = IF g \in known /\ gameSubs[g] # {}
                   THEN [listener EXCEPT !.pc = "send", !.holds = g, !.left = gameSubs[g]]
                   ELSE Waiting
  /\ UNCHANGED <<topics, locks, ended, session, matches, threads, chans, ticker, got>>

\* game.created: mmu for the round over the sessions that have asked for the match ...
ListenCreated(g) ==
  /\ listener.pc = "idle" /\ g \notin born
  /\ born' = born \cup {g}
  /\ listener' = [listener EXCEPT !.pc = "match", !.event = Created(g)]
  /\ UNCHANGED <<feed, said, locks, ended, session, matches, threads, chans, ticker, got>>

AskedFor(g) == {s \in Session : match[s] = g /\ matchSub[s] # "none"}

MatchRound ==
  /\ listener.pc = "match" /\ ~MmuHeld
  /\ LET ss == AskedFor(listener.event.game) IN
     listener' = [listener EXCEPT !.pc = IF ss = {} THEN "keep" ELSE "send", !.left = ss]
  /\ UNCHANGED <<topics, locks, ended, session, matches, threads, chans, ticker, got>>

\* ... and gmu to keep the event for the broadcast routine.
Keep ==
  /\ listener.pc = "keep" /\ casting = {}
  /\ kept' = kept \cup {listener.event.game}
  /\ listener' = Waiting
  /\ UNCHANGED <<topics, locks, ended, session, play, match, matchSub, casting, failed, threads, chans,
                 ticker, got>>

\* (mutant of Served) the lock is kept when the round is over.
ServedForEver(s) == listener' = [listener EXCEPT !.left = @ \ {s}]

Served(s) ==
  listener' = IF listener.left # {s} THEN [listener EXCEPT !.left = @ \ {s}]
              ELSE IF listener.event.kind = "created" THEN [listener EXCEPT !.pc = "keep", !.left = {}]
              ELSE Waiting

\* (mutant of Consume) an event that finds the channel full is dropped.
ConsumeOrDrop(s) ==
  /\ listener.pc = "send" /\ s \in listener.left
  /\ eventCh' = IF stage[s] = "gone" \/ Len(eventCh[s]) = EventCap THEN eventCh
                ELSE [eventCh EXCEPT ![s] = Append(@, listener.event)]
  /\ Served(s)
  /\ UNCHANGED <<topics, locks, ended, session, matches, threads, msgCh, ticker, got>>

\* consume waits for room in the channel; the panic of a closed one is recovered.
Deliver(s, e) ==
  \/ stage[s] = "gone" /\ UNCHANGED eventCh
  \/ /\ stage[s] # "gone" /\ Len(eventCh[s]) < EventCap
     /\ eventCh' = [eventCh EXCEPT ![s] = Append(@, e)]

Consume(s) ==
  /\ listener.pc = "send" /\ s \in listener.left
  /\ Deliver(s, listener.event)
  /\ Served(s)
  /\ UNCHANGED <<topics, locks, ended, session, matches, threads, msgCh, ticker, got>>

-----------------------------------------------------------------------------
(* The broadcast routine, and the cleanup routine *)

\* A subscription is sent a kept game.created once, also when the listener has sent it.
Broadcast ==
  /\ ~MmuHeld
  /\ casting' = {s \in Session : matchSub[s] = "waiting" /\ match[s] \in kept}
  /\ casting' # {}
  /\ matchSub' = [s \in Session |-> IF s \in casting' THEN "broadcasted" ELSE matchSub[s]]
  /\ UNCHANGED <<topics, listener, locks, ended, session, play, match, kept, failed, threads, chans,
                 ticker, got>>

BroadcastSends(s) ==
  /\ s \in casting
  /\ Deliver(s, Created(match[s]))
  /\ casting' = casting \ {s}
  /\ UNCHANGED <<topics, listener, locks, ended, session, play, match, matchSub, kept, failed, threads,
                 msgCh, ticker, got>>

\* After a minute a kept event is forgotten, and so is a subscription.
Expire ==
  /\ MayClean /\ ~Crowded /\ (Apart => \A g \in Game : feed[g] = 0)
  /\ \/ /\ casting = {} /\ \E g \in kept : kept' = kept \ {g}
        /\ UNCHANGED matchSub
     \/ /\ ~MmuHeld /\ \E s \in Session : matchSub[s] # "none" /\ matchSub' = [matchSub EXCEPT ![s] = "none"]
        /\ UNCHANGED kept
  /\ UNCHANGED <<topics, listener, locks, ended, session, play, match, casting, failed, threads, chans,
                 ticker, got>>

-----------------------------------------------------------------------------
(* subscribeToGameWithChat, by the reader or the handler of a session *)

Joined(s, g) == known' = known \cup {g} /\ gameSubs' = [gameSubs EXCEPT ![g] = @ \cup {s}]

\* The lock of the game is free ...
Enters(s, g) == gcmu = Nobody /\ ~ReadLocked(g) /\ Joined(s, g) /\ UNCHANGED gcmu

\* ... or gcmu is held while it waits for it.
Queues(s, g) == gcmu = Nobody /\ ReadLocked(g) /\ gcmu' = s /\ UNCHANGED <<known, gameSubs>>

\* (mutant of Adds) gcmu is not unlocked.
AddsOnly(s, g) == ~ReadLocked(g) /\ Joined(s, g) /\ UNCHANGED gcmu

Adds(s, g) == ~ReadLocked(g) /\ Joined(s, g) /\ gcmu' = Nobody

-----------------------------------------------------------------------------
(* The event handler of a session *)

Handles(s, pc, e) == handler' = [handler EXCEPT ![s] = [pc |-> pc, event |-> e]]

\* The creation of a game is stored as the session's own, its end takes it out of
\* playGameId and the views before the session unsubscribes.
TakeEvent(s) ==
  /\ handler[s].pc = "idle" /\ eventCh[s] # <<>> /\ stage[s] # "gone"
  /\ eventCh' = [eventCh EXCEPT ![s] = Tail(@)]
  /\ LET e == Head(eventCh[s])  new == e.kind = "created"  last == e.kind = "game" /\ e.n = End IN
     /\ play' = IF new THEN [play EXCEPT ![s] = e.game]
                ELSE IF last /\ play[s] = e.game THEN [play EXCEPT ![s] = NoGame] ELSE play
     /\ views' = IF last THEN [views EXCEPT ![s] = @ \ {e.game}] ELSE views
     /\ Handles(s, IF new THEN "join" ELSE IF last THEN "lookup" ELSE "send",
                IF e.kind = "chat" THEN Reply ELSE e)
  /\ UNCHANGED <<topics, listener, locks, ended, stage, leaving, match, matchSub, kept, casting, failed,
                 reader, writer, msgCh, ticker, got>>

\* addGameIdToUserSessions.  When it fails, playGameId is cleared: a subscription the
\* session has from an earlier game.created of the game stays.
HandlerJoins(s) ==
  /\ handler[s].pc = "join"
  /\ \/ Handles(s, "subscribe", handler[s].event) /\ UNCHANGED <<play, failed>>
     \/ /\ RedisMayFail /\ Handles(s, "send", Reply)
        /\ play' = [play EXCEPT ![s] = NoGame] /\ failed' = failed \cup {s}
  /\ UNCHANGED <<topics, listener, locks, ended, session, match, matchSub, kept, casting, reader, writer,
                 chans, ticker, got>>

HandlerSubscribes(s) ==
  /\ \/ handler[s].pc = "subscribe" /\ Enters(s, handler[s].event.game) /\ Handles(s, "send", Reply)
     \/ handler[s].pc = "subscribe" /\ Queues(s, handler[s].event.game) /\ Handles(s, "add", handler[s].event)
     \/ handler[s].pc = "add" /\ Adds(s, handler[s].event.game) /\ Handles(s, "send", Reply)
  /\ UNCHANGED <<topics, listener, ended, session, matches, reader, writer, chans, ticker, got>>

HandlerLooksUp(s) ==
  /\ handler[s].pc = "lookup" /\ gcmu = Nobody
  /\ Handles(s, IF handler[s].event.game \in known THEN "lock" ELSE "send", handler[s].event)
  /\ UNCHANGED <<topics, listener, locks, ended, session, matches, reader, writer, chans, ticker, got>>

HandlerUnsubscribes(s) ==
  /\ handler[s].pc = "lock"
  /\ LET g == handler[s].event.game IN
     /\ ~Serving(g)
     /\ gameSubs' = [gameSubs EXCEPT ![g] = @ \ {s}]
  /\ Handles(s, "send", handler[s].event)
  /\ UNCHANGED <<topics, listener, known, gcmu, ended, session, matches, reader, writer, chans,
                 ticker, got>>

HandlerSends(s) ==
  /\ handler[s].pc = "send" /\ Len(msgCh[s]) < MsgCap
  /\ msgCh' = [msgCh EXCEPT ![s] = Append(@, handler[s].event)]
  /\ Handles(s, "idle", NoEvent)
  /\ UNCHANGED <<topics, listener, locks, ended, session, matches, reader, writer, eventCh, ticker, got>>

\* The select takes stopCh or eventCh, whichever of the two.
HandlerExits(s) ==
  /\ handler[s].pc = "idle" /\ stage[s] = "closed"
  /\ Handles(s, "exit", NoEvent)
  /\ UNCHANGED <<topics, listener, locks, ended, session, matches, reader, writer, chans, ticker, got>>

-----------------------------------------------------------------------------
(* The reader of a session *)

Reads(s, pc, e) == reader' = [reader EXCEPT ![s] = [pc |-> pc, event |-> e]]

\* addViewGame.
View(s, g) ==
  /\ reader[s].pc = "idle" /\ Connected(s) /\ (Apart => s \notin Player)
  /\ g \notin views[s] /\ Cardinality(views[s]) < ViewCap
  /\ views' = [views EXCEPT ![s] = @ \cup {g}]
  /\ Reads(s, "ask", Event("none", g, 0))
  /\ UNCHANGED <<topics, listener, locks, ended, stage, leaving, matches, handler, writer, chans, ticker,
                 got>>

\* (mutant of ViewAnswered) the view is taken back, but the handler goes on.
ViewAlways(s) ==
  /\ reader[s].pc = "ask"
  /\ \/ UNCHANGED views
     \/ views' = [views EXCEPT ![s] = @ \ {reader[s].event.game}]
  /\ Reads(s, "subscribe", reader[s].event)
  /\ UNCHANGED <<topics, listener, locks, ended, stage, leaving, matches, handler, writer, chans, ticker,
                 got>>

\* GetLiveGamePGN: the game is live, or the view is taken back.  The answer comes
\* from Redis, where a drawn game is live for a while after its end.
ViewAnswered(s) ==
  /\ reader[s].pc = "ask"
  /\ \/ /\ feed[reader[s].event.game] < End \/ ~Crowded
        /\ Reads(s, "subscribe", reader[s].event)
        /\ UNCHANGED views
     \/ /\ Reads(s, "reply", Reply)
        /\ views' = [views EXCEPT ![s] = @ \ {reader[s].event.game}]
  /\ UNCHANGED <<topics, listener, locks, ended, stage, leaving, matches, handler, writer, chans, ticker,
                 got>>

Subscribes(s) ==
  /\ \/ reader[s].pc = "subscribe" /\ Enters(s, reader[s].event.game) /\ Reads(s, "reply", Reply)
     \/ reader[s].pc = "subscribe" /\ Queues(s, reader[s].event.game) /\ Reads(s, "add", reader[s].event)
     \/ reader[s].pc = "add" /\ Adds(s, reader[s].event.game) /\ Reads(s, "reply", Reply)
  /\ UNCHANGED <<topics, listener, ended, session, matches, handler, writer, chans, ticker, got>>

\* The user's live game, as the game service names it, is resumed.
Resume(s, g) ==
  /\ reader[s].pc = "idle" /\ Connected(s) /\ MayPlay(s)
  /\ play[s] = NoGame /\ match[s] = NoGame
  /\ feed[g] < End \/ ~Crowded
  /\ play' = [play EXCEPT ![s] = g]
  /\ Reads(s, "join", Event("none", g, 0))
  /\ UNCHANGED <<topics, listener, locks, ended, session, match, matchSub, kept, casting, failed, handler,
                 writer, chans, ticker, got>>

ResumeJoins(s) ==
  /\ reader[s].pc = "join"
  /\ \/ Reads(s, "subscribe", reader[s].event) /\ UNCHANGED play
     \/ RedisMayFail /\ Reads(s, "reply", Reply) /\ play' = [play EXCEPT ![s] = NoGame]
  /\ UNCHANGED <<topics, listener, locks, ended, session, match, matchSub, kept, casting, failed, handler,
                 writer, chans, ticker, got>>

\* matchId is stored before the reader waits for mmu; there is no answer.
FindMatch(s, g) ==
  /\ reader[s].pc = "idle" /\ Connected(s) /\ MayPlay(s)
  /\ play[s] = NoGame /\ match[s] = NoGame
  /\ match' = [match EXCEPT ![s] = g]
  /\ Reads(s, "match", Event("none", g, 0))
  /\ UNCHANGED <<topics, listener, locks, ended, session, play, matchSub, kept, casting, failed, handler,
                 writer, chans, ticker, got>>

MatchSubscribes(s) ==
  /\ reader[s].pc = "match" /\ ~MmuHeld
  /\ matchSub' = [matchSub EXCEPT ![s] = "waiting"]
  /\ Reads(s, "idle", NoEvent)
  /\ UNCHANGED <<topics, listener, locks, ended, session, play, match, kept, casting, failed, handler,
                 writer, chans, ticker, got>>

\* A move, resignation or message that is not the session's to make, a second
\* request for a game: the answer is an error.
Refused(s) ==
  /\ MayRefuse /\ Quiet
  /\ reader[s].pc = "idle" /\ Connected(s)
  /\ Reads(s, "reply", Reply)
  /\ UNCHANGED <<topics, listener, locks, ended, session, matches, handler, writer, chans, ticker, got>>

ReaderReplies(s) ==
  /\ reader[s].pc = "reply" /\ Len(msgCh[s]) < MsgCap
  /\ msgCh' = [msgCh EXCEPT ![s] = Append(@, reader[s].event)]
  /\ Reads(s, "idle", NoEvent)
  /\ UNCHANGED <<topics, listener, locks, ended, session, matches, handler, writer, eventCh, ticker, got>>

StopOnce(s) == stage' = [stage EXCEPT ![s] = IF @ = "open" THEN "stopping" ELSE @]

\* ReadMessage fails: the client has gone, or Stop has closed the connection.
ReaderExits(s) ==
  /\ reader[s].pc = "idle"
  /\ stage[s] = "closed" \/ (stage[s] = "open" /\ MayLeave(s))
  /\ Reads(s, "exit", NoEvent)
  /\ StopOnce(s)
  /\ UNCHANGED <<topics, listener, locks, ended, views, leaving, matches, handler, writer, chans, ticker,
                 got>>

-----------------------------------------------------------------------------
(* The writer of a session *)

Writes(s, pc, e) == writer' = [writer EXCEPT ![s] = [pc |-> pc, event |-> e]]

TakeMsg(s) ==
  /\ writer[s].pc = "idle" /\ msgCh[s] # <<>>
  /\ Writes(s, "write", Head(msgCh[s]))
  /\ msgCh' = [msgCh EXCEPT ![s] = Tail(@)]
  /\ UNCHANGED <<topics, listener, locks, ended, session, matches, reader, handler, eventCh, ticker, got>>

Written(s) ==
  /\ writer[s].pc = "write" /\ Connected(s)
  /\ LET m == writer[s].event IN
     got' = IF m.kind = "game" THEN [got EXCEPT ![s][m.game] = m.n] ELSE got
  /\ Writes(s, "idle", NoEvent)
  /\ UNCHANGED <<topics, listener, locks, ended, session, matches, reader, handler, chans, ticker>>

WriteFails(s) ==
  /\ writer[s].pc = "write"
  /\ stage[s] = "closed" \/ MayLeave(s)
  /\ Writes(s, "exit", NoEvent)
  /\ StopOnce(s)
  /\ UNCHANGED <<topics, listener, locks, ended, views, leaving, matches, reader, handler, chans, ticker,
                 got>>

WriterExits(s) ==
  /\ writer[s].pc = "idle" /\ stage[s] = "closed"
  /\ Writes(s, "exit", NoEvent)
  /\ UNCHANGED <<topics, listener, locks, ended, session, matches, reader, handler, chans, ticker, got>>

-----------------------------------------------------------------------------
(* Stop *)

\* The heartbeat is overdue.
Overdue(s) ==
  /\ MayLeave(s) /\ stage[s] = "open"
  /\ StopOnce(s)
  /\ UNCHANGED <<topics, listener, locks, ended, views, leaving, matches, threads, chans, ticker, got>>

\* The session leaves the match, which waits for mmu; then it reads which games it
\* plays and views ...
StopReads(s) ==
  /\ stage[s] = "stopping"
  /\ match[s] # NoGame => ~MmuHeld
  /\ matchSub' = [matchSub EXCEPT ![s] = "none"]
  /\ stage' = [stage EXCEPT ![s] = "finding"]
  /\ leaving' = [leaving EXCEPT ![s] = views[s] \cup ({play[s]} \ {NoGame})]
  /\ UNCHANGED <<topics, listener, locks, ended, views, play, match, kept, casting, failed, threads, chans,
                 ticker, got>>

\* ... looks up their subscribers, all at once ...
StopLooksUp(s) ==
  /\ stage[s] = "finding" /\ gcmu = Nobody
  /\ stage' = [stage EXCEPT ![s] = "leaving"]
  /\ leaving' = [leaving EXCEPT ![s] = @ \cap known]
  /\ UNCHANGED <<topics, listener, locks, ended, views, matches, threads, chans, ticker, got>>

\* ... and left one after the other.
StopUnsubscribes(s, g) ==
  /\ stage[s] = "leaving" /\ g \in leaving[s] /\ ~Serving(g)
  /\ gameSubs' = [gameSubs EXCEPT ![g] = @ \ {s}]
  /\ leaving' = [leaving EXCEPT ![s] = @ \ {g}]
  /\ UNCHANGED <<topics, listener, known, gcmu, ended, stage, views, matches, threads, chans, ticker, got>>

\* The connection and stopCh are closed.
StopCloses(s) ==
  /\ stage[s] = "leaving" /\ leaving[s] = {}
  /\ stage' = [stage EXCEPT ![s] = "closed"]
  /\ UNCHANGED <<topics, listener, locks, ended, views, leaving, matches, threads, chans, ticker, got>>

\* wg.Wait, the channels are closed, and the session is handed to the cleaner.
StopEnds(s) ==
  /\ stage[s] = "closed"
  /\ reader[s].pc = "exit" /\ handler[s].pc = "exit" /\ writer[s].pc = "exit"
  /\ stage' = [stage EXCEPT ![s] = "gone"] /\ views' = [views EXCEPT ![s] = {}]
  /\ play' = [play EXCEPT ![s] = NoGame]
  /\ eventCh' = [eventCh EXCEPT ![s] = <<>>] /\ msgCh' = [msgCh EXCEPT ![s] = <<>>]
  /\ UNCHANGED <<topics, listener, locks, ended, leaving, match, matchSub, kept, casting, failed, threads, ticker, got>>

-----------------------------------------------------------------------------
(* The tickers of manageSessionsState: one goroutine *)

\* The lists in Redis, to which every gateway adds: they may name any game.
ViewerLists == (SUBSET Game) \ {{}}

Ping ==
  /\ MayPing /\ Quiet /\ ticker.pc = "idle"
  /\ \E todo \in ViewerLists :
       ticker' = [NoTick EXCEPT !.pc = "publish", !.todo = todo]
  /\ UNCHANGED <<topics, listener, locks, ended, session, matches, threads, chans, got>>

\* The round of a game, or the next game, or the end.
PingPublishes(g) ==
  /\ ticker.pc = "publish" /\ g \in ticker.todo /\ gcmu = Nobody
  /\ LET rest == ticker.todo \ {g} IN
     ticker' = IF g \in known /\ gameSubs[g] # {}
                 THEN [pc |-> "send", todo |-> rest, holds |-> g, left |-> gameSubs[g]]
               ELSE IF rest = {} THEN NoTick ELSE [ticker EXCEPT !.todo = rest]
  /\ UNCHANGED <<topics, listener, locks, ended, session, matches, threads, chans, got>>

\* sendMsg: send waits for room in msgCh.
PingSends(s) ==
  /\ ticker.pc = "send" /\ s \in ticker.left
  /\ \/ stage[s] = "gone" /\ UNCHANGED msgCh
     \/ /\ stage[s] # "gone" /\ Len(msgCh[s]) < MsgCap
        /\ msgCh' = [msgCh EXCEPT ![s] = Append(@, Reply)]
  /\ ticker' = IF ticker.left # {s} THEN [ticker EXCEPT !.left = @ \ {s}]
               ELSE IF ticker.todo = {} THEN NoTick
               ELSE [NoTick EXCEPT !.pc = "publish", !.todo = ticker.todo]
  /\ UNCHANGED <<topics, listener, locks, ended, session, matches, threads, eventCh, got>>

\* The minute ticker; a game stays in the list while Redis fails.  What a round
\* under way holds is no longer in the map.
CleanTick ==
  /\ MayClean /\ Quiet /\ ticker.pc = "idle" /\ ended # {} /\ gcmu = Nobody
  /\ known' = known \ ended
  /\ gameSubs' = [g \in Game |-> IF g \in ended THEN {} ELSE gameSubs[g]]
  /\ listener' = IF listener.holds \in ended THEN [listener EXCEPT !.holds = NoGame] ELSE listener
  /\ ended' \in {{}, ended}
  /\ UNCHANGED <<topics, gcmu, session, matches, threads, chans, ticker, got>>

-----------------------------------------------------------------------------
Listening  == Lookup \/ MatchRound \/ Keep \/ \E s \in Session : Consume(s)
Casting    == \E s \in Session : BroadcastSends(s)
Handling(s) == \/ TakeEvent(s) \/ HandlerJoins(s) \/ HandlerSubscribes(s)
               \/ HandlerLooksUp(s) \/ HandlerUnsubscribes(s) \/ HandlerSends(s) \/ HandlerExits(s)
Reading(s) == \/ ViewAnswered(s) \/ ResumeJoins(s) \/ Subscribes(s) \/ MatchSubscribes(s)
              \/ ReaderReplies(s) \/ (stage[s] = "closed" /\ ReaderExits(s))
Writing(s) == TakeMsg(s) \/ Written(s) \/ WriteFails(s) \/ WriterExits(s)
Stopping(s) == \/ StopReads(s) \/ StopLooksUp(s) \/ StopCloses(s) \/ StopEnds(s)
               \/ \E g \in Game : StopUnsubscribes(s, g)
Ticking == \/ \E g \in Game : PingPublishes(g)
           \/ \E s \in Session : PingSends(s)

Next ==
  \/ \E g \in Game : ListenGame(g) \/ ListenChat(g) \/ ListenCreated(g)
  \/ Listening \/ Broadcast \/ Casting \/ Expire \/ Ticking \/ Ping \/ CleanTick
  \/ \E s \in Session :
       \/ Handling(s) \/ Reading(s) \/ Writing(s) \/ Stopping(s)
       \/ Refused(s) \/ ReaderExits(s) \/ Overdue(s)
       \/ \E g \in Game : View(s, g) \/ Resume(s, g) \/ FindMatch(s, g)

Spec == Init /\ [][Next]_vars

\* A goroutine that can go on again and again does: locks and channels serve
\* who waits in turn.  A write returns in the end, with or without an error.
FairSpec ==
  /\ Spec
  /\ SF_vars(Listening) /\ SF_vars(Casting) /\ SF_vars(Ticking)
  /\ \A s \in Session : /\ SF_vars(Handling(s)) /\ SF_vars(Reading(s))
                        /\ SF_vars(Writing(s)) /\ SF_vars(Stopping(s))

-----------------------------------------------------------------------------
(* Properties *)

Full(ch, cap) == Len(ch) = cap

\* Until Stop begins to unsubscribe it, a session's client is told of the events of a
\* game one after the other, without a gap from the first he sees: between listener,
\* handler and writer nothing is dropped, overtaken or repeated, however often the
\* session subscribes.
InUse(s) == stage[s] \in {"open", "stopping", "finding"}
EventsInOrder ==
  [][\A s \in Session, g \in Game :
       InUse(s) /\ got'[s][g] # got[s][g] => got[s][g] \in {0, got'[s][g] - 1}]_vars

\* Stop reads playGameId and the views to find what a session is subscribed to: until
\* then, it is subscribed to nothing else but games that are over -- unless its handler
\* could not reach Redis when a game was created a second time, which takes the game
\* from playGameId and leaves the subscription (session.go:143).  (What reader and
\* handler subscribe to after Stop has read is left behind in any case.)
SubscriptionIsListed ==
  \A s \in Session, g \in Game :
    s \in gameSubs[g] /\ feed[g] < End /\ stage[s] \in {"open", "stopping"} /\ s \notin failed =>
      g \in views[s] \cup {play[s]}

\* Three kinds of session make somebody wait for ever: one whose writer has gone and
\* whose msgCh is full; and one into whose full eventCh the listener or the broadcast
\* routine sends, with a lock in hand, while its handler waits for a lock itself, or
\* has gone and its reader, for which Stop waits, does.
LockWait == {"lookup", "lock", "subscribe", "add", "match"}
WriterGone(s) == writer[s].pc = "exit" /\ stage[s] # "gone" /\ Full(msgCh[s], MsgCap)
SentTo(s) == s \in listener.left \cup casting /\ stage[s] # "gone" /\ Full(eventCh[s], EventCap)
HandlerWaits(s) == SentTo(s) /\ handler[s].pc \in LockWait
HandlerGone(s) == SentTo(s) /\ handler[s].pc = "exit" /\ reader[s].pc \in LockWait
Stuck == \E s \in Session : WriterGone(s) \/ HandlerWaits(s) \/ HandlerGone(s)

\* Who can go on: the guards of the steps.
ListenerGoesOn ==
  \/ listener.pc = "lookup" /\ gcmu = Nobody
  \/ listener.pc = "match" /\ ~MmuHeld
  \/ listener.pc = "send" /\ \E s \in listener.left : stage[s] = "gone" \/ ~Full(eventCh[s], EventCap)
  \/ listener.pc = "keep" /\ casting = {}
BroadcastGoesOn == \E s \in casting : stage[s] = "gone" \/ ~Full(eventCh[s], EventCap)
TickerGoesOn ==
  \/ ticker.pc = "publish" /\ ticker.todo # {} /\ gcmu = Nobody
  \/ ticker.pc = "send" /\ \E s \in ticker.left : stage[s] = "gone" \/ ~Full(msgCh[s], MsgCap)
HandlerGoesOn(s) ==
  \/ handler[s].pc = "idle" /\ (stage[s] = "closed" \/ (stage[s] # "gone" /\ eventCh[s] # <<>>))
  \/ handler[s].pc = "join"
  \/ handler[s].pc \in {"lookup", "subscribe"} /\ gcmu = Nobody
  \/ handler[s].pc = "add" /\ ~ReadLocked(handler[s].event.game)
  \/ handler[s].pc = "lock" /\ ~Serving(handler[s].event.game)
  \/ handler[s].pc = "send" /\ ~Full(msgCh[s], MsgCap)
ReaderGoesOn(s) ==
  \/ reader[s].pc \in {"ask", "join"}
  \/ reader[s].pc = "subscribe" /\ gcmu = Nobody
  \/ reader[s].pc = "add" /\ ~ReadLocked(reader[s].event.game)
  \/ reader[s].pc = "match" /\ ~MmuHeld
  \/ reader[s].pc = "reply" /\ ~Full(msgCh[s], MsgCap)
  \/ reader[s].pc = "idle" /\ stage[s] = "closed"
WriterGoesOn(s) ==
  \/ writer[s].pc = "idle" /\ (msgCh[s] # <<>> \/ stage[s] = "closed")
  \/ writer[s].pc = "write" /\ (stage[s] # "gone" \/ MayLeave(s))
StopGoesOn(s) ==
  \/ stage[s] = "stopping" /\ (match[s] # NoGame => ~MmuHeld)
  \/ stage[s] = "finding" /\ gcmu = Nobody
  \/ stage[s] = "leaving" /\ (leaving[s] = {} \/ \E g \in leaving[s] : ~Serving(g))
  \/ stage[s] = "closed" /\ reader[s].pc = "exit" /\ handler[s].pc = "exit" /\ writer[s].pc = "exit"
SomebodyGoesOn ==
  \/ ListenerGoesOn \/ BroadcastGoesOn \/ TickerGoesOn
  \/ \E s \in Session : HandlerGoesOn(s) \/ ReaderGoesOn(s) \/ WriterGoesOn(s) \/ StopGoesOn(s)

\* There is no fourth: whatever the locks gcmu, mmu, gmu and those of the games are held
\* for, nothing else stops the listener, the broadcast routine, the ticker, a handler, a
\* reader or the end of a session.
AllDeadlocksKnown ==
  (\/ listener.pc # "idle" \/ casting # {} \/ ticker.pc # "idle"
   \/ \E s \in Session : \/ stage[s] \in {"stopping", "finding", "leaving", "closed"}
                         \/ handler[s].pc \notin {"idle", "exit"}
                         \/ reader[s].pc \notin {"idle", "exit"})
    => Stuck \/ SomebodyGoesOn

\* manage.go:11: "Disconnecting inactive clients every 5 seconds based on
\* heartbeats": a session that is stopped comes to its end.
StoppedIsDisconnected ==
  \A s \in Session : stage[s] = "stopping" ~> stage[s] = "gone"

=============================================================================
