------------------------------ MODULE BotClient ------------------------------
(***************************************************************************)
(* A bot of the Go client, from its login to the end of its game: the      *)
(* reader and the writer of its connection, the subscriptions through      *)
(* which the reader hands messages to the goroutines of bot and game, and  *)
(* the three ways a game or a bot is stopped.  A ply is its index: the     *)
(* odd ones are White's.  The gateway and the game service are the last    *)
(* section.                                                                *)
(***************************************************************************)
EXTENDS Naturals, Sequences

CONSTANTS
  SubCap, OutCap,     \* room in a subscription's channel and in writeCh
  NoSub,
  Plies, MaxIncidents    \* bounds: plies of a game, failures and unasked-for messages

Sub     == {"welcome", "reply", "botEnd", "botView", "move", "end", "chat"}
TopicOf == [s \in Sub |-> CASE s = "botEnd" -> "end" [] s = "botView" -> "view" [] OTHER -> s]
\* The maps of subscriptions; Go takes them in any order, here it is this one.
BotSubs  == <<"botEnd", "botView">>
GameSubs == <<"move", "end", "chat">>

ASSUME BotAssumption ==
  /\ {SubCap, OutCap, Plies} \subseteq Nat \ {0} /\ MaxIncidents \in Nat
  /\ NoSub \notin Sub

VARIABLES
  pc,         \* of each goroutine
  work,       \* of each: the subscriptions it still ends, the one it has removed
              \* and not closed yet, and where it goes on
  subs,       \* PubSub: the subscriptions that are listed
  chan, shut, \* their channels, and which of them are closed
  reading,    \* the reader: the message it publishes, the subscriptions left
  conn, out,  \* the connection and writeCh
  once,       \* the sync.Once of Bot.Stop, game.stop and webSocket.stop
  board,      \* game: plies on the board; hasGame: Bot.g is set
  hasGame, viewed,   \* viewManager, of the games of others: the one there is
  wire,       \* messages from the gateway on their way
  server,     \* the game and what the gateway has done for this session
  incidents

botVars == <<pc, work, subs, chan, shut, reading, conn, out, once, board,
             hasGame, viewed, wire, server, incidents>>

Stoppers == {"main", "stopper", "onEnd"}
Threads  == Stoppers \cup {"onMove", "onChat", "reader", "writer", "viewer"}

\* The index of a move; the end of this game has none, of another game 1.
Msg(topic, index) == [topic |-> topic, index |-> index]
Messages == [topic: {"welcome", "reply", "error", "move", "end", "chat", "view", "ask", "resign"}, index: 0..Plies]
NotReading == [msg |-> Msg("welcome", 0), todo |-> {}]
NoWork == [todo |-> <<>>, hand |-> NoSub, next |-> "none"]

BotTypeOK ==
  /\ DOMAIN pc = Threads
  /\ work \in [Stoppers -> [todo: Seq(Sub), hand: Sub \cup {NoSub},
                            next: {"none", "find", "subscribe", "stop", "wsStop", "clear"}]]
  /\ subs \subseteq Sub /\ shut \subseteq Sub /\ subs \cap shut = {}
  /\ chan \in [Sub -> Seq(Messages)] /\ \A s \in Sub : Len(chan[s]) <= SubCap
  /\ reading.todo \subseteq Sub /\ reading.msg \in Messages
  /\ conn \in {"none", "up", "lost", "closed"}
  /\ out \in Seq(Messages) /\ Len(out) <= OutCap
  /\ once \in [{"bot", "game", "ws"} -> Threads \cup {"no", "done"}]
  /\ board \in 0..Plies /\ {hasGame, viewed} \subseteq BOOLEAN
  /\ wire \in Seq(Messages) /\ incidents \in 0..MaxIncidents
  /\ server.approved \in 0..Plies /\ server.snap \in 0..Plies

BotInit ==
  /\ pc = [t \in Threads |-> IF t = "main" THEN "login" ELSE "none"]
  /\ work = [t \in Stoppers |-> NoWork]
  /\ subs = {BotSubs[i] : i \in DOMAIN BotSubs} /\ chan = [s \in Sub |-> <<>>] /\ shut = {}
  /\ reading = NotReading
  /\ conn = "none" /\ out = <<>> /\ wire = <<>>
  /\ once = [o \in {"bot", "game", "ws"} |-> "no"]
  /\ board = 0 /\ hasGame = FALSE /\ viewed = FALSE /\ incidents = 0
  /\ \E fresh \in BOOLEAN, white \in BOOLEAN :
       server = [fresh |-> fresh, white |-> white, approved |-> IF fresh THEN 0 ELSE 1,
                 over |-> FALSE, feed |-> "no", snap |-> 0]

ps  == <<subs, chan, shut>>
net == <<conn, out, wire>>
me  == <<once, board, hasGame, viewed>>
Others == <<server, incidents>>
Calm == UNCHANGED incidents
Incident == incidents < MaxIncidents /\ incidents' = incidents + 1

Goes(t, p) == pc' = [pc EXCEPT ![t] = p]
Mine(n) == (n % 2 = 1) = server.white
-----------------------------------------------------------------------------
(* Subscriptions.  publish holds the read lock of PubSub while it sends;     *)
(* subscribe and remove need the lock for themselves.                        *)

CanLock == pc["reader"] # "publish"

Subscribes(s) == CanLock /\ subs' = subs \cup {s} /\ UNCHANGED <<chan, shut>>

\* The goroutine t goes to end some subscriptions.
Ending(t, todo, next) ==
  /\ Goes(t, "unsub")
  /\ work' = [work EXCEPT ![t] = [todo |-> todo, hand |-> NoSub, next |-> next]]

\* One subscription is ended; after the last the goroutine goes on.
Ended(t) ==
  IF work[t].todo = <<>> THEN Goes(t, work[t].next) /\ work' = [work EXCEPT ![t] = NoWork]
                       ELSE work' = [work EXCEPT ![t].hand = NoSub] /\ UNCHANGED pc

\* (mutant of Unsubscribe) the channel is closed before it is taken off the list.
UnsubscribeLate(t) ==
  /\ pc[t] = "unsub" /\ UNCHANGED <<chan, reading, net, me, Others>>
  /\ LET w == work[t] IN
     \/ /\ w.hand = NoSub
        /\ shut' = shut \cup {Head(w.todo)}
        /\ work' = [work EXCEPT ![t].hand = Head(w.todo), ![t].todo = Tail(@)]
        /\ UNCHANGED <<pc, subs>>
     \/ /\ w.hand # NoSub /\ CanLock
        /\ subs' = subs \ {w.hand} /\ Ended(t)
        /\ UNCHANGED shut

\* Unsubscribe, of one subscription after the other: it is removed, then its
\* channel is closed.  No two goroutines end the same one.
Unsubscribe(t) ==
  /\ pc[t] = "unsub" /\ UNCHANGED <<chan, reading, net, me, Others>>
  /\ LET w == work[t] IN
     \/ /\ w.hand = NoSub /\ CanLock
        /\ subs' = subs \ {Head(w.todo)}
        /\ work' = [work EXCEPT ![t].hand = Head(w.todo), ![t].todo = Tail(@)]
        /\ UNCHANGED <<pc, shut>>
     \/ /\ w.hand # NoSub
        /\ shut' = shut \cup {w.hand} /\ Ended(t)
        /\ UNCHANGED subs

\* A goroutine takes the next message of a subscription, or finds it closed.
Receives(s) == chan[s] # <<>> /\ chan' = [chan EXCEPT ![s] = Tail(@)]
Finished(s) == s \in shut /\ chan[s] = <<>>

\* sendMessage does not wait; what it is given when writeCh is full is an error.
Room == Len(out) < OutCap
Sends(m) == Room /\ out' = Append(out, m)

-----------------------------------------------------------------------------
(* Stopping *)

\* Bot.Stop: the first caller does the work, the others wait for him.
StopBot(t) ==
  /\ pc[t] = "stop" /\ UNCHANGED <<ps, reading, net, board, hasGame, viewed, Others>>
  /\ \/ /\ once.bot = "no"
        /\ once' = [once EXCEPT !.bot = t] /\ Ending(t, BotSubs, "wsStop")
     \/ once.bot = "done" /\ Goes(t, "exit") /\ UNCHANGED <<once, work>>

AfterWs(t) == IF t \in {"reader", "writer"} THEN "exit" ELSE "ifGame"

\* webSocket.stop, up to the message on stopCh.
WsStop(t) ==
  /\ pc[t] = "wsStop" /\ UNCHANGED <<work, ps, reading, net, board, hasGame, viewed, Others>>
  /\ \/ conn = "none" /\ Goes(t, "ifGame") /\ UNCHANGED once
     \/ /\ conn # "none" /\ once.ws = "no"
        /\ once' = [once EXCEPT !.ws = t] /\ Goes(t, "handing")
     \/ once.ws = "done" /\ Goes(t, AfterWs(t)) /\ UNCHANGED once

\* stopCh has no room: reader or writer has to come and take the message.  Then
\* the connection is closed.
CloseConn(t, r) ==
  /\ pc[t] = "handing" /\ r \in {"reader", "writer"} \ {t} /\ pc[r] = "select"
  /\ pc' = [pc EXCEPT ![t] = AfterWs(t), ![r] = "exit"]
  /\ conn' = "closed" /\ wire' = <<>> /\ once' = [once EXCEPT !.ws = "done"]
  /\ UNCHANGED <<work, ps, reading, out, board, hasGame, viewed, Others>>

\* Bot.Stop asks whether there is a game, and reads Bot.g again to stop it: if
\* the game is gone meanwhile, it panics.
IfGame(t) ==
  /\ pc[t] = "ifGame" /\ UNCHANGED <<work, ps, reading, net, board, hasGame, viewed, Others>>
  /\ \/ hasGame /\ Goes(t, "again") /\ UNCHANGED once
     \/ ~hasGame /\ Goes(t, "exit") /\ once' = [once EXCEPT !.bot = "done"]
ReadsAgain(t) ==
  /\ pc[t] = "again" /\ Goes(t, IF hasGame THEN "gameStop" ELSE "panic")
  /\ UNCHANGED <<work, ps, reading, net, me, Others>>

\* After game.stop: the end of Bot.Stop, of a failed first move, of an event.
AfterGame(t, o) ==
  IF once.bot = t THEN Goes(t, "exit") /\ once' = [o EXCEPT !.bot = "done"]
                  ELSE Goes(t, IF t = "main" THEN "stop" ELSE "take") /\ once' = o

\* game.stop
StopGame(t) ==
  /\ pc[t] = "gameStop" /\ UNCHANGED <<ps, reading, net, board, hasGame, viewed, Others>>
  /\ \/ /\ once.game = "no"
        /\ once' = [once EXCEPT !.game = t]
        /\ Ending(t, GameSubs, "clear")
     \/ once.game = "done" /\ AfterGame(t, once) /\ UNCHANGED work

ClearGame(t) ==
  /\ pc[t] = "clear"
  /\ hasGame' = FALSE /\ AfterGame(t, [once EXCEPT !.game = "done"])
  /\ UNCHANGED <<work, ps, reading, net, board, viewed, Others>>

-----------------------------------------------------------------------------
(* The gateway and the game service, as the session of the bot sees them *)

Push(m) == wire' = IF conn = "up" THEN Append(wire, m) ELSE wire
Feeds(m) == IF server.feed = "yes" THEN Push(m) ELSE UNCHANGED wire

\* A message of the bot arrives.  The service approves a ply by its index, and
\* may lose it.
Received(m) ==
  \/ /\ m.topic = "move" /\ ~server.over /\ m.index = server.approved + 1
     /\ \/ server' = [server EXCEPT !.approved = m.index] /\ Feeds(m) /\ Calm
        \/ Incident /\ UNCHANGED <<server, wire>>
  \/ /\ m.topic = "resign" /\ ~server.over
     /\ server' = [server EXCEPT !.over = TRUE] /\ Feeds(Msg("end", 0)) /\ Calm
  \/ m.topic = "ask" /\ server' = [server EXCEPT !.feed = "asked"] /\ UNCHANGED wire /\ Calm
  \/ m.topic = "view" /\ Push(Msg("view", 0)) /\ UNCHANGED server /\ Calm
  \/ /\ \/ m.topic = "chat"
        \/ m.topic = "move" /\ (server.over \/ m.index # server.approved + 1)
        \/ m.topic = "resign" /\ server.over
     /\ UNCHANGED <<server, wire>> /\ Calm

\* The gateway fetches the game, then subscribes the session and answers; a game
\* that is over is answered by an error.
Answer ==
  /\ \/ /\ server.feed = "asked" /\ ~server.over
        /\ server' = [server EXCEPT !.feed = "fetched",
                                    !.snap = IF server.fresh THEN 0 ELSE server.approved]
        /\ UNCHANGED wire /\ Calm
     \/ /\ server.feed = "asked" /\ IF server.over THEN Calm ELSE Incident
        /\ server' = [server EXCEPT !.feed = "refused"] /\ Push(Msg("error", 0))
     \/ /\ server.feed = "fetched"
        /\ server' = [server EXCEPT !.feed = "yes"] /\ Push(Msg("reply", server.snap)) /\ Calm
  /\ UNCHANGED <<pc, work, ps, reading, conn, out, me>>

\* The opponent plays; the game ends.  (Of a broken connection it is not told.)
Opponent ==
  /\ ~server.over /\ conn \in {"none", "up"}
  /\ \/ /\ server.approved < Plies /\ ~Mine(server.approved + 1)
        /\ server' = [server EXCEPT !.approved = @ + 1] /\ Feeds(Msg("move", server.approved + 1))
     \/ server' = [server EXCEPT !.over = TRUE] /\ Feeds(Msg("end", 0))
  /\ UNCHANGED <<pc, work, ps, reading, conn, out, me, incidents>>

\* An approved ply once more, a chat message, the end of the game that is viewed.
Extra ==
  /\ Incident /\ conn = "up" /\ server.feed = "yes"
  /\ \/ \E n \in 1..server.approved : Push(Msg("move", n))
     \/ Push(Msg("chat", 0)) \/ Push(Msg("end", 1))
  /\ UNCHANGED <<pc, work, ps, reading, conn, out, me, server>>

LoseConn ==
  /\ Incident /\ conn = "up" /\ conn' = "lost"
  /\ UNCHANGED <<pc, work, ps, reading, out, wire, me, server>>
-----------------------------------------------------------------------------
(* The connection *)

\* runReader; what has arrived before the connection broke may still be read.
\* publish takes the read lock: who is listed now is sent the message.
ReadMessage ==
  /\ pc["reader"] = "read"
  /\ UNCHANGED <<work, ps, conn, out, me, Others>>
  /\ \/ /\ conn # "closed" /\ wire # <<>>
        /\ reading' = [msg |-> Head(wire),
                       todo |-> {s \in subs : TopicOf[s] = Head(wire).topic}]
        /\ wire' = Tail(wire) /\ Goes("reader", "publish")
     \/ conn # "up" /\ Goes("reader", "wsStop") /\ UNCHANGED <<reading, wire>>

\* Before the next message the reader sees whether somebody stops the connection.
Published(todo) ==
  /\ reading' = IF todo = {} THEN NotReading ELSE [reading EXCEPT !.todo = todo]
  /\ IF todo # {} THEN UNCHANGED pc
     ELSE Goes("reader", IF \E t \in Threads : pc[t] = "handing" THEN "select" ELSE "read")

PublishNext ==
  /\ pc["reader"] = "publish"
  /\ \/ \E s \in reading.todo :
          /\ s \notin shut /\ Len(chan[s]) < SubCap
          /\ chan' = [chan EXCEPT ![s] = Append(@, reading.msg)]
          /\ Published(reading.todo \ {s})
     \/ (\E s \in reading.todo : s \in shut) /\ Goes("reader", "panic") /\ UNCHANGED <<chan, reading>>
     \/ reading.todo = {} /\ Published({}) /\ UNCHANGED chan
  /\ UNCHANGED <<work, subs, shut, net, me, Others>>

\* runWriter; the ping of every second finds a broken connection too.  What is
\* written to one that is lost may seem to have been sent.
WriteMessage ==
  /\ pc["writer"] = "select" /\ out # <<>> /\ out' = Tail(out)
  /\ \/ conn = "up" /\ Received(Head(out)) /\ UNCHANGED pc
     \/ conn = "lost" /\ UNCHANGED <<pc, wire, server, incidents>>
     \/ conn # "up" /\ Goes("writer", "wsStop") /\ UNCHANGED <<wire, server, incidents>>
  /\ UNCHANGED <<work, ps, reading, conn, me>>

PingFails ==
  /\ pc["writer"] = "select" /\ conn # "up" /\ Goes("writer", "wsStop")
  /\ UNCHANGED <<work, ps, reading, net, me, Others>>

-----------------------------------------------------------------------------
(* The main goroutine: startBot *)

\* A step of main that is a request, and may fail.
Request(from, to) ==
  /\ pc["main"] = from
  /\ \/ Goes("main", to) /\ Calm
     \/ Goes("main", "stop") /\ Incident
  /\ UNCHANGED <<work, ps, reading, net, me, server>>

LogIn == Request("login", "dial")

\* SetupWS, up to the goroutines of the connection.
Dial ==
  /\ pc["main"] = "dial"
  /\ \/ /\ pc' = [pc EXCEPT !["main"] = "listen", !["reader"] = "read", !["writer"] = "select"]
        /\ conn' = "up" /\ wire' = <<Msg("welcome", 0)>> /\ Calm
     \/ Incident /\ Goes("main", "stop") /\ UNCHANGED <<conn, wire>>
  /\ UNCHANGED <<work, ps, reading, out, me, server>>

\* The reader may have taken the welcome message before anybody subscribes to it.
Listen(s, from, to) ==
  /\ pc["main"] = from /\ Subscribes(s) /\ Goes("main", to)
  /\ UNCHANGED <<work, reading, net, me, Others>>

\* SetupWS waits for a minute.
Welcomed ==
  /\ pc["main"] = "welcome"
  /\ \/ Receives("welcome") /\ Ending("main", <<"welcome">>, "find")
     \/ chan["welcome"] = <<>> /\ UNCHANGED chan /\ Ending("main", <<"welcome">>, "stop")
  /\ UNCHANGED <<subs, shut, reading, net, me, Others>>

\* RandomView starts.  A bot that has a live game resumes it, another waits for a
\* match.
StartViewer ==
  /\ pc["main"] = "find"
  /\ pc' = [pc EXCEPT !["main"] = "liveGame", !["viewer"] = "run"]
  /\ UNCHANGED <<work, ps, reading, net, me, Others>>
GetUserLiveGame == Request("liveGame", IF server.fresh THEN "match" ELSE "listenReply")
FindMatch       == Request("match", "listenReply")

\* Create and Resume ask the gateway for the game.
Ask ==
  /\ pc["main"] = "ask"
  /\ \/ Sends(Msg("ask", 0)) /\ Goes("main", "reply")
     \/ ~Room /\ Goes("main", "stop") /\ UNCHANGED out
  /\ UNCHANGED <<work, ps, reading, conn, wire, me, Others>>

\* The answer is waited for without a timeout; it may not be a game.
Replied ==
  /\ pc["main"] = "reply" /\ Receives("reply")
  /\ \/ board' = Head(chan["reply"]).index /\ Ending("main", <<"reply">>, "subscribe") /\ Calm
     \/ Incident /\ Ending("main", <<"reply">>, "stop") /\ UNCHANGED board
  /\ UNCHANGED <<subs, shut, reading, net, once, hasGame, viewed, server>>

\* addBasicSubs: one subscription after the other, that of the moves first.
AddBasicSubs ==
  /\ pc["main"] = "subscribe"
  /\ \E i \in DOMAIN GameSubs :
       /\ \A j \in DOMAIN GameSubs : GameSubs[j] \in subs <=> j < i
       /\ Subscribes(GameSubs[i])
       /\ Goes("main", IF i = Len(GameSubs) THEN "run" ELSE "subscribe")
  /\ UNCHANGED <<work, reading, net, me, Others>>

\* The rest of Create and Resume (whose game may name no players), and run: the
\* goroutine that may stop the bot, and Black's, which answers chat messages.
Run ==
  /\ pc["main"] = "run"
  /\ \/ /\ hasGame' = TRUE /\ Calm
        /\ pc' = [pc EXCEPT !["main"] = IF Mine(board + 1) /\ board < Plies THEN "first" ELSE "serve",
                            !["stopper"] = "sleep",
                            !["onChat"] = IF server.white THEN "none" ELSE "take"]
     \/ Incident /\ ~server.fresh /\ Goes("main", "stop") /\ UNCHANGED hasGame
  /\ UNCHANGED <<work, ps, reading, net, once, board, viewed, server>>

\* The first ply, and sendMove, which gives up after three times.
FirstMove ==
  /\ pc["main"] = "first" /\ board' = board + 1 /\ Goes("main", "send")
  /\ UNCHANGED <<work, ps, reading, net, once, hasGame, viewed, Others>>

SendMove(t, sent, failed) ==
  /\ pc[t] = "send"
  /\ \/ Sends(Msg("move", board)) /\ Goes(t, sent)
     \/ ~Room /\ Goes(t, failed) /\ UNCHANGED out
  /\ UNCHANGED <<work, ps, reading, conn, wire, me, Others>>

\* A goroutine for each subscription of the game.
Serve ==
  /\ pc["main"] = "serve"
  /\ pc' = [t \in Threads |-> IF t \in {"onMove", "onEnd", "onChat"} /\ pc[t] = "none" THEN "take"
                              ELSE IF t = "main" THEN "wait" ELSE pc[t]]
  /\ UNCHANGED <<work, ps, reading, net, me, Others>>

Over ==
  /\ pc["main"] = "wait" /\ \A t \in {"onMove", "onEnd", "onChat"} : pc[t] = "exit"
  /\ Goes("main", "stop")
  /\ UNCHANGED <<work, ps, reading, net, me, Others>>

RandomStop ==
  /\ pc["stopper"] = "sleep" /\ Goes("stopper", "stop")
  /\ UNCHANGED <<work, ps, reading, net, me, Others>>

-----------------------------------------------------------------------------
(* The goroutines of game and bot that follow messages *)

\* (mutant of TakesMove) the index of the message is not compared.
TakesAnyMove(m) == ~Mine(m.index)
TakesMove(m)    == ~Mine(m.index) /\ m.index = board + 1

\* handleMoveApproved: the opponent's next ply is played and answered at once.
HandleMoveApproved ==
  /\ pc["onMove"] = "take" /\ Receives("move")
  /\ \/ /\ ~TakesMove(Head(chan["move"])) /\ UNCHANGED <<pc, board>>
     \/ /\ TakesMove(Head(chan["move"])) /\ board + 1 = Plies
        /\ board' = board + 1 /\ UNCHANGED pc
     \/ /\ TakesMove(Head(chan["move"])) /\ board + 1 < Plies
        /\ board' = board + 2 /\ Goes("onMove", "send")
  /\ UNCHANGED <<work, subs, shut, reading, net, once, hasGame, viewed, Others>>

\* handleGameEnd of the game.
HandleGameEnd ==
  /\ pc["onEnd"] = "take" /\ Receives("end")
  /\ IF Head(chan["end"]).index = 0 THEN Goes("onEnd", "gameStop") ELSE UNCHANGED pc
  /\ UNCHANGED <<work, subs, shut, reading, net, me, Others>>

\* A chat message is answered, or dropped.
HandleChat ==
  /\ pc["onChat"] = "take" /\ Receives("chat")
  /\ Sends(Msg("chat", 0)) \/ UNCHANGED out
  /\ UNCHANGED <<pc, work, subs, shut, reading, conn, wire, me, Others>>

\* The channel of a loop is closed and empty.
LoopEnds(t, s) ==
  /\ pc[t] = "take" /\ Finished(s) /\ Goes(t, "exit")
  /\ UNCHANGED <<work, ps, reading, net, me, Others>>

\* handleEvent of the bot: the games it views.
HandleView ==
  /\ Receives("botView") /\ viewed' = TRUE
  /\ UNCHANGED <<pc, work, subs, shut, reading, net, once, board, hasGame, Others>>
HandleBotEnd ==
  /\ Receives("botEnd")
  /\ viewed' = (viewed /\ Head(chan["botEnd"]).index = 0)
  /\ UNCHANGED <<pc, work, subs, shut, reading, net, once, board, hasGame, Others>>

\* RandomView asks for a game of the list that is not viewed yet.  (While there is
\* none it goes on choosing, and does not look at stopCh.)
RandomView ==
  /\ pc["viewer"] = "run" /\ once.bot = "no" /\ ~viewed
  /\ Incident /\ Sends(Msg("view", 0))
  /\ UNCHANGED <<pc, work, ps, reading, conn, wire, me, server>>

\* White's chat messages, until the game is stopped; the resignation of either.
ChatGenerator ==
  /\ hasGame /\ server.white /\ once.game # "done" /\ Incident /\ Sends(Msg("chat", 0))
  /\ UNCHANGED <<pc, work, ps, reading, conn, wire, me, server>>
Resigner ==
  /\ hasGame /\ Incident /\ Sends(Msg("resign", 0))
  /\ UNCHANGED <<pc, work, ps, reading, conn, wire, me, server>>

Starting == \/ LogIn \/ Dial \/ Welcomed \/ StartViewer \/ GetUserLiveGame \/ FindMatch \/ Ask
            \/ Replied \/ AddBasicSubs \/ Run \/ FirstMove
            \/ Listen("welcome", "listen", "welcome") \/ Listen("reply", "listenReply", "ask")
            \/ SendMove("main", "serve", "gameStop") \/ Serve \/ Over \/ RandomStop
Following == \/ HandleMoveApproved \/ SendMove("onMove", "take", "take") \/ HandleGameEnd
             \/ HandleChat \/ HandleView \/ HandleBotEnd \/ RandomView
             \/ LoopEnds("onMove", "move") \/ LoopEnds("onEnd", "end") \/ LoopEnds("onChat", "chat")
             \/ ChatGenerator \/ Resigner

\* A panic is the end of the process.
BotNext ==
  /\ \A t \in Threads : pc[t] # "panic"
  /\ \/ Starting \/ Following
     \/ \E t \in Threads : \/ StopBot(t) \/ IfGame(t) \/ ReadsAgain(t) \/ StopGame(t) \/ ClearGame(t)
                           \/ Unsubscribe(t) \/ WsStop(t)
                           \/ \E r \in Threads : CloseConn(t, r)
     \/ ReadMessage \/ PublishNext \/ WriteMessage \/ PingFails
     \/ Answer \/ Opponent \/ Extra \/ LoseConn

BotSpec == BotInit /\ [][BotNext]_botVars

-----------------------------------------------------------------------------
(* Properties *)

\* Whatever is repeated, delayed, missed at the start or lost with a full writeCh, the
\* bot's board is that of the service but for one ply, and the ply it has still
\* to send is the one after all approved: it never plays twice or out of turn.
BoardInStep ==
  hasGame =>
    /\ board <= server.approved + 1 /\ server.approved <= board + 1
    /\ \A i \in DOMAIN out : out[i].topic = "move" =>
         out[i].index = board /\ board = server.approved + 1 /\ Mine(board)

\* The reader never sends on a closed channel, which would end the process of
\* all bots, whichever goroutine ends subscriptions while it publishes.
NoSendAfterClose == pc["reader"] = "publish" => reading.todo \cap shut = {}

=============================================================================
