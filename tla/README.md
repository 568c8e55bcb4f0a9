# Shahboard in TLA+

Shahboard is a chess platform of six Go services that talk over Kafka, gRPC and
Redis.  This directory specifies its concurrent core, checks it with TLC and
proves with TLAPS, for every value of the constants, nearly all the safety properties
that TLC checks.  Paths are relative to the repository root, which is `src/` here.

## 1. The system

| Component | State it keeps | Operations that change it | What makes it correct |
|---|---|---|---|
| game entity (`gameservice/entity`) | players and colours, status, chess position and outcome, pending draw offer | `Move`, `OfferDraw`, `AcceptDraw`, `RejectDraw`, `ClaimDraw`, `Resign`, `PlayerLeft`, `EndGame` | plies in order, by the player on turn; an ended game has a result |
| game service (`gameservice/service`: `event.go`, `manager.go`, `cache.go`, `methods.go`) | `gameManager.games` in memory; `game:<id>` and `player_game:<id>` in Redis | `match.created`, the player events, the 2 s ticker, `GET /live/resign/:gameId` | one game per player; an end is decided, recorded, announced and forgotten, whoever decides it; nothing is approved out of order |
| connection tracker (`connection.go`) | who left which game, and when | `add`, `remove`, `removeGame`, the ticker's scan | who stays away loses the game in the end |
| live list (`live.go`) | the games shown to viewers, sorted | `add`, `remove`, the 5 s refresh | lists exactly the games in progress |
| match service (`matchservice/service`) | the queue per level, the requests' channels | `NewMatchRequest`, `cancelRequest`, the engine's ticker, `Stop` | nobody queued twice or paired with himself; clients learn what is published |
| websocket gateway (`wsgateway/ws`) | sessions, their subscriptions, a Redis hash of the users' sessions | the client's messages, the event listener, broadcast, ping and cleanup tickers, the session cleaner | each subscriber sees a game's events; who leaves his game with his last session is reported by `game.playerLeft` |
| event bus (`event`, `event/kafka`) | subscriptions by domain and index, consumer group state | `Subscribe`, `Unsubscribe`, `send`, `reConsume`, `Publish` | every subscriber gets every event of its topic, in order |
| chat service (`chatservice`) | chats in memory and in Redis | `game.created`, `msgSent`, `game.ended` | chat, Redis key and announcements follow the game, and a failed call leaves no chat open |
| rating service (`profileservice/service/rating`, `pkg/elo`) | ratings and rating changes in PostgreSQL | `game.ended` | each game is counted once |
| auth service (`authservice`) | rows of users and secrets | password, Google and guest log-in | a token names a user that exists; `user.created` is published for a new one |
| user profiles (`profileservice/service/user`) | rows of profiles | `user.created`, `PATCH /users` | what a user was told is saved stays |
| bots (`client-go/bot`) | one connection, its subscriptions, a board | the gateway's messages, `Stop` from three sides | the board follows the service's; no send on a closed channel |

The web client (`frontend`), the command line (`cli`), commands, deployment
files and generated gRPC code hold no logic of the system and are not modelled.

### How the parts meet

A `GET /find` request asks the game service whether the user plays already,
queues itself in the engine, and waits for a channel, a timer or its client's
context.  Every tick the engine pairs the queue, answers both requests and hands
the pairs to a goroutine that publishes `match.created`.  The game service
creates the game, writes it to Redis, keeps it in memory and publishes
`game.created`; the gateway tells the sessions that wait for the match, the chat
service opens a chat.  Moves, draw offers and resignations travel from a session
over Kafka to the instance that manages the game, which answers with
`game.moveApproved` and, at last, `game.ended`; the gateway, the chat service and
the rating service act on that.  The gateway reports `game.playerLeft` and
`game.playerJoined`; the game service's ticker ends a game after 120 s of
absence.

### What is hard

* Three kinds of goroutine end a game: the event subscription, the ticker, and
  one goroutine per HTTP request.  The status is read without a lock, and
  deciding, recording (Redis), announcing (Kafka) and forgetting (`gm`) are
  separate steps, in different orders in different handlers.
* Every Redis or Kafka call can fail, before or after it took effect, and each
  caller treats the failure differently: return, or log and go on.
* Events may be repeated or stale; one event is consumed by every instance.
* A restart empties the memory and reads nothing back.
* The bus keeps order within a partition only.  The message key holds the
  action, so that two events of one game lie in different partitions and its end
  may be taken before its creation.
* Locks are held over channel sends: the bus while it hands an event out, the
  gateway while it serves the subscribers of a game.  The bounded channels behind
  them close the circle.
* The timer of a match request races the engine's answer.

`PROJECT.json` lists each hazard at its line under "hazards".

## 2. Modules

| Module | Models |
|---|---|
| `GameEntity` | one game and its operations, as operators on a record |
| `GameService` | instances of the game service with their goroutines, Redis, the announcements; environment: match service, Kafka, restarts, expiry |
| `GameTopic` | what the game service promises those who listen to its topic: the abstract specification; `GameService` implements it |
| `MCGameService` | symmetry set for TLC |
| `GameServiceProofs` | types; one game per player; every announced end has a result |
| `GameLifecycleProofs` | one instance holds a game; a handler records the end before it announces it; the refinement of `GameTopic`, with plies in order, an end announced once and one late ply at most; no zombie game, a dropped game frees its players |
| `MatchEngine` | requests, engine and publisher of the match service |
| `MCMatchEngine` | symmetry set for TLC |
| `InductionLemmas` | induction over numbers without operator parameters |
| `MatchEngineProofs` | the sweep is the pairing of neighbours; types; the queue; answered matches |
| `WsPresence` | one user's sessions at the websocket gateway, their Redis hash, the cleaner, the minute ticker and that of another gateway |
| `WsPresenceProofs` | types; a gateway spares its own sessions; no orphan; who is counted is played; the last one out is announced |
| `OrderedDelivery` | what the bus promises a service: the abstract specification |
| `EventBus` | publisher, subscriber and consumer group over Kafka and sarama, in a service and in the gateway; implements `OrderedDelivery` |
| `EventBusProofs` | types; one session; consumption goes on; the refinement of `OrderedDelivery` |
| `WsFanout` | listener, broadcast routine, subscribers' locks and the three goroutines of each session of the gateway, with their channels |
| `WsFanoutProofs` | types; a subscription is listed; a client gets the events of a game in order; the ways to wait for ever |
| `Chat` | the chat service |
| `LiveList` | the list of live games of the game service |
| `Ratings` | the rating service with the Elo arithmetic |
| `Accounts` | log-ins of the auth service and the profiles |
| `BotClient` | one bot of the Go client |
| `Followers` | the five above, of which one moves in each behaviour |
| `FollowersProofs` | the chat service, accounts, bots, ratings and live list, and all five parts together |
| `MCWsPresence`, `MCWsFanout`, `MCEventBus`, `MCFollowers` | symmetry sets, topics and bounds for TLC |

### GameEntity

The position is the number of plies; whose turn it is follows from it.  Whether a
ply is legal, whether it mates or draws, and whether a draw may be claimed are
the chess library's verdicts: the caller chooses them freely.  What the library
does with them is kept: a mate or rule draw overwrites an earlier result, `Draw`
overwrites it too, `Resign` does not.  A draw by agreement or claim does not touch
the status, and `Encoded` loses the draw offer, as in the code.  The library's
behaviour is marked external in the map.

### GameService

State and code correspond as follows.

| Variable | Code |
|---|---|
| `object` | the `*entity.Game` the creating instance holds (also while goroutines still point to it after `removeGame`) |
| `games`, `away` | `gameManager.games`, `playersConnectionTracker.list` (its times reduced to who left and who left first) |
| `cached`, `playerGame` | Redis `game:<id>` (without expiry, or with the 15 minutes of an ended game) and `player_game:<id>` |
| `matchTh`, `gameTh`, `tickTh`, `httpTh` | local variables and position of the four kinds of goroutine |
| `matches`, `inbox`, `origin` | published `match.created` events, those still to be consumed, and the match of each game |
| `created`, `approved`, `ended`, `late` | what was announced; `late` counts plies approved after the end was announced |

An action runs from one access to shared state (the status, the entity under its
lock, `gm.games`, the tracker) or one call to Redis or Kafka to the next.  A call
reports success or failure; success implies that it took effect, failure does
not imply that it did not.  `SaveEnd` returns on an error and `TickSave` goes on, as
their handlers do; a publication of several events may send some of them.
`event.SubscriptionManager` runs one goroutine per subscription, hence one
`matchTh` and one `gameTh` per instance; of HTTP requests, one per instance is in
flight at a time.  The publication of `claimDrawApproved` after a draw offer
changes no state and is part of `ActOffer`; the tag pairs written to the PGN,
times and texts are left out.

`GameTopic` is the view of a listener: which games are created, which plies are
approved and which ends are announced.  `GameService` implements it
(`ImplementsTopic`); the mapping is the identity on `created`, `approved`, `ended` and
`late`, and the services' instances, caches and goroutines disappear.  Three constants
say what may go wrong below: with `EverySaved` (no call fails) the plies have no gap;
with `EverySent` (no publication fails) neither the handler nor the ticker announces an
end twice, and no ply follows the handler's announcement; with `ByManager` (nobody ends a
decoded copy) at most one ply follows any end.  Always, the plies rise and an end has a
result.  That the creation comes first is not promised, as the game is in memory, and can
be played, before `game.created` is published.
`GameService` sets them from its failure switches.  As announcements are sets
here, a repeated identical one is a stutter; `AnnouncedOnce` speaks of those.

### MatchEngine

A request is a process of its own: `CheckLiveGame` and `AddToQueue` are apart, as
the gRPC answer is old when the queue is locked.  The `select` of
`NewMatchRequest` may take the timer although the response is there.  `Sweep` is
`findMatches`: from the highest level to the lowest, the odd request carried down.
`HandOver` is the unbuffered `matchCh`.  The game service is reduced to taking and
ending matches.

### WsPresence

| Variable | Code |
|---|---|
| `status`, `heard` | the games, which the game service starts and ends, and the events of the game topic that `startEventListener` has received |
| `stage` | a session from the upgrade through `Stop` (unsubscribing, waiting for its goroutines) and the cleaner to its end |
| `registered`, `due` | `sessionsManager.sessions`, and the sessions that `newSession` has started while `sm.add` is still to come |
| `entry`, `stale` | the session's field of the hash `user_sessions:<user>`: its game id, the zero id, or no field; whether its `updatedAt` is more than a minute ago |
| `play`, `match`, `views` | `playGameId`, `matchId`, `viewGamesId` |
| `reader`, `handler`, `eventCh` | position of `readLoop` and `handleEvent`, and the events that wait |
| `matchSub`, `gameSubs` | `matchSubSessions` with its `broadcasted` flag, and `gameWithChatSubSessions` |
| `tick`, `elsewhere` | the minute ticker with the snapshot it writes back and the entries it is about to delete; those another gateway is about to delete |
| `seated` | history: games a session was recorded in since the last `game.playerLeft` |

The hashes of different users do not interact, so there is one user.  A handler
is cut at its Redis calls.  `game.created` reaches a session from the listener and
once more from the broadcast ticker; it and `game.ended` are heard in either order,
since the message key holds the action and the two lie in different partitions.
The writer, other events and the bounds of the channels are in `WsFanout`.

Opening a session is three steps, since `newSession` starts the goroutines before `sm.add`
is called: a session may be stopped and cleaned in between, is then registered for good,
and every tick writes its entry again.  `Late` says of which sessions that is looked at.
`deleteExpiredSessions` picks entries by their age alone, whoever owns them
(`TickFind`), and deletes them in a second call (`TickDelete`), although they may have been
written again meanwhile; another gateway on the same Redis does the same at any time
(`OtherFinds`, `OtherDeletes`), also with the entries of sessions that are alive here.
An entry grows old only between two ticks, and not while its session is opening: a tick and
an upgrade take less than a minute.  `game.playerLeft` is always published.

### EventBus and OrderedDelivery

| Variable | Code |
|---|---|
| `log`, `committed` | Kafka: the stored events of each partition and the group's offsets |
| `main`, `subs`, `reader` | the goroutine that subscribes, `subscriptionManager.subs`, the goroutines that read the subscriptions |
| `td`, `isRunnig`, `addingTopic`, `muHolder` | the fields of `consumerGroup` and its lock |
| `calls` | the calls of sarama's `Consume` that have not returned, with the domains and the context of each |
| `reconnects` | goroutines started by `Cleanup` that wait for the lock |
| `claim`, `offset` | the `ConsumeClaim` of each partition and what it has marked |
| `seen`, `mayMiss` | history, the variables of `OrderedDelivery` |

A process is one of `Service` and makes the subscriptions of its `Program` one after the
other, each to another domain; `BusAssumption` says so.  A service gives every subscription
its reader before it makes the next (`AddSubscription`; `ReadersFirst`).  The gateway makes
its three `Subscribe` calls first and starts the one goroutine that reads them after
(`wsgateway/ws/events.go:49-52`, `68`); in the model each of its subscriptions has a reader of its own from then on, which is no
less than the one has (the third, the direct chat's, is never read in the code; no event of
it decodes, so none is ever sent to it).  An event is the topic it was published under, and
`Match` is `Topic.Match`.  `OrderedDelivery` says that a subscription is handed the
events it wants of a partition in order and none is skipped, except that a new
session may go back, and after a crash forward over one wanted event, since
`ConsumeClaim` marks before it sends.  The refinement is the identity on `log`,
`seen` and `mayMiss`.  `Unsubscribe`, `Close` and `SubscriptionManager.Stop` are never
called by a running command and are left out; the group has one member.

### WsFanout

Each wait is a guard: `eventCh` and `msgCh` with their capacity; the lock of a
game's subscribers; `gcmu`, which a subscription holds while it waits for the lock
of its game; `mmu`, the lock of the sessions that wait for a match; and `gmu`, that of the
kept `game.created`.  The listener holds the read lock of a game for as long as it
hands an event of it to its sessions, and `mmu` while it hands out a `game.created`
(`MatchRound`); the broadcast routine holds `mmu` and `gmu` over its round (`casting`), in
which it sends a kept `game.created` again, also to sessions the listener has served; the
ticker that publishes the lists of viewers holds the read lock of a game while it sends.
Two goroutines of a session subscribe it to a game: the reader, for a view (`View`) or a game
that is resumed (`Resume`), and the event handler, when it takes a `game.created`
(`HandlerJoins`, `HandlerSubscribes`).  When Redis fails the handler clears `playGameId`, and
what it had subscribed after an earlier `game.created` of the game stays (`failed`).  A writer leaves on a failed write and stops the session;
`Stop` leaves the match, reads what the session plays and views (`StopReads`), unsubscribes,
waits for the three goroutines and closes the channels.  What
the listener found before is used after: a subscriber set that was cleaned in the
meantime is not the one in the map.  Of such a set the identity is not kept: a
handler or a `Stop` that has looked it up removes its session from the current one.
Go's lock lets a waiting writer go before later readers; this preference is not
modelled, so that the model has more interleavings.  The content of messages,
the Redis hash (`WsPresence`) and pongs, which nobody waits for, are left out.

### Chat, LiveList, Ratings, Accounts

`Chat` has both goroutines of the service, cut at their calls to Redis and the bus.  For each
game it remembers what has gone wrong (`faults`): each call that failed, an end that came
before the creation or to no chat, an end that came again, and what a restart left undone.
`LiveList` keeps the copy that the ticker holds between its two locks; the scores
by which a list longer than `listCap` is cut are a free choice.  `Ratings` reads
both rows, computes the scores in integers as `CalculateElo` does (the expected
score is a table by the difference; truncation and the bound at `MinScore` are
those of the code) and writes rows and history in one transaction, whose failed
statements keep their connection.  `Accounts` is the path of a user from a log-in
over `user.created` to the profile: the upsert of `UpdateNX` against the insert of
`user.created`.  Password hashes and token verification are free choices of their
outcome.

### BotClient

The bot's goroutines are `main` (log-in, connection, match, subscriptions, first
move), the reader and the writer of the connection, one per subscription of
game and bot, the viewer and the one that stops the bot at random.  `once` has the
three `sync.Once`: later callers wait for the first.  `publish` holds the read lock
of `PubSub` while it sends, so that `Unsubscribe` removes a subscription only
between messages and closes its channel after.  A send on a closed channel, and the
second read of a game that is gone in `Stop`, end the process ("panic").  Gateway
and game service are what the bot's session sees of them.  Go ends the
subscriptions of a map in any order, here it is one; three tries to send a move
are one; which move is played is left out.  A game that the bot resumes has one
approved ply.

### Followers

The five specifications share no variable and no message, so the interleavings of
two of them add no behaviour that either does not have alone.  `mover`, chosen at
the start, says which one moves; one run checks all.

## 3. Runs

Deadlock is not checked where the bounded system may stop: no game id, match or
request is left.

| Run | Instance and bounds | Checked |
|---|---|---|
| `game_failures` | 1 instance, 2 players, 1 game, 2 plies; moves, claims, resignations; Redis and Kafka fail, restarts | `TypeOK`, `EndHasOutcome`, `HandlerEndRecorded`, `ImplementsTopic` |
| `game_matches` | 3 players, 2 matches that share one of them or two, 2 game ids; games end by absence, Redis fails | `OneGamePerPlayer` |
| `game_takedown` | event handler, ticker and HTTP request on 1 game; calls succeed | `AnnouncedOnce`, `NoZombieGame`, `DroppedGameFreesPlayers` |
| `game_liveness` | 1 game, 2 plies, draw offers; calls succeed; fairness | `EndIsAnnounced`, `AbsenceEndsGame`, `ImplementsTopic` |
| `game_two_instances` | 2 instances, 1 match | violates `IdempotentCreation` |
| `match_engine` | 4 requests of 3 users, or of 4 (`FourInPeace`), 2 levels; Kafka fails, the service is stopped | `TypeOK`, `QueuedOnce`, `NobodyGoneIsQueued`, `AnsweredMatchIsOnItsWay`, `SweepPairsNeighbours` |
| `ws_presence` | 2 sessions, 1 own game, 1 watched game; Redis answers, no ticker | `TypeOK`, `LastOutIsAnnounced`, `NoOrphan`, `CountedIsPlayed` |
| `ws_refresh` | 2 sessions, which may both stop before they are registered, no game; Redis fails; the ticker and that of another gateway; fairness | `OwnSessionsSpared`, `OrphanExpires` |
| `bus` | a service with 2 subscriptions or the gateway with 3; 3 events, two of one domain or one of each; one session end, one crash; joins and commits fail, sends repeat; fairness | `TypeOK`, `OneSession`, `ConsumptionGoesOn`, `ImplementsDelivery`, `EverythingIsHandedOut` |
| `fanout` | 2 sessions on channels of one place, one that plays and one that views; 1 game of 3 events, its creation and 1 chat message; Redis fails, refused requests, the tickers, lost connections | `TypeOK`, `SubscriptionIsListed`, `AllDeadlocksKnown`, `EventsInOrder` |
| `fanout_stuck` | 1 session, 1 game of 2 events; fairness | violates `StoppedIsDisconnected` |
| `followers` | chat: 2 games, 2 messages, 1 restart or repetition; live list: 3 games, cap 2, 2 rewinds; ratings: 2 users, 2 games, 2 instances, 2 deliveries; accounts: 2 log-ins, 2 updates; bot: 3 plies, 1 incident | `FollowersTypeOK`, `ChatAnnouncedOnce`, `ChatFollowsGame`, `AtMostOneLateMessage`, `OneRefreshSettles`, `RowAgreesWithHistory`, `AcknowledgedUpdateKept`, `BoardInStep`, `NoSendAfterClose` |

### What they show

* `EndHasOutcome`: whichever goroutines end a game, and in whatever order, no
  `game.ended` carries `*`.  Rating updates rely on it.
* `ImplementsTopic`: what listeners see of the service is a behaviour of `GameTopic`.  A
  repeated or stale `game.playerMoved` is never approved again (`ApprovedInOrder`), and
  the ply that had passed the status check when the ticker announced the end is the only
  one approved after it (`AtMostOneLateMove`); with HTTP resignations this does not
  hold, since they may end a decoded copy.  `game_failures` shows it with calls that
  fail, `game_liveness` with calls that succeed, when the promise is stronger.
* `HandlerEndRecorded`: when an event handler has announced an end, Redis holds
  the game only with its expiry.  The ticker gives no such guarantee: it logs a
  Redis error and announces.
* `AnnouncedOnce`, `NoZombieGame`, `DroppedGameFreesPlayers`: while Redis and Kafka
  answer, each kind of goroutine announces at most once, no game that is over is
  left in memory without a goroutine taking it down, and a dropped game frees its
  players.  With failing calls the early returns of `event.go:79-82` and `99-102`
  leave such games behind; the hazards say so.
* `EndIsAnnounced`, `AbsenceEndsGame`: a game that is over is announced and
  dropped, and a player who stays away ends the game, whatever the other does.
* `QueuedOnce` to `SweepPairsNeighbours`: the queue holds a user once, over all levels
  and although his level may change between requests; only somebody who waits,
  or has just stopped, is queued; nobody meets himself; a match that was answered
  is published or its publication failed; the sweep, level by level with odd
  requests carried down, is exactly the pairing of neighbours in the whole queue.
  It also shows that the odd request meets the next level, however far down: the
  engine does not bound the difference in level.

* `LastOutIsAnnounced`, `NoOrphan`, `CountedIsPlayed`: in whatever order the sessions
  of a user resume, receive the game and close, the departure of the last one is reported, a
  closed session writes nothing back, and no session at rest is recorded in a live
  game it does not play.  The converse of the first is not so, in the code and in the model:
  the end of a game that is only watched clears the session's entry (`session.go:176`), and
  when another session closes, a departure is reported although the first still plays.
  Three limits of the code are outside: the ticker writes
  back a snapshot and can resurrect a closed session's entry, which then hides a
  departure; the script counts sessions in any game, so that an entry left over from
  an ended game hides the departure from the next one; a failed Redis call.
* `OwnSessionsSpared`: a tick picks entries by their age alone; none that a gateway picks
  belongs to one of its own sessions in use, whether opened during the tick or not refreshed
  by an earlier one, since the tick is over when a refresh fails.  The entries of another
  gateway's sessions are not safe: with both tickers running, a live session may lose its
  entry until the next refresh, and is not counted.  `OrphanExpires`: an entry that could
  not be deleted gives its place free, with two exceptions that the formula names: a tick
  without sessions deletes nothing, and a session that was registered after its end is
  refreshed for ever.
* `ImplementsDelivery`: reconnections, failed joins and commits, added topics and a
  crash lose no event, but for the one that was marked and not yet handed over when
  the process died.  `OneSession`: although `Cleanup` and `Subscribe` both start
  sessions, no two overlap.  `ConsumptionGoesOn`: calls of `Consume` end for good in two
  windows only, which `missedEnd` names: a `Consume` that fails before it has a session
  (`isRunnig` is reset and nobody calls again), and a session that ends while
  `addingTopic` is still set.  `EverythingIsHandedOut`: a service hears everything but for
  these two; the gateway has a third way to hear nothing more (`NobodyReads`), as it
  subscribes before it reads: an event that arrives meanwhile keeps the lock of the
  subscriptions (`subscriber.go:188`) and the call of `Consume`, and the next `Subscribe` waits
  for the one (`addSub`) or for the other (`reConsume`).
* `EventsInOrder`: between listener, handler and writer a client misses, repeats and
  overtakes nothing, also when its game is created twice.  `SubscriptionIsListed`: until
  `Stop` reads them, `playGameId` and the views name every game the session is subscribed
  to, with one exception: the handler that cannot reach Redis at a second `game.created`
  of a game clears `playGameId` (`session.go:143`) and stays subscribed.  It says nothing of the time
  after: what reader and handler subscribe to once `Stop` has read is left behind, until the
  game's subscribers are dropped after its end.
* `AllDeadlocksKnown`: there are three kinds of session that make somebody wait for ever and
  no fourth.  One whose writer has left and whose `msgCh` is full never ends (`WriterGone`).
  One whose handler waits for a lock while its `eventCh` is full (`HandlerWaits`): the listener,
  or the broadcast routine, waits for room there with a lock in its hand.  The handler may
  unsubscribe from the ended game, or subscribe at a second `game.created`, for
  which it takes `gcmu` and waits for the lock that the listener holds; or somebody else who
  waits for that lock holds `gcmu`; and the broadcast routine keeps the listener out of `mmu`.
  The whole gateway stands still.  The third came to light in the attempt to prove that
  there are two (`HandlerGone`): a stopped session was still subscribed to one game by its reader, which
  is about to subscribe it to another; its handler has left, so its `eventCh` fills up; the
  listener waits for room there and holds the first game's lock; a second session waits for
  that lock with `gcmu` in its hand; the reader waits for `gcmu`, and `Stop` for the reader.
  It needs two games, and a session that leaves while another is connected; a search of
  that is too long for a run.  The theorem of section 4 covers any number of games.
* `ChatFollowsGame`: while a game is in progress its chat is open, has its key in Redis and
  was announced; when the game has ended, the chat is not open, the key is gone and the end
  was announced.  Each of the six statements names the only faults after which it is
  otherwise.  So a chat stays open only when the end was taken before the creation, a
  game in progress has no chat only after a restart or an end that came again, and no
  error of Redis or of the bus does either: those leave a key behind or an announcement out.
* `OneRefreshSettles`: one refresh of the list begun after the last change shows the games
  in progress.  A game whose end is taken before its creation is listed for ever, and
  excluded.
* `ChatAnnouncedOnce`, `AtMostOneLateMessage`: the key in Redis keeps a restarted
  service from announcing a chat twice; a message that overtakes the end of its chat is
  the last.
* `RowAgreesWithHistory`: whatever fails and whoever interleaves, a row is what the
  history says; a user whose row was written from an old reading is excluded, as two
  instances may lose an update.  An event delivered twice is counted twice, in both.
* `AcknowledgedUpdateKept`: no late or repeated `user.created` takes back what a user
  has saved.
* `BoardInStep`: the bot never plays twice or out of turn, whatever is repeated or
  missed while it subscribes.  `NoSendAfterClose`: no order of the goroutines that end
  subscriptions makes the reader send on a closed channel.

Two runs refute sentences of the repository; `PROJECT.json` quotes them.
`game_two_instances`: creation is not idempotent across instances, as the game id
is drawn anew.  `fanout_stuck`: a session that is stopped need not come to its end.

### Why the bounds are enough

The handlers look at one game, its two players and one event at a time.  Two plies
reach both colours' turns and every order of a ply with an end.  Interference
between games goes through the players they share: two matches of three players
share one of them or both.  Three goroutines on one game is all an instance has,
up to the number of HTTP requests.  In the engine three users give an odd queue
at every level, a fourth request lets one user ask again, and two levels let the
odd request be carried.  Two pairs in one tick need a fourth user: once he has
asked, `FourInPeace` follows only what leads to such a tick, and to a publication of
two matches of which one fails.

Of a user's sessions two are needed for one to be the last; a third adds only
further openings; in `ws_refresh` the cap of two bites when both have left an entry.  One own game
and one watched game are every combination the handlers tell apart for the
properties checked; a second own game brings the limit named above.

Channels of one place are full after one message, which is where they matter.  Two
sessions of one game are a slow one and the one it holds up: one plays it (`Player`), the
other views it.  `Apart` keeps apart in `fanout` what needs only one session or none that
plays: nobody leaves, and no game that is over is viewed or resumed, while two are connected
(`Crowded`, `MayLeave`); chat, refused requests and the tickers come while nobody plays (`Quiet`,
`MayPlay`); what waits for a game is forgotten before its first event (`Expire`).  Only a
session that is alone leaves, so it is enough that one does (`Leaver`): alone, the player may
do all that the viewer may.  The orders of
two sessions' events are all there.  Three events let one be lost in the middle.  The theorems
of section 4 are without `Apart`.  In the bus a
partition has two events and another one, or each has one, of which the last does not decode.
The chat service stands for the services, with two subscriptions, the least for a
topic to be added; the gateway has its three.
In `followers` each part has the two actors (games, instances, users) that can interfere;
three plies are the fewest after which an old ply of the opponent can come again while
his next is due; the bot's failures and unasked-for messages share one budget
(`MaxIncidents`), and it stops by itself before its second ply (`StopsEarly`).  A restart may
forget both chats; other faults befall the chat of one game only (`OneFaulty`).

### Fairness

Four specifications assume any.

`FairSpec` of `GameService`: Go runs every goroutine that has work, so the steps
inside a handler are weakly fair; the ticker fires for ever.
`TickScan` with every absent player due is strongly fair: time passes, so a player
who stays away is over the threshold at some scan.  Player events, departures, match
arrivals, restarts and expiry are never required.  The run excludes rejoining
(`MayRejoin`), since a player who comes back in time is not absent.

`FairSpec` of `WsPresence`: clean-ups in progress go on and the ticker fires
(weak fairness); an entry nobody writes grows old (strong fairness of `GrowsOld`), and
Redis is not down at every tick: a refresh, a scan and a deletion succeed again and again
(strong fairness of `TickWrite`, `TickFind` and `TickDelete` succeeding).  Sessions opening and
closing, and the other gateway, are never required.

`FairSpec` of `EventBus`: the process does something while it can (weak fairness of one
disjunction).  That is enough: without new events every run of its steps comes to an
end, but for a failing join, after which nobody calls `Consume` again.  Publications,
crashes, the end of a session and commits are never required.

`FairSpec` of `WsFanout`: locks and channels serve who waits in turn, so a goroutine that
can go on again and again does (strong fairness of each), and a write returns.  New
events, requests, tickers and lost connections are never required.

## 4. Proofs

`tlapm` checks every step from the definitions and from the assumptions the modules
name (`ServiceAssumption`, `EngineAssumption`, `BusAssumption`, `PresenceAssumption`, ...):
the markers for "none" are not identities, bounds are numbers of the right range, and
the wiring is that of the code.  Players, instances, matches, games, users, topics and
bounds are otherwise arbitrary and the failure switches are free, unless a theorem
names a hypothesis.  `PROJECT.json` lists the theorems under "theorems".

| Module | Theorem | Hypothesis beyond the assumptions |
|---|---|---|
| `GameServiceProofs` | `TypeCorrect`, `OneGamePerPlayerHolds`, `EndHasOutcomeHolds` | |
| `GameLifecycleProofs` | `ServiceImplementsTopic`, `ApprovedInOrderHolds`, `HandlerEndRecordedHolds` | |
| | `AnnouncedOnceHolds` | publications do not fail |
| | `AtMostOneLateMoveHolds` | no HTTP resignations, which may end a decoded copy |
| | `NoZombieGameHolds` | Redis and publications do not fail |
| | `DroppedGameFreesPlayersHolds` | Redis does not fail, no restart |
| `MatchEngineProofs` | `EngineTypeCorrect`, `SweepPairsNeighboursHolds`, `QueuedOnceHolds`, `NobodyGoneIsQueuedHolds`, `AnsweredMatchIsOnItsWayHolds` | |
| `EventBusProofs` | `BusTypeCorrect`, `OneSessionHolds`, `ConsumptionGoesOnHolds`, `BusImplementsDelivery` | |
| `WsPresenceProofs` | `PresenceTypeCorrect`, `OwnSessionsSparedHolds` | |
| | `NoOrphanHolds`, `CountedIsPlayedHolds` | Redis does not fail, the minute ticker is off |
| | `LastOutIsAnnouncedHolds` | also: the user has one game (`OneGame`) |
| `WsFanoutProofs` | `FanoutTypeCorrect`, `SubscriptionIsListedHolds`, `EventsInOrderHolds`, `AllDeadlocksKnownHolds` | |
| `FollowersProofs` | `ChatTypeCorrect`, `ChatAnnouncedOnceHolds`, `AtMostOneLateMessageHolds`, `ChatFollowsGameHolds` | |
| | `AcknowledgedUpdateKeptHolds`, `NoSendAfterCloseHolds`, `BoardInStepHolds`, `OneRefreshSettlesHolds`, `FollowersAreEach` | |
| | `RowAgreesWithHistoryHolds`, `HistoryIsFairHolds`, `EloMakesNoPoints`, `FollowersTypeCorrect` | `DOMAIN Expected = Int` |

The hypotheses about failures are those of the run that checks the property, or
weaker: `AnnouncedOnceHolds` allows Redis failures and restarts, `NoZombieGameHolds`
restarts, and any number of sessions and capacities may be chosen at the gateway.  What the code
leaves behind without them is in section 3.
`DOMAIN Expected = Int` says that the expected score is defined for every difference,
as the code's formula is; the table that TLC has covers the differences of its run.

### The game service

* `TypeCorrect`: `TypeOK` alone is not inductive, as `PublishCreated` or
  `TickAnnounce` use what a goroutine remembers.  `ThreadsOK` adds that a goroutine
  beyond its first step holds a game, and which of its fields are set where.
* `OneGamePerPlayerHolds`: `OneGameInv` adds that while the match goroutine is
  between its check and `ManageGame`, its game shares no player with a managed one and
  is not managed itself.  Only `ManageGame` adds to `games`, nothing changes a drawn
  game's players, and a drawn id is not drawn again (`GamesKept`).
* `EndHasOutcomeHolds`: from the positions of the goroutines.  A handler at `encode` or
  later has a game with a result, the ticker's remembered outcome is a result, an HTTP
  request beyond `resign` has one in its object or its copy; no step takes a result
  away, since the library's operations only replace one by another.
* All that follows rests on `OwnerInv`: only the instance that drew a game's id ever
  holds the game, and its match goroutine lets go of it before another goroutine
  works on it.  `CopiesInv` says that every copy of a game, a goroutine's, a decoded
  one or that of Redis, has the players of the object.  From the two come the `Quiet`
  lemmas: what a game sees while its own handler does not move.  Each later proof is
  then the steps of the handler, one by one, and one quiet step.
* `ApprovedInOrderHolds`: `MovesInv` says that the ply a handler has still to approve is
  the last one played and greater than all approved.
* `HandlerEndRecordedHolds`: `RecordedInv` says that a handler which is still to write a
  running game saw no result, so the game's end is not announced, and that one which is
  to announce the end has written it.
* `AnnouncedOnceHolds`: after its announcement a handler is at `remove`, or, for a
  resignation, has removed the game before (`GameOnceInv`); the ticker that has announced
  is at `remove` with the game in its list (`TickOnceInv`).  Neither finds the game again.
* `AtMostOneLateMoveHolds`: who announces an end has deactivated the game, so the move
  in flight then was the last to pass the status check (`LateInv`, `TickOver`).
* `ServiceImplementsTopic`: `TopicInv` joins the invariants above, each under the
  condition of the promise that rests on it, and adds `GaplessInv`: when every call
  succeeds, the plies approved and the one in the handler's hand are consecutive and
  reach the position of the game.  `TopicStep` maps a step: five places publish
  (`WhoPublishes`), `ApprovedFits` shows that a ply fits what was approved before, and all
  other steps are stutters (`Silent`).  `AnnouncedOnceHolds` and `AtMostOneLateMoveHolds`
  follow from the same `TopicInv`.
* `NoZombieGameHolds`: a game comes into memory running (`ZombieInv`), and every step that
  ends a managed game leaves its goroutine on the way to drop it (`GameStepEnding`).
* `DroppedGameFreesPlayersHolds`: `DropInv` follows the two keys from the moment the game
  is cached, when nobody else works on it, to their deletion; `KeysInv` adds that a key
  points to a game of that player.

### The match engine

What a tick finds is a statement about a recursive function, `Sweep`, for every queue.
`PairsOfConcat` is its step: what is paired of `p` is paired of `p \o q`, and the one left
over of `p` goes in front of `q`.  `SweepIsOfLine` carries it down the levels by
`DownTo`, and `PairsOfLine` says that who is not paired is left over.  The
invariant `QueueInv` says that a queued request stands in its own level, that two queued
requests have different users, and that none of them has gone; `GotItOut` that a request
with a response is not queued and will not be.  `WayInv` says that a response is a match
which the engine holds, the publisher holds, or that was published or lost.

### The event bus

`BusInv` says that `mu` is held over both steps of adding a topic and exactly while
`addingTopic` is set, that only calls somebody waits for are cancelled, and that after
`Subscribe` there is a call of `Consume` or one of the two excuses of `missedEnd`.
`OneSession` and `ConsumptionGoesOn` are parts of it.

`BusImplementsDelivery` is the refinement, the identity on `log`, `seen` and `mayMiss`.
`DeliveryInv` compares, for each subscription and partition, what was handed out with
what is marked and what is committed: while a partition is claimed, the subscription is
done with all that is marked except the message in hand (`ClaimedInOrder`), and a commit
is ahead of it by one wanted event at most, which is missed only after a crash
(`AheadByOne`).  It needs `ClaimsOK`, that a claim belongs to a running session, and
with it `OneSession`: two sessions could claim one partition.  The proof uses that no two
subscriptions of a service have the same domain and none has the wildcard, which
`BusAssumption` states: so it is in every service (`wsgateway/ws/events.go:49-52`,
`rating.go:48`, `user.go:52`).

### The gateway's sessions

* `PresenceTypes` adds to `TypeOK` what the goroutines hold at each position and that only
  events of the user's own games create one.
* `OwnSessionsSparedHolds`, with Redis failing and both tickers running (`SpareInv`): a session
  in use is registered or is being opened, and then its entry is young; when the tick has
  written its snapshot without an error, no old entry belongs to a session in use, and it
  stays so until the tick is over, since no entry grows old meanwhile.
* `CountInv` says three things of every session.  `Rests`: one that is new or has been cleaned
  up does nothing any more.  `OneWayIn`: a session resumes a game or waits for a
  match, never both, so what its reader and its handler write about a game does not
  cross.  `SeatIsPlayed`: where a running game is written into the hash, the session
  plays it or is about to.  `NoOrphan` and `CountedIsPlayed` follow.  A failed call of Redis
  leaves an entry behind, and the ticker writes back entries of its snapshot that have been
  deleted since: hence the two hypotheses.
* `SeatedPlayed`: a game the user was recorded in and that is not over is played by one of
  his sessions until `game.playerLeft`.  The script counts the sessions in any game, so an
  entry that is left from an ended game hides the departure from the next one; with one
  game (`OneGame`) a counted entry is an entry of that game, and its session plays it.

### The fan-out

An event is in one of five places between the listener and the client: in the
listener's hand with the session still to be served, in `eventCh`, in the handler's hand, in
`msgCh`, in the writer's hand.  `FlowInv` says, for every session and game:

* `InLine`: the numbers of the game's events rise from place to place and within each channel,
  and none is beyond what the listener has taken (`Told`).
* `NoGap`: what the client has and what is under way to him are consecutive.
* `UpToDate`: a session has nothing of the game yet; or it has the latest event and is
  subscribed for the next; or there will be no next.  The last case covers a `game.ended`
  that is still to be handed out.

A session whose writer has left after a failed write is outside the last two: its channel
is drained by nobody, and its client gets nothing more.  One that `Stop` has begun to
unsubscribe is outside all (`InUse`): its reader or a second `game.created` may subscribe it
again, and its client may then miss events.  `EventsInOrder` follows, since
only the writer changes what a client has.  TLC checked `FlowInv` before the proof was
begun, for two sessions and one game completely with `Apart` on.

`SubscriptionIsListedHolds` needs to know whose creation a `game.created` is (`MatchInv`): a
session is sent only the one it has asked for, and while it has asked for a match it plays no
other game and resumes none.  So the handler never overwrites the `playGameId` of another game,
and `ListInv` is inductive: a subscription to a game that goes on is in the views or
is `playGameId` (`AllListed`), and so is the game of a request under way (`RequestListed`).

`AllDeadlocksKnownHolds`: `WaitInv` says who holds what (`Holds`: `gcmu`, a reader or handler
that waits for the lock of a game; `ListenerServes`, `TickerServes`: such a lock, who serves its
subscribers) and where the goroutines of an ended session are (`Exits`).  Suppose that nobody can go on and no
deadlock of a known kind is there.  `ChainsEnd` follows the waiting: the writer of a session in use
empties its `msgCh`, so nobody waits for room there and the ticker holds no lock; who waits for
the lock of a game or for `mmu` waits for the listener or the broadcast routine; these wait for
a session with a full `eventCh`, whose handler has either exited or waits for a lock, and both
are known kinds.  Hence no lock is held, everybody is at rest, and nothing was left to do.  The guards
of the goroutines are written out in `WsFanout` (`ListenerGoesOn`, `HandlerGoesOn`, ...), as the
prover does not reach `ENABLED`; that they are the actions' own, `MCWsFanout.GuardsAreExact`
states, which TLC
checked once on the instance of `fanout` with two events and one session that leaves, 1 058 466 states.

### Chat, accounts, ratings, live list

* `KeyGuards`: a chat without a key has been announced no more often than deleted,
  also while `PublishCreated` is still to come.  `LateOnce`: a chat in memory has
  not been ended since it was opened, so only the message in hand can come after the end.
  `FollowsAt` says what `ChatFollowsGame` says of every game, also of the one in the hand of
  the games' goroutine: for each of its positions, whether the chat and its key are there.
* `AuthOK` and `ProfileOK`: a request that is about to create or publish has an address,
  identities are drawn once, no two rows have one address, and a field that was
  acknowledged has the user's value.  `AcknowledgedUpdateKept` is a part of the second.
* `RatingsInv`: a row agrees with its history (`RowsAgree`), and a row in hand is the
  current one (`RowsInHand`), unless its user was written from an old reading.  The
  agreement is a sum and three counts over the history.  That a sum over a set grows by
  the change of the entry that is appended is proved by induction over the subsets of a
  finite set (`OverSubsets`, from the library's well-founded orderings): `SumsExist`,
  `SumsAnyOrder`, `TotalOfOneMore`.  `EloIs` bounds the scores from below by `MinScore`.
* `EloMoves`: `CalculateElo` takes a score no further than its K-factor, up after a win and
  down after a loss.  `HistoryIsFairHolds` carries it to every entry of the history: the
  rows in hand, old ones too, are never below `MinScore` (`FairInv`), below which the
  cut at the least score would pay a loser.  `EloMakesNoPoints` adds both sides up.
* `LiveInv`: the map holds the games whose last event is their creation; the copy in the
  ticker's hand is the map but for the games touched since; every settled game is shown
  once or not at all.  `DeleteFuncIs` and `SetToSeqLists` say what removing from the
  sorted list and building it do.

### The bot

`BotSafe` says where each goroutine can be, that a subscription in a goroutine's hand is
off the list until it is closed, and that while `main` still subscribes only what it has
ended itself is closed.  Then the reader's list, taken from the open subscriptions under the
lock, stays open until it is through: `NoSendAfterClose`.

`BoardInv` adds the phases of a game: while the bot looks for a game (`Seeking`) nothing
of one is sent, and the answer it will get fits the service's board (`AnswerFits`); while
it subscribes (`Sitting`) its board lacks at most the opponent's last ply (`Fit`); once
it plays (`Playing`) the two differ by one ply at most (`InStep`), and `out` holds one ply
at most, the next one.  Every message on its way says what is true and stays true (`Known`,
`Told`): a ply that is announced is approved.  `BoardFrame` and `ServerFrame` reduce a
step to what it changes of the board, the service and the messages.  TLC checked this
invariant on two instances of the bot alone before the proof was begun.

### All parts together

`FollowersAreEach`: a behaviour of `Followers` is one of each part alone, so every theorem
about a part holds for the specification the run checks; `FollowersTypeCorrect` is the
types of all.

### How the limits of the prover are met

The library's induction theorems take an operator as a parameter, which no installed prover
can instantiate.  Where a definition computes over data (the sweep of the engine, sums
over a history), the proof goes by the least counterexample: `NatMin` and `WFMin`, whose
parameter is a set.  `UpTo`, `DownTo` and `StepByStep` of `InductionLemmas` are built
on them.  Recursion in these modules is by recursive functions, never `RECURSIVE`.

### Model-checked only

* Liveness under fairness: `EndIsAnnounced`, `AbsenceEndsGame`, `OrphanExpires`,
  `EverythingIsHandedOut`.  The provers do not reach it.
* `GuardsAreExact`, which needs `ENABLED`: the agreement of the guards that
  `AllDeadlocksKnown` is about with the actions.
* The two refutations: the runs show them.

Every other invariant and action property of a passing run is stated by a theorem.

## 5. Not modelled, and the plan

Left out for good: SQL text, tokens and password hashes, HTTP and gRPC encoding,
logging, the frontend and the command line; `handleUserLoggedIn`, whose event nobody
publishes; `Unsubscribe`, `Close` and `Stop` of the bus, which no command calls; several
members of one consumer group; the direct chat, to which nothing is published;
heartbeats as time (a session is overdue at any moment).

Three hazards have no property, because the code promises nothing there: games in
progress are lost by a restart (`service.go:55`), the bot's second read of its game may
panic (`bot.go:87`), and its `stop` may wait for ever for a goroutine that waits for it
(`ws.go:77`). A gateway that stops is not modelled either: its sessions' entries expire
at another gateway's tick (`manage.go:126`), and nobody announces their departure.

Next: a gateway with a second own game, whose entry the first one's end may clear, and
a run of the fan-out with two games.
