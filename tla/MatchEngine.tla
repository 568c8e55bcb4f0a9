---------------------------- MODULE MatchEngine ----------------------------
(***************************************************************************)
(* The match service: one goroutine per GET /find request                  *)
(* (NewMatchRequest), the engine's ticker goroutine that pairs the queue   *)
(* (findMatches), and the service's goroutine that publishes the pairs,    *)
(* the two joined by the unbuffered channel matchCh.  The game service is  *)
(* reduced to what it answers and to what it does with a match.            *)
(***************************************************************************)
EXTENDS Naturals, Sequences

CONSTANTS
  User, NoUser,
  Request,          \* the HTTP requests of a behaviour
  MaxLevel,         \* levels are 1 (pawn) to MaxLevel (king)
  PublishMayFail, MayStop

ASSUME EngineAssumption ==
  /\ NoUser \notin User
  /\ MaxLevel \in Nat \ {0}
  /\ {PublishMayFail, MayStop} \subseteq BOOLEAN

VARIABLES
  user, level,   \* of each request: who asks, at what level
  pc,            \* where each request's goroutine is
  answer,        \* what the client was told
  response,      \* matchRequest.ch: the match sent to it ({} when none)
  queue,         \* engine.queue
  engine,        \* the engine's goroutine and the matches it holds
  service,       \* the service's goroutine and the matches it holds
  published,     \* match.created events published
  lost,          \* matches whose publication failed
  consumed,      \* matches the game service has taken
  live           \* matches whose game is live

requests == <<user, level, pc, answer>>
world    == <<published, lost, consumed, live>>
vars     == <<requests, response, queue, engine, service, world>>

Level   == 1..MaxLevel
\* A match is the pair of requests it answers; no request is matched twice.
Pairing == {{r, s} : r, s \in Request}

TypeOK ==
  /\ user \in [Request -> User \cup {NoUser}]
  /\ level \in [Request -> Level]
  /\ pc \in [Request -> {"new", "checked", "waiting", "cancel", "done"}]
  /\ answer \in [Request -> {"none", "refused", "timeout", "match"}]
  /\ response \in [Request -> Pairing \cup {{}}]
  /\ queue \in [Level -> Seq(Request)]
  /\ engine \in [pc: {"idle", "send", "stopped"}, held: SUBSET Pairing]
  /\ service \in [pc: {"select", "publish", "stopping", "stopped"},
                  held: SUBSET Pairing]
  /\ {published, lost, consumed, live} \subseteq SUBSET Pairing

Init ==
  /\ user = [r \in Request |-> NoUser]
  /\ level = [r \in Request |-> 1]
  /\ pc = [r \in Request |-> "new"]
  /\ answer = [r \in Request |-> "none"]
  /\ response = [r \in Request |-> {}]
  /\ queue = [l \in Level |-> <<>>]
  /\ engine = [pc |-> "idle", held |-> {}]
  /\ service = [pc |-> "select", held |-> {}]
  /\ published = {} /\ lost = {} /\ consumed = {} /\ live = {}

-----------------------------------------------------------------------------
Elements(s) == {s[j] : j \in DOMAIN s}
Queued      == UNION {Elements(queue[l]) : l \in Level}
UsersOf(m)  == {user[r] : r \in m}

\* s without its first request of user u.
WithoutFirst(s, u) ==
  LET mine == {j \in DOMAIN s : user[s[j]] = u} IN
  IF mine = {} THEN s
  ELSE LET k == CHOOSE j \in mine : \A h \in mine : j <= h IN
       SubSeq(s, 1, k - 1) \o SubSeq(s, k + 1, Len(s))

-----------------------------------------------------------------------------
(* A request: NewMatchRequest *)

\* The game service answers that the user has no live game; a request of a
\* playing user, or a failed call, is refused before it touches the engine.
CheckLiveGame(r, u) ==
  /\ pc[r] = "new"
  /\ \A m \in live : u \notin UsersOf(m)
  /\ user' = [user EXCEPT ![r] = u]
  /\ pc' = [pc EXCEPT ![r] = "checked"]
  /\ UNCHANGED <<level, answer, response, queue, engine, service, world>>

\* (mutant of AlreadyQueued) no level is searched.
NeverQueued(r) == FALSE

AlreadyQueued(r) == \E q \in Queued : user[q] = user[r]

\* (mutant of AddToQueue) levels are taken to start from zero.
AddToQueueFromZero(r, l) ==
  /\ pc[r] = "checked" /\ ~AlreadyQueued(r)
  /\ pc' = [pc EXCEPT ![r] = "waiting"]
  /\ level' = [level EXCEPT ![r] = l - 1]
  /\ queue' = [queue EXCEPT ![l] = Append(@, r)]
  /\ UNCHANGED <<user, answer, response, engine, service, world>>

\* addToQueue at the level of the user's score (the base level when the
\* rating service does not answer).
AddToQueue(r, l) ==
  /\ pc[r] = "checked"
  /\ IF AlreadyQueued(r)
       THEN /\ pc' = [pc EXCEPT ![r] = "done"]
            /\ answer' = [answer EXCEPT ![r] = "refused"]
            /\ UNCHANGED <<level, queue>>
       ELSE /\ pc' = [pc EXCEPT ![r] = "waiting"]
            /\ level' = [level EXCEPT ![r] = l]
            /\ queue' = [queue EXCEPT ![l] = Append(@, r)]
            /\ UNCHANGED answer
  /\ UNCHANGED <<user, response, engine, service, world>>

\* The three cases of the select.  The timer or the client's context may be
\* chosen although the response is there.
ReceiveMatch(r) ==
  /\ pc[r] = "waiting" /\ response[r] # {}
  /\ pc' = [pc EXCEPT ![r] = "done"]
  /\ answer' = [answer EXCEPT ![r] = "match"]
  /\ UNCHANGED <<user, level, response, queue, engine, service, world>>

GiveUp(r) ==
  /\ pc[r] = "waiting"
  /\ pc' = [pc EXCEPT ![r] = "cancel"]
  /\ UNCHANGED <<user, level, answer, response, queue, engine, service, world>>

\* (mutant of CancelRequest) the request is left in the queue.
ForgetRequest(r) ==
  /\ pc[r] = "cancel"
  /\ pc' = [pc EXCEPT ![r] = "done"]
  /\ answer' = [answer EXCEPT ![r] = "timeout"]
  /\ UNCHANGED <<user, level, response, queue, engine, service, world>>

\* cancelRequest takes out the first request of the same user at the level,
\* which need not be this one.
CancelRequest(r) ==
  /\ pc[r] = "cancel"
  /\ queue' = [queue EXCEPT ![level[r]] = WithoutFirst(@, user[r])]
  /\ pc' = [pc EXCEPT ![r] = "done"]
  /\ answer' = [answer EXCEPT ![r] = "timeout"]
  /\ UNCHANGED <<user, level, response, engine, service, world>>

-----------------------------------------------------------------------------
(* The engine *)

Pairs(s) == {{s[2 * k - 1], s[2 * k]} : k \in 1..(Len(s) \div 2)}
Rest(s)  == IF Len(s) % 2 = 1 THEN <<s[Len(s)]>> ELSE <<>>

\* (mutant of Sweep) the request left over at a level is not carried down.
SweepLevelByLevel ==
  [rest  |-> <<>>, pairs |-> UNION {Pairs(queue[l]) : l \in Level}]

\* findMatches: from king to pawn, the request left over at a level goes in
\* front of the next level's queue.
SweepFrom[l \in 1..MaxLevel + 1] ==
  IF l = MaxLevel + 1 THEN [rest |-> <<>>, pairs |-> {}]
  ELSE LET s == SweepFrom[l + 1].rest \o queue[l] IN
       [rest |-> Rest(s), pairs |-> SweepFrom[l + 1].pairs \cup Pairs(s)]
Sweep == SweepFrom[1]

\* One tick: both requests of every pair get the match, the one request that
\* may be left over goes back to its own level.
FindMatches ==
  /\ engine.pc = "idle"
  /\ LET found == Sweep.pairs  over == Elements(Sweep.rest) IN
     /\ response' = [r \in Request |->
          IF \E m \in found : r \in m THEN CHOOSE m \in found : r \in m ELSE response[r]]
     /\ queue' = [l \in Level |->
          IF \E r \in over : level[r] = l THEN Sweep.rest ELSE <<>>]
     /\ engine' = [pc |-> "send", held |-> found]
  /\ UNCHANGED <<requests, service, world>>

\* (mutant of HandOver) the send does not block: a batch found while the
\* service is busy is dropped.
HandOverOrDrop ==
  /\ engine.pc = "send"
  /\ engine' = [pc |-> "idle", held |-> {}]
  /\ service' = IF service.pc = "select" /\ engine.held # {}
                  THEN [pc |-> "publish", held |-> engine.held] ELSE service
  /\ UNCHANGED <<requests, response, queue, world>>

\* matchCh is unbuffered: the engine waits until the service is back at its
\* select.
HandOver ==
  /\ engine.pc = "send" /\ service.pc = "select"
  /\ engine' = [pc |-> "idle", held |-> {}]
  /\ service' = [pc |-> IF engine.held = {} THEN "select" ELSE "publish",
                 held |-> engine.held]
  /\ UNCHANGED <<requests, response, queue, world>>

\* (mutant of PublishMatches) matches whose publication fails are forgotten,
\* and one failure stops the batch.
PublishFirst ==
  /\ service.pc = "publish"
  /\ \E m \in service.held : published' = published \cup {m}
  /\ service' = [pc |-> "select", held |-> {}]
  /\ UNCHANGED <<requests, response, queue, engine, lost, consumed, live>>

\* Publish goes on after a failed event; its error is only logged.
PublishMatches ==
  /\ service.pc = "publish"
  /\ \E sent \in SUBSET service.held :
       /\ PublishMayFail \/ sent = service.held
       /\ published' = published \cup sent
       /\ lost' = lost \cup (service.held \ sent)
  /\ service' = [pc |-> "select", held |-> {}]
  /\ UNCHANGED <<requests, response, queue, engine, consumed, live>>

\* Stop: the service's goroutine stops the engine and waits for it; an engine
\* that is sending has nobody left to send to.
Stop ==
  /\ MayStop /\ service.pc = "select"
  /\ service' = [service EXCEPT !.pc = "stopping"]
  /\ UNCHANGED <<requests, response, queue, engine, world>>

EngineStops ==
  /\ service.pc = "stopping" /\ engine.pc = "idle"
  /\ engine' = [engine EXCEPT !.pc = "stopped"]
  /\ service' = [service EXCEPT !.pc = "stopped"]
  /\ UNCHANGED <<requests, response, queue, world>>

-----------------------------------------------------------------------------
(* The game service, as far as matches see it *)

GameServiceTakes(m) ==
  /\ m \in published \ consumed
  /\ consumed' = consumed \cup {m}
  /\ live' = IF \A o \in live : UsersOf(o) \cap UsersOf(m) = {}
               THEN live \cup {m} ELSE live
  /\ UNCHANGED <<requests, response, queue, engine, service, published, lost>>

GameEnds(m) ==
  /\ m \in live
  /\ live' = live \ {m}
  /\ UNCHANGED <<requests, response, queue, engine, service, published, lost, consumed>>

-----------------------------------------------------------------------------
Next ==
  \/ \E r \in Request :
       \/ \E u \in User : CheckLiveGame(r, u)
       \/ \E l \in Level : AddToQueue(r, l)
       \/ ReceiveMatch(r) \/ GiveUp(r) \/ CancelRequest(r)
  \/ FindMatches \/ HandOver \/ PublishMatches \/ Stop \/ EngineStops
  \/ \E m \in published : GameServiceTakes(m) \/ GameEnds(m)

Spec == Init /\ [][Next]_vars

-----------------------------------------------------------------------------
(* Properties *)

\* A user waits in the queue at most once, over all levels and although the
\* level of a user may change between two requests: nobody is matched with himself.
QueuedOnce ==
  /\ \A l \in Level : \A j, k \in DOMAIN queue[l] :
       user[queue[l][j]] = user[queue[l][k]] => j = k
  /\ \A l, k \in Level : \A r \in Elements(queue[l]), s \in Elements(queue[k]) :
       user[r] = user[s] => l = k

\* The queue holds no request whose client has been answered: what the engine
\* pairs is somebody who still waits, or has just stopped waiting.
NobodyGoneIsQueued == \A r \in Queued : pc[r] \in {"waiting", "cancel"}

\* A client that was told of a match is in a match that was, or is about to be,
\* published, or whose publication failed: nothing is dropped on the way.
AnsweredMatchIsOnItsWay ==
  \A r \in Request : answer[r] = "match" =>
    response[r] \in engine.held \cup service.held \cup published \cup lost

\* findMatches pairs neighbours: of the whole queue read from king to pawn, the
\* first with the second, the third with the fourth, and so on; one at most is
\* left over.
LineFrom[l \in 0..MaxLevel] ==
  IF l = 0 THEN <<>> ELSE queue[l] \o LineFrom[l - 1]
Line == LineFrom[MaxLevel]
SweepPairsNeighbours ==
  /\ Sweep.pairs = Pairs(Line)
  /\ Elements(Sweep.rest) = Queued \ UNION Sweep.pairs

=============================================================================
