--------------------------- MODULE WsFanoutProofs ---------------------------
(***************************************************************************)
(* Theorems about the fan-out of events to the sessions of a gateway, for  *)
(* any sessions and games, any capacities and any number of events.        *)
(***************************************************************************)
EXTENDS WsFanout, FiniteSetTheorems, TLAPS

-----------------------------------------------------------------------------
(* Types *)

\* An event on its way from a topic to the sessions.
Heard == [kind: {"game", "chat", "created"}, game: Game, n: 0..End]
IsEnd(e, g) == e.kind = "game" /\ e.game = g /\ e.n = End

TopicsOK == feed \in [Game -> 0..End] /\ said \in [Game -> 0..MaxSaid] /\ born \subseteq Game
MatchesOK ==
  /\ {play, match} \subseteq [Session -> Game \cup {NoGame}]
  /\ matchSub \in [Session -> {"none", "waiting", "broadcasted"}]
  /\ kept \subseteq Game /\ casting \cup failed \subseteq Session
  /\ \A s \in casting : match[s] # NoGame
ListenerOK ==
  /\ listener \in [pc: {"idle", "lookup", "match", "send", "keep"}, event: Messages,
                   holds: Game \cup {NoGame}, left: SUBSET Session]
  /\ (listener.pc = "send") = (listener.left # {})
  /\ listener.pc # "idle" => listener.event \in Heard
  /\ listener.pc # "idle" /\ listener.event.kind = "game" =>
       listener.event.n = feed[listener.event.game] /\ listener.event.n > 0
  /\ listener.pc = "lookup" => listener.event.kind # "created"
  /\ listener.pc \in {"match", "keep"} => listener.event.kind = "created"
LocksOK ==
  /\ known \subseteq Game /\ gameSubs \in [Game -> SUBSET Session]
  /\ gcmu \in Session \cup {Nobody}
  /\ \A g \in Game : g \notin known => gameSubs[g] = {}
EndedOK == ended \subseteq Game /\ \A g \in ended : feed[g] = End
ViewsOK == /\ views \in [Session -> SUBSET Game]
           /\ \A s \in Session : IsFiniteSet(views[s]) /\ Cardinality(views[s]) <= ViewCap
SessionOK ==
  /\ stage \in [Session -> {"open", "stopping", "finding", "leaving", "closed", "gone"}]
  /\ leaving \in [Session -> SUBSET Game]
  /\ ViewsOK
ReaderOK ==
  /\ reader \in [Session -> [pc: {"idle", "ask", "join", "match", "subscribe", "add", "reply", "exit"},
                             event: Messages]]
  /\ \A s \in Session :
       /\ reader[s].pc \in {"ask", "join", "match", "subscribe", "add"} => reader[s].event.game \in Game
       /\ reader[s].event.kind # "game"
\* The handler has the creation of a game in hand, or its end.
Starts == {"join", "subscribe", "add"}
Ends   == {"lookup", "lock"}
HandlerOK ==
  /\ handler \in [Session -> [pc: {"idle", "join", "subscribe", "add", "lookup", "lock", "send", "exit"},
                              event: Messages]]
  /\ \A s \in Session :
       /\ handler[s].pc \in Starts => handler[s].event \in Heard /\ handler[s].event.kind = "created"
       /\ handler[s].pc \in Ends =>
            handler[s].event.game \in Game /\ IsEnd(handler[s].event, handler[s].event.game)
       /\ handler[s].pc \in {"idle", "exit"} => handler[s].event = NoEvent
       /\ handler[s].event.kind = "game" => handler[s].event \in Heard
WriterOK ==
  /\ writer \in [Session -> [pc: {"idle", "write", "exit"}, event: Messages]]
  /\ \A s \in Session :
       /\ writer[s].pc \in {"idle", "exit"} => writer[s].event = NoEvent
       /\ writer[s].event.kind = "game" => writer[s].event \in Heard
Carried == {m \in Messages : m.kind = "game" => m \in Heard}
ChansOK ==
  /\ eventCh \in [Session -> Seq(Heard)] /\ msgCh \in [Session -> Seq(Carried)]
  /\ \A s \in Session : Len(eventCh[s]) <= EventCap /\ Len(msgCh[s]) <= MsgCap
TickerOK ==
  ticker \in [pc: {"idle", "publish", "send"}, todo: SUBSET Game,
              holds: Game \cup {NoGame}, left: SUBSET Session]
GotOK == got \in [Session -> [Game -> 0..End]]

FanoutTypes ==
  /\ TopicsOK /\ MatchesOK /\ ListenerOK /\ LocksOK /\ EndedOK /\ SessionOK /\ ReaderOK /\ HandlerOK
  /\ WriterOK /\ ChansOK /\ TickerOK /\ GotOK

LEMMA Bounds ==
  /\ End \in Nat \ {0} /\ MaxSaid \in Nat
  /\ EventCap \in Nat \ {0} /\ MsgCap \in Nat \ {0} /\ ViewCap \in Nat \ {0}
BY FanoutAssumption

\* A view more when there is room, a view less.
LEMMA ViewsChange ==
  ASSUME NEW V, IsFiniteSet(V), NEW g
  PROVE  /\ Cardinality(V) \in Nat
         /\ IsFiniteSet(V \ {g}) /\ Cardinality(V \ {g}) \in Nat
         /\ Cardinality(V \ {g}) <= Cardinality(V)
         /\ IsFiniteSet(V \cup {g}) /\ Cardinality(V \cup {g}) \in Nat
         /\ Cardinality(V \cup {g}) <= Cardinality(V) + 1
<1>1. Cardinality(V) \in Nat
  BY FS_CardinalityType
<1>2. IsFiniteSet(V \ {g}) /\ Cardinality(V \ {g}) = IF g \in V THEN Cardinality(V) - 1 ELSE Cardinality(V)
  BY FS_RemoveElement
<1>3. IsFiniteSet(V \cup {g}) /\ Cardinality(V \cup {g}) = IF g \in V THEN Cardinality(V) ELSE Cardinality(V) + 1
  BY FS_AddElement
<1>4. Cardinality(V \ {g}) \in Nat
  BY <1>2, FS_CardinalityType
<1> QED BY <1>1, <1>2, <1>3, <1>4

LEMMA ViewTaken ==
  ASSUME ViewsOK, NEW s \in Session, NEW g, views' = views \/ views' = [views EXCEPT ![s] = @ \ {g}]
  PROVE  ViewsOK'
<1> SUFFICES ASSUME NEW t \in Session
             PROVE  views'[t] \in SUBSET Game /\ IsFiniteSet(views'[t]) /\ Cardinality(views'[t]) <= ViewCap
  BY DEF ViewsOK
<1>1. views'[t] = views[t] \/ views'[t] = views[t] \ {g}
  BY DEF ViewsOK
<1>2. /\ IsFiniteSet(views[t]) /\ views[t] \subseteq Game
      /\ Cardinality(views[t]) \in Nat /\ Cardinality(views[t]) <= ViewCap
  BY FS_CardinalityType DEF ViewsOK
<1>3. /\ IsFiniteSet(views[t] \ {g}) /\ Cardinality(views[t] \ {g}) \in Nat
      /\ Cardinality(views[t] \ {g}) <= Cardinality(views[t])
  BY <1>2, ViewsChange
<1>4. CASE views'[t] = views[t]
  BY <1>2, <1>4
<1>5. CASE views'[t] = views[t] \ {g}
  BY <1>2, <1>3, <1>5, Bounds
<1> QED BY <1>1, <1>4, <1>5

LEMMA ViewAdded ==
  ASSUME ViewsOK, NEW s \in Session, NEW g \in Game, Cardinality(views[s]) < ViewCap,
         views' = [views EXCEPT ![s] = @ \cup {g}]
  PROVE  ViewsOK'
<1> SUFFICES ASSUME NEW t \in Session
             PROVE  views'[t] \in SUBSET Game /\ IsFiniteSet(views'[t]) /\ Cardinality(views'[t]) <= ViewCap
  BY DEF ViewsOK
<1>1. CASE t # s
  BY <1>1 DEF ViewsOK
<1>2. CASE t = s
  <2>1. views'[t] = views[s] \cup {g}
    BY <1>2 DEF ViewsOK
  <2>2. /\ views[s] \cup {g} \subseteq Game /\ IsFiniteSet(views[s] \cup {g})
        /\ Cardinality(views[s]) \in Nat /\ Cardinality(views[s] \cup {g}) \in Nat
        /\ Cardinality(views[s] \cup {g}) <= Cardinality(views[s]) + 1
    BY ViewsChange DEF ViewsOK
  <2>3. Cardinality(views[s] \cup {g}) <= ViewCap
    BY <2>2, Bounds
  <2> QED BY <2>1, <2>2, <2>3
<1> QED BY <1>1, <1>2

LEMMA AppendFits ==
  ASSUME NEW T, NEW q \in Seq(T), NEW e \in T, NEW n \in Nat, Len(q) < n
  PROVE  Append(q, e) \in Seq(T) /\ Len(Append(q, e)) <= n
OBVIOUS

LEMMA NoEventFacts ==
  /\ NoEvent \in Messages /\ NoEvent \in Carried /\ NoEvent.kind = "none" /\ NoEvent.game = NoGame
  /\ Reply \in Messages /\ Reply \in Carried /\ Reply.kind = "reply"
BY FanoutAssumption DEF NoEvent, Reply, Event, Messages, Carried

LEMMA HeardFacts == Heard \subseteq Messages /\ Heard \subseteq Carried
BY FanoutAssumption DEF Heard, Messages, Carried

LEMMA TypesInit == Init => FanoutTypes
<1> SUFFICES ASSUME Init PROVE FanoutTypes
  OBVIOUS
<1>1. TopicsOK /\ LocksOK /\ EndedOK /\ GotOK
  BY FanoutAssumption DEF Init, TopicsOK, LocksOK, EndedOK, GotOK
<1>6. MatchesOK
  BY DEF Init, MatchesOK
<1>2. ListenerOK /\ TickerOK
  BY NoEventFacts DEF Init, ListenerOK, TickerOK, Waiting, NoTick
<1>3. SessionOK
  BY FanoutAssumption, FS_EmptySet DEF Init, SessionOK, ViewsOK
<1>4. ReaderOK /\ HandlerOK /\ WriterOK
  BY NoEventFacts DEF Init, ReaderOK, HandlerOK, WriterOK, AtRest, Starts, Ends
<1>5. ChansOK
  BY FanoutAssumption DEF Init, ChansOK
<1> QED BY <1>1, <1>2, <1>3, <1>4, <1>5, <1>6 DEF FanoutTypes

LEMMA TypesFrame ==
  ASSUME FanoutTypes
  PROVE  /\ UNCHANGED topics => TopicsOK'
         /\ UNCHANGED matches => MatchesOK'
         /\ UNCHANGED <<feed, listener>> => ListenerOK'
         /\ UNCHANGED locks => LocksOK'
         /\ UNCHANGED <<feed, ended>> => EndedOK'
         /\ UNCHANGED session => SessionOK'
         /\ UNCHANGED reader => ReaderOK'
         /\ UNCHANGED handler => HandlerOK'
         /\ UNCHANGED writer => WriterOK'
         /\ UNCHANGED chans => ChansOK'
         /\ UNCHANGED ticker => TickerOK'
         /\ UNCHANGED got => GotOK'
<1>1. UNCHANGED topics => TopicsOK'
  BY DEF FanoutTypes, TopicsOK, topics
<1>2. UNCHANGED <<feed, listener>> => ListenerOK'
  BY DEF FanoutTypes, ListenerOK
<1>3. UNCHANGED locks => LocksOK'
  BY DEF FanoutTypes, LocksOK, locks
<1>4. UNCHANGED <<feed, ended>> => EndedOK'
  BY DEF FanoutTypes, EndedOK
<1>5. UNCHANGED session => SessionOK'
  BY DEF FanoutTypes, SessionOK, session, ViewsOK
<1>6. UNCHANGED reader => ReaderOK'
  BY DEF FanoutTypes, ReaderOK
<1>7. UNCHANGED handler => HandlerOK'
  BY DEF FanoutTypes, HandlerOK
<1>8. UNCHANGED writer => WriterOK'
  BY DEF FanoutTypes, WriterOK
<1>9. UNCHANGED chans => ChansOK'
  BY DEF FanoutTypes, ChansOK, chans
<1>10. UNCHANGED ticker => TickerOK'
  BY DEF FanoutTypes, TickerOK
<1>11. UNCHANGED got => GotOK'
  BY DEF FanoutTypes, GotOK
<1>12. UNCHANGED matches => MatchesOK'
  BY DEF FanoutTypes, MatchesOK, matches
<1> QED BY <1>1, <1>2, <1>3, <1>4, <1>5, <1>6, <1>7, <1>8, <1>9, <1>10, <1>11, <1>12

LEMMA CreatedFacts ==
  ASSUME NEW g \in Game \cup {NoGame}, g # NoGame
  PROVE  Created(g) \in Heard /\ Created(g).kind = "created" /\ Created(g).game = g
BY FanoutAssumption DEF Created, Event, Heard

LEMMA DeliverTypes ==
  ASSUME ChansOK, NEW s \in Session, NEW e \in Heard, Deliver(s, e), msgCh' = msgCh
  PROVE  ChansOK'
<1>1. CASE eventCh' = eventCh
  BY <1>1 DEF ChansOK
<1>2. CASE Len(eventCh[s]) < EventCap /\ eventCh' = [eventCh EXCEPT ![s] = Append(@, e)]
  <2>1. Append(eventCh[s], e) \in Seq(Heard) /\ Len(Append(eventCh[s], e)) <= EventCap
    BY <1>2, Bounds, AppendFits DEF ChansOK
  <2> QED BY <1>2, <2>1 DEF ChansOK
<1> QED BY <1>1, <1>2 DEF Deliver

LEMMA SubscribedTypes ==
  ASSUME LocksOK, NEW s \in Session, NEW g \in Game, Enters(s, g) \/ Queues(s, g) \/ Adds(s, g)
  PROVE  LocksOK'
BY DEF LocksOK, Enters, Queues, Adds, Joined

LEMMA ListenerTypes ==
  ASSUME FanoutTypes,
         \/ \E g \in Game : ListenGame(g) \/ ListenChat(g) \/ ListenCreated(g)
         \/ Lookup \/ MatchRound \/ Keep \/ \E s \in Session : Consume(s)
  PROVE  FanoutTypes'
<1> USE DEF FanoutTypes
<1>1. ASSUME NEW g \in Game, ListenGame(g) PROVE FanoutTypes'
  <2>1. feed[g] \in 0..End /\ feed[g] < End /\ feed' = [feed EXCEPT ![g] = feed[g] + 1]
    BY <1>1 DEF ListenGame, TopicsOK
  <2>2. TopicsOK'
    <3>1. feed[g] + 1 \in 0..End
      BY <2>1, Bounds
    <3> QED BY <1>1, <2>1, <3>1 DEF ListenGame, TopicsOK
  <2>3. feed'[g] \in 1..End /\ Event("game", g, feed'[g]) \in Heard
    BY <2>1, FanoutAssumption DEF TopicsOK, Event, Heard
  <2>4. ListenerOK'
    <3>1. listener' = [listener EXCEPT !.pc = "lookup", !.event = Event("game", g, feed'[g])]
      BY <1>1 DEF ListenGame
    <3>2. listener.left = {}
      BY <1>1 DEF ListenGame, ListenerOK
    <3> DEFINE e == Event("game", g, feed'[g])
    <3>3. e \in Heard /\ e \in Messages /\ e.kind = "game" /\ e.game = g /\ e.n = feed'[g] /\ e.n > 0
      BY <2>3, HeardFacts DEF Event
    <3> HIDE DEF e
    <3>4. /\ listener'.pc = "lookup" /\ listener'.event = e /\ listener'.left = {}
          /\ listener' \in [pc: {"idle", "lookup", "match", "send", "keep"}, event: Messages,
                           holds: Game \cup {NoGame}, left: SUBSET Session]
      BY <3>1, <3>2, <3>3 DEF ListenerOK, e
    <3> QED BY <3>3, <3>4 DEF ListenerOK
  <2>5. EndedOK'
    <3>1. \A h \in Game : h # g => feed'[h] = feed[h]
      BY <2>1 DEF TopicsOK
    <3>2. ended' = IF feed'[g] = End THEN ended \cup {g} ELSE ended
      BY <1>1 DEF ListenGame
    <3>3. g \notin ended
      BY <2>1, Bounds DEF EndedOK
    <3> QED BY <3>1, <3>2, <3>3 DEF EndedOK
  <2> QED BY <1>1, <2>2, <2>4, <2>5, TypesFrame DEF ListenGame, threads
<1>2. ASSUME NEW g \in Game, ListenChat(g) PROVE FanoutTypes'
  <2>1. TopicsOK'
    <3>1. said[g] \in 0..MaxSaid /\ said[g] < MaxSaid /\ said' = [said EXCEPT ![g] = said[g] + 1]
      BY <1>2 DEF ListenChat, TopicsOK
    <3>2. said[g] + 1 \in 0..MaxSaid
      BY <3>1, Bounds
    <3> QED BY <1>2, <3>1, <3>2 DEF ListenChat, TopicsOK
  <2>2. Event("chat", g, 0) \in Heard
    BY FanoutAssumption DEF Event, Heard
  <2>3. ListenerOK'
    BY <1>2, <2>2, HeardFacts DEF ListenChat, ListenerOK, Event
  <2> QED BY <1>2, <2>1, <2>3, TypesFrame DEF ListenChat, threads
<1>3. CASE Lookup
  <2>1. ListenerOK'
    BY <1>3, NoEventFacts DEF Lookup, ListenerOK, LocksOK, Waiting, topics, Heard
  <2> QED BY <1>3, <2>1, TypesFrame DEF Lookup, threads, topics
<1>4. ASSUME NEW s \in Session, Consume(s) PROVE FanoutTypes'
  <2>1. listener.event \in Heard
    BY <1>4 DEF Consume, ListenerOK
  <2>2. ListenerOK'
    <3>1. UNCHANGED feed /\ listener.pc = "send" /\ Served(s)
      BY <1>4 DEF Consume, topics
    <3>2. CASE listener' = Waiting
      BY <3>2, NoEventFacts DEF ListenerOK, Waiting
    <3>3. CASE listener.left # {s} /\ listener' = [listener EXCEPT !.left = @ \ {s}]
      BY <3>1, <3>3 DEF ListenerOK
    <3>4. CASE listener.event.kind = "created" /\ listener' = [listener EXCEPT !.pc = "keep", !.left = {}]
      BY <3>1, <3>4 DEF ListenerOK
    <3> QED BY <3>1, <3>2, <3>3, <3>4 DEF Served
  <2>3. ChansOK'
    BY <1>4, <2>1, DeliverTypes DEF Consume
  <2> QED BY <1>4, <2>2, <2>3, TypesFrame DEF Consume, threads, topics
<1>5. ASSUME NEW g \in Game, ListenCreated(g) PROVE FanoutTypes'
  <2>1. TopicsOK'
    BY <1>5 DEF ListenCreated, TopicsOK
  <2>2. Created(g) \in Heard /\ Created(g).kind = "created"
    BY CreatedFacts, FanoutAssumption
  <2>3. ListenerOK'
    BY <1>5, <2>2, HeardFacts DEF ListenCreated, ListenerOK
  <2> QED BY <1>5, <2>1, <2>3, TypesFrame DEF ListenCreated, threads
<1>6. CASE MatchRound
  <2>1. ListenerOK'
    BY <1>6 DEF MatchRound, AskedFor, ListenerOK, topics
  <2> QED BY <1>6, <2>1, TypesFrame DEF MatchRound, threads, topics
<1>7. CASE Keep
  <2>1. ListenerOK'
    BY <1>7, NoEventFacts DEF Keep, ListenerOK, Waiting, topics
  <2>2. MatchesOK'
    <3>1. listener.event.game \in Game
      BY <1>7 DEF Keep, ListenerOK, Heard
    <3> QED BY <1>7, <3>1 DEF Keep, MatchesOK
  <2> QED BY <1>7, <2>1, <2>2, TypesFrame DEF Keep, threads, topics
<1> QED BY <1>1, <1>2, <1>3, <1>4, <1>5, <1>6, <1>7

LEMMA CastingTypes ==
  ASSUME FanoutTypes, Broadcast \/ Expire \/ \E s \in Session : BroadcastSends(s)
  PROVE  FanoutTypes'
<1> USE DEF FanoutTypes
<1>1. CASE Broadcast
  <2>1. MatchesOK'
    <3>1. casting' \subseteq Session /\ \A s \in casting' : match[s] \in kept
      BY <1>1 DEF Broadcast
    <3>2. matchSub' = [s \in Session |-> IF s \in casting' THEN "broadcasted" ELSE matchSub[s]]
      BY <1>1 DEF Broadcast
    <3>3. matchSub' \in [Session -> {"none", "waiting", "broadcasted"}]
      BY <3>2 DEF MatchesOK
    <3>4. UNCHANGED <<play, match, kept, failed>>
      BY <1>1 DEF Broadcast
    <3> QED BY <3>1, <3>3, <3>4, FanoutAssumption DEF MatchesOK
  <2> QED BY <1>1, <2>1, TypesFrame DEF Broadcast, threads, topics
<1>2. CASE Expire
  <2>1. MatchesOK'
    <3>1. /\ kept' \subseteq kept /\ UNCHANGED <<play, match, casting, failed>>
          /\ \/ matchSub' = matchSub
             \/ \E s \in Session : matchSub' = [matchSub EXCEPT ![s] = "none"]
      BY <1>2 DEF Expire
    <3> QED BY <3>1 DEF MatchesOK
  <2> QED BY <1>2, <2>1, TypesFrame DEF Expire, threads, topics
<1>3. ASSUME NEW s \in Session, BroadcastSends(s) PROVE FanoutTypes'
  <2>1. Created(match[s]) \in Heard
    BY <1>3, CreatedFacts DEF BroadcastSends, MatchesOK
  <2>2. ChansOK'
    BY <1>3, <2>1, DeliverTypes DEF BroadcastSends
  <2>3. MatchesOK'
    BY <1>3 DEF BroadcastSends, MatchesOK
  <2> QED BY <1>3, <2>2, <2>3, TypesFrame DEF BroadcastSends, threads, topics
<1> QED BY <1>1, <1>2, <1>3

LEMMA HandlerTypes ==
  ASSUME FanoutTypes, NEW s \in Session, Handling(s)
  PROVE  FanoutTypes'
<1> USE DEF FanoutTypes
<1>1. CASE TakeEvent(s)
  <2>1. PICK q \in Seq(Heard) : q = eventCh[s]
    BY DEF ChansOK
  <2>2. Head(q) \in Heard /\ Tail(q) \in Seq(Heard) /\ Len(Tail(q)) <= Len(q)
    BY <1>1, <2>1 DEF TakeEvent
  <2>3. ChansOK'
    BY <1>1, <2>1, <2>2, Bounds DEF TakeEvent, ChansOK
  <2>4. views' = views \/ views' = [views EXCEPT ![s] = @ \ {Head(q).game}]
    BY <1>1, <2>1 DEF TakeEvent
  <2>5. SessionOK'
    BY <1>1, <2>4, ViewTaken DEF TakeEvent, SessionOK
  <2>6. HandlerOK'
    <3> DEFINE e == Head(q)
               pc == IF e.kind = "created" THEN "join"
                     ELSE IF e.kind = "game" /\ e.n = End THEN "lookup" ELSE "send"
               m == IF e.kind = "chat" THEN Reply ELSE e
    <3>1. handler' = [handler EXCEPT ![s] = [pc |-> pc, event |-> m]]
      BY <1>1, <2>1 DEF TakeEvent, Handles
    <3>2. /\ e \in Heard /\ e.game \in Game /\ e.kind \in {"game", "chat", "created"}
          /\ m \in Messages /\ Reply.kind = "reply"
      BY <2>2, HeardFacts, NoEventFacts DEF Heard
    <3> HIDE DEF e
    <3>3. handler'[s] = [pc |-> pc, event |-> m] /\ \A t \in Session : t # s => handler'[t] = handler[t]
      BY <3>1 DEF HandlerOK
    <3>4. /\ handler'[s].pc \in Starts => handler'[s].event \in Heard /\ handler'[s].event.kind = "created"
          /\ handler'[s].pc \in Ends => e.kind = "game" /\ e.n = End /\ handler'[s].event = e
          /\ handler'[s].pc \notin {"idle", "exit"}
          /\ handler'[s].event.kind = "game" => handler'[s].event \in Heard
      BY <3>2, <3>3 DEF Starts, Ends
    <3>5. handler' \in [Session -> [pc: {"idle", "join", "subscribe", "add", "lookup", "lock", "send", "exit"},
                              event: Messages]]
      BY <3>1, <3>2 DEF HandlerOK
    <3> QED BY <3>2, <3>3, <3>4, <3>5 DEF HandlerOK, IsEnd
  <2>7. MatchesOK'
    <3>1. Head(q).game \in Game
      BY <2>2 DEF Heard
    <3> QED BY <1>1, <2>1, <3>1 DEF TakeEvent, MatchesOK
  <2> QED BY <1>1, <2>3, <2>5, <2>6, <2>7, TypesFrame DEF TakeEvent, topics
<1>2. CASE HandlerLooksUp(s)
  <2>1. HandlerOK'
    BY <1>2 DEF HandlerLooksUp, Handles, HandlerOK, IsEnd, Starts, Ends
  <2> QED BY <1>2, <2>1, TypesFrame DEF HandlerLooksUp, topics
<1>3. CASE HandlerUnsubscribes(s)
  <2>1. HandlerOK'
    BY <1>3 DEF HandlerUnsubscribes, Handles, HandlerOK, IsEnd, Starts, Ends
  <2>2. LocksOK'
    BY <1>3 DEF HandlerUnsubscribes, LocksOK
  <2> QED BY <1>3, <2>1, <2>2, TypesFrame DEF HandlerUnsubscribes, topics
<1>4. CASE HandlerSends(s)
  <2>1. HandlerOK'
    BY <1>4, NoEventFacts DEF HandlerSends, Handles, HandlerOK, Starts, Ends
  <2>2. handler[s].event \in Carried
    BY DEF HandlerOK, Carried
  <2>3. ChansOK'
    BY <1>4, <2>2, Bounds, AppendFits DEF HandlerSends, ChansOK
  <2> QED BY <1>4, <2>1, <2>3, TypesFrame DEF HandlerSends, topics
<1>5. CASE HandlerExits(s)
  <2>1. HandlerOK'
    BY <1>5, NoEventFacts DEF HandlerExits, Handles, HandlerOK, Starts, Ends
  <2> QED BY <1>5, <2>1, TypesFrame DEF HandlerExits, topics
<1>6. CASE HandlerJoins(s)
  <2>1. HandlerOK'
    BY <1>6, NoEventFacts DEF HandlerJoins, Handles, HandlerOK, Starts, Ends
  <2>2. MatchesOK'
    BY <1>6 DEF HandlerJoins, MatchesOK
  <2> QED BY <1>6, <2>1, <2>2, TypesFrame DEF HandlerJoins, topics
<1>7. CASE HandlerSubscribes(s)
  <2>1. handler[s].event.game \in Game
    BY <1>7 DEF HandlerSubscribes, HandlerOK, Starts, Heard
  <2>2. HandlerOK'
    BY <1>7, NoEventFacts DEF HandlerSubscribes, Handles, HandlerOK, Starts, Ends
  <2>3. LocksOK'
    BY <1>7, <2>1, SubscribedTypes DEF HandlerSubscribes
  <2> QED BY <1>7, <2>2, <2>3, TypesFrame DEF HandlerSubscribes, topics
<1> QED BY <1>1, <1>2, <1>3, <1>4, <1>5, <1>6, <1>7 DEF Handling

LEMMA ReaderTypes ==
  ASSUME FanoutTypes, NEW s \in Session,
         \/ Reading(s) \/ Refused(s) \/ ReaderExits(s)
         \/ \E g \in Game : View(s, g) \/ Resume(s, g) \/ FindMatch(s, g)
  PROVE  FanoutTypes'
<1> USE DEF FanoutTypes
<1>0. ASSUME NEW g \in Game PROVE Event("none", g, 0) \in Messages
  BY FanoutAssumption DEF Event, Messages
<1>1. ASSUME NEW g \in Game, View(s, g) PROVE FanoutTypes'
  <2>2. ReaderOK'
    BY <1>0, <1>1 DEF View, Reads, ReaderOK, Event
  <2>3. SessionOK'
    BY <1>1, ViewAdded DEF View, SessionOK
  <2> QED BY <1>1, <2>2, <2>3, TypesFrame DEF View, topics
<1>2. CASE ViewAnswered(s)
  <2>1. ReaderOK'
    BY <1>2, NoEventFacts DEF ViewAnswered, Reads, ReaderOK
  <2>2. SessionOK'
    BY <1>2, ViewTaken DEF ViewAnswered, SessionOK
  <2> QED BY <1>2, <2>1, <2>2, TypesFrame DEF ViewAnswered, topics
<1>3. CASE Subscribes(s)
  <2>1. ReaderOK'
    BY <1>3, NoEventFacts DEF Subscribes, Reads, ReaderOK
  <2>2. reader[s].event.game \in Game
    BY <1>3 DEF Subscribes, ReaderOK
  <2>3. LocksOK'
    BY <1>3, <2>2, SubscribedTypes DEF Subscribes
  <2> QED BY <1>3, <2>1, <2>3, TypesFrame DEF Subscribes, topics
<1>4. ASSUME NEW g \in Game, Resume(s, g) PROVE FanoutTypes'
  <2>1. ReaderOK'
    BY <1>0, <1>4 DEF Resume, Reads, ReaderOK, Event
  <2>2. MatchesOK'
    BY <1>4 DEF Resume, MatchesOK
  <2> QED BY <1>4, <2>1, <2>2, TypesFrame DEF Resume, topics
<1>5. CASE ResumeJoins(s)
  <2>1. ReaderOK'
    BY <1>5, NoEventFacts DEF ResumeJoins, Reads, ReaderOK
  <2>2. MatchesOK'
    BY <1>5 DEF ResumeJoins, MatchesOK
  <2> QED BY <1>5, <2>1, <2>2, TypesFrame DEF ResumeJoins, topics
<1>6. CASE ReaderReplies(s)
  <2>1. ReaderOK'
    BY <1>6, NoEventFacts DEF ReaderReplies, Reads, ReaderOK
  <2>2. reader[s].event \in Carried
    BY DEF ReaderOK, Carried
  <2>3. ChansOK'
    BY <1>6, <2>2, Bounds, AppendFits DEF ReaderReplies, ChansOK
  <2> QED BY <1>6, <2>1, <2>3, TypesFrame DEF ReaderReplies, topics
<1>7. CASE ReaderExits(s)
  <2>1. ReaderOK'
    BY <1>7, NoEventFacts DEF ReaderExits, Reads, ReaderOK
  <2>2. SessionOK'
    BY <1>7 DEF ReaderExits, StopOnce, SessionOK, ViewsOK
  <2> QED BY <1>7, <2>1, <2>2, TypesFrame DEF ReaderExits, topics
<1>8. CASE Refused(s)
  <2>1. ReaderOK'
    BY <1>8, NoEventFacts DEF Refused, Reads, ReaderOK
  <2> QED BY <1>8, <2>1, TypesFrame DEF Refused, topics
<1>9. ASSUME NEW g \in Game, FindMatch(s, g) PROVE FanoutTypes'
  <2>1. ReaderOK'
    BY <1>0, <1>9 DEF FindMatch, Reads, ReaderOK, Event
  <2>2. MatchesOK'
    BY <1>9, FanoutAssumption DEF FindMatch, MatchesOK
  <2> QED BY <1>9, <2>1, <2>2, TypesFrame DEF FindMatch, topics
<1>10. CASE MatchSubscribes(s)
  <2>1. ReaderOK'
    BY <1>10, NoEventFacts DEF MatchSubscribes, Reads, ReaderOK
  <2>2. MatchesOK'
    BY <1>10 DEF MatchSubscribes, MatchesOK
  <2> QED BY <1>10, <2>1, <2>2, TypesFrame DEF MatchSubscribes, topics
<1> QED BY <1>1, <1>2, <1>3, <1>4, <1>5, <1>6, <1>7, <1>8, <1>9, <1>10 DEF Reading

LEMMA WriterTypes ==
  ASSUME FanoutTypes, NEW s \in Session, Writing(s) \/ Overdue(s) \/ Stopping(s)
  PROVE  FanoutTypes'
<1> USE DEF FanoutTypes
<1>1. CASE TakeMsg(s)
  <2>1. PICK q \in Seq(Carried) : q = msgCh[s]
    BY DEF ChansOK
  <2>2. Head(q) \in Carried /\ Tail(q) \in Seq(Carried) /\ Len(Tail(q)) <= Len(q)
    BY <1>1, <2>1 DEF TakeMsg
  <2>3. ChansOK'
    BY <1>1, <2>1, <2>2, Bounds DEF TakeMsg, ChansOK
  <2>4. WriterOK'
    BY <1>1, <2>1, <2>2 DEF TakeMsg, Writes, WriterOK, Carried
  <2> QED BY <1>1, <2>3, <2>4, TypesFrame DEF TakeMsg, topics
<1>2. CASE Written(s)
  <2>1. WriterOK'
    BY <1>2, NoEventFacts DEF Written, Writes, WriterOK
  <2>2. GotOK'
    BY <1>2 DEF Written, WriterOK, Heard, GotOK
  <2> QED BY <1>2, <2>1, <2>2, TypesFrame DEF Written, topics
<1>3. CASE WriteFails(s)
  <2>1. WriterOK'
    BY <1>3, NoEventFacts DEF WriteFails, Writes, WriterOK
  <2>2. SessionOK'
    BY <1>3 DEF WriteFails, StopOnce, SessionOK, ViewsOK
  <2> QED BY <1>3, <2>1, <2>2, TypesFrame DEF WriteFails, topics
<1>4. CASE WriterExits(s)
  <2>1. WriterOK'
    BY <1>4, NoEventFacts DEF WriterExits, Writes, WriterOK
  <2> QED BY <1>4, <2>1, TypesFrame DEF WriterExits, topics
<1>5. CASE Overdue(s)
  <2>1. SessionOK'
    BY <1>5 DEF Overdue, StopOnce, SessionOK, ViewsOK
  <2> QED BY <1>5, <2>1, TypesFrame DEF Overdue, topics, threads
<1>10. CASE StopReads(s)
  <2>1. SessionOK' /\ MatchesOK'
    BY <1>10 DEF StopReads, SessionOK, ViewsOK, MatchesOK
  <2> QED BY <1>10, <2>1, TypesFrame DEF StopReads, topics, threads
<1>6. CASE StopLooksUp(s)
  <2>1. SessionOK'
    BY <1>6 DEF StopLooksUp, SessionOK, ViewsOK
  <2> QED BY <1>6, <2>1, TypesFrame DEF StopLooksUp, topics, threads
<1>7. ASSUME NEW g \in Game, StopUnsubscribes(s, g) PROVE FanoutTypes'
  <2>1. SessionOK' /\ LocksOK'
    BY <1>7 DEF StopUnsubscribes, SessionOK, ViewsOK, LocksOK
  <2> QED BY <1>7, <2>1, TypesFrame DEF StopUnsubscribes, topics, threads
<1>8. CASE StopCloses(s)
  <2>1. SessionOK'
    BY <1>8 DEF StopCloses, SessionOK, ViewsOK
  <2> QED BY <1>8, <2>1, TypesFrame DEF StopCloses, topics, threads
<1>9. CASE StopEnds(s)
  <2>1. SessionOK'
    BY <1>9, FS_EmptySet, Bounds DEF StopEnds, SessionOK, ViewsOK
  <2>2. ChansOK'
    BY <1>9, Bounds DEF StopEnds, ChansOK
  <2>3. MatchesOK'
    BY <1>9 DEF StopEnds, MatchesOK
  <2> QED BY <1>9, <2>1, <2>2, <2>3, TypesFrame DEF StopEnds, topics, threads
<1> QED BY <1>1, <1>2, <1>3, <1>4, <1>5, <1>6, <1>7, <1>8, <1>9, <1>10 DEF Writing, Stopping

LEMMA TickerTypes ==
  ASSUME FanoutTypes, Ticking \/ Ping \/ CleanTick
  PROVE  FanoutTypes'
<1> USE DEF FanoutTypes
<1>1. ASSUME NEW g \in Game, PingPublishes(g) PROVE FanoutTypes'
  <2>1. TickerOK'
    BY <1>1 DEF PingPublishes, TickerOK, NoTick, LocksOK
  <2> QED BY <1>1, <2>1, TypesFrame DEF PingPublishes, topics, threads
<1>2. ASSUME NEW s \in Session, PingSends(s) PROVE FanoutTypes'
  <2>1. TickerOK'
    BY <1>2 DEF PingSends, TickerOK, NoTick
  <2>2. ChansOK'
    <3>1. CASE msgCh' = msgCh
      BY <1>2, <3>1 DEF PingSends, ChansOK
    <3>2. CASE Len(msgCh[s]) < MsgCap /\ msgCh' = [msgCh EXCEPT ![s] = Append(@, Reply)]
      <4>1. Append(msgCh[s], Reply) \in Seq(Carried) /\ Len(Append(msgCh[s], Reply)) <= MsgCap
        BY <3>2, NoEventFacts, Bounds, AppendFits DEF ChansOK
      <4> QED BY <1>2, <3>2, <4>1 DEF PingSends, ChansOK
    <3> QED BY <1>2, <3>1, <3>2 DEF PingSends
  <2> QED BY <1>2, <2>1, <2>2, TypesFrame DEF PingSends, topics, threads
<1>3. CASE Ping
  <2>1. TickerOK'
    BY <1>3 DEF Ping, TickerOK, NoTick, ViewerLists
  <2> QED BY <1>3, <2>1, TypesFrame DEF Ping, topics, threads
<1>4. CASE CleanTick
  <2>1. LocksOK'
    BY <1>4 DEF CleanTick, LocksOK
  <2>2. ListenerOK'
    BY <1>4 DEF CleanTick, ListenerOK, topics
  <2>3. EndedOK'
    BY <1>4 DEF CleanTick, EndedOK, topics
  <2> QED BY <1>4, <2>1, <2>2, <2>3, TypesFrame DEF CleanTick, topics, threads
<1> QED BY <1>1, <1>2, <1>3, <1>4 DEF Ticking

LEMMA NextTypes == FanoutTypes /\ [Next]_vars => FanoutTypes'
<1> SUFFICES ASSUME FanoutTypes, [Next]_vars PROVE FanoutTypes'
  OBVIOUS
<1>1. CASE UNCHANGED vars
  <2>1. UNCHANGED <<topics, feed, listener, locks, ended, session, matches, threads, chans, ticker, got>>
    BY <1>1 DEF vars, topics
  <2>2. UNCHANGED <<reader, handler, writer>>
    BY <2>1 DEF threads
  <2> QED BY <2>1, <2>2, TypesFrame DEF FanoutTypes
<1>2. CASE Next
  BY <1>2, ListenerTypes, CastingTypes, HandlerTypes, ReaderTypes, WriterTypes, TickerTypes
  DEF Next, Listening, Casting
<1> QED BY <1>1, <1>2

\* Every reachable state of the fan-out is well typed; among other things no
\* channel holds more than its capacity and no session views too many games.
THEOREM FanoutTypeCorrect == Spec => []TypeOK
<1>1. FanoutTypes => TypeOK
  BY DEF FanoutTypes, TopicsOK, MatchesOK, ListenerOK, LocksOK, EndedOK, SessionOK, ViewsOK, ReaderOK, HandlerOK, WriterOK,
     ChansOK, TickerOK, GotOK, TypeOK
<1> QED BY <1>1, TypesInit, NextTypes, PTL DEF Spec

-----------------------------------------------------------------------------
(* The way of the events of a game to a session *)

\* The number of an event of g; none for another message.
Num(e, g)  == IF e.kind = "game" /\ e.game = g THEN {e.n} ELSE {}
Nums(q, g) == UNION {Num(q[i], g) : i \in 1..Len(q)}

AtWriter(s, g)   == Num(writer[s].event, g)
InMsgCh(s, g)    == Nums(msgCh[s], g)
AtHandler(s, g)  == Num(handler[s].event, g)
InEventCh(s, g)  == Nums(eventCh[s], g)
AtListener(s, g) == IF s \in listener.left THEN Num(listener.event, g) ELSE {}

Underway(s, g) ==
  AtWriter(s, g) \cup InMsgCh(s, g) \cup AtHandler(s, g) \cup InEventCh(s, g) \cup AtListener(s, g)

\* The events of g that the listener has done with, or is handing out.
Told(g) == IF listener.pc = "lookup" /\ Num(listener.event, g) # {} THEN feed[g] - 1 ELSE feed[g]

Before(A, B) == \A a \in A, b \in B : a < b

\* Five places, one after the other, and the greatest number so far.
Lined(A, B, C, D, E, m) ==
  /\ Before(A, B \cup C \cup D \cup E) /\ Before(B, C \cup D \cup E)
  /\ Before(C, D \cup E) /\ Before(D, E)
  /\ \A n \in A \cup B \cup C \cup D \cup E : n <= m

Rising(q, g) == \A i, j \in 1..Len(q) : i < j => Before(Num(q[i], g), Num(q[j], g))

InLine(s, g) ==
  /\ Lined(AtWriter(s, g), InMsgCh(s, g), AtHandler(s, g), InEventCh(s, g), AtListener(s, g), Told(g))
  /\ Rising(msgCh[s], g) /\ Rising(eventCh[s], g)

-----------------------------------------------------------------------------
(* No gap *)

\* What the client of s has of g, and what is under way to him.
Seen(s, g) == ({got[s][g]} \ {0}) \cup Underway(s, g)

NoGap(s, g) ==
  /\ \A n \in Underway(s, g) : got[s][g] < n
  /\ \A a, b \in Seen(s, g) : a..b \subseteq Seen(s, g)
  /\ got[s][g] <= Told(g)

\* A session that has events of g has the latest and is subscribed for the next, or
\* there will be no next.
UpToDate(s, g) ==
  \/ Seen(s, g) = {}
  \/ Told(g) = End
  \/ Told(g) \in Seen(s, g) /\ (s \in gameSubs[g] \/ feed[g] = End)

Fine(s, g) ==
  /\ InLine(s, g)
  /\ writer[s].pc # "exit" => NoGap(s, g) /\ UpToDate(s, g)

FlowInv == \A s \in Session, g \in Game : InUse(s) => Fine(s, g)

-----------------------------------------------------------------------------
(* Numbers in a channel *)

LEMMA NumsAppend ==
  ASSUME NEW T, NEW q \in Seq(T), NEW e, NEW g
  PROVE  Nums(Append(q, e), g) = Nums(q, g) \cup Num(e, g)
<1> DEFINE r == Append(q, e)
<1>1. /\ Len(r) = Len(q) + 1 /\ Len(q) \in Nat /\ r[Len(r)] = e
      /\ \A i \in 1..Len(q) : r[i] = q[i]
  OBVIOUS
<1> HIDE DEF r
<1>2. ASSUME NEW n \in Nums(r, g) PROVE n \in Nums(q, g) \cup Num(e, g)
  <2>1. PICK i \in 1..Len(r) : n \in Num(r[i], g)
    BY DEF Nums
  <2>2. CASE i = Len(r)
    BY <1>1, <2>1, <2>2
  <2>3. CASE i # Len(r)
    <3>1. i \in 1..Len(q) /\ n \in Num(q[i], g)
      BY <1>1, <2>1, <2>3
    <3> QED BY <3>1 DEF Nums
  <2> QED BY <2>2, <2>3
<1>3. ASSUME NEW n \in Nums(q, g) PROVE n \in Nums(r, g)
  <2>1. PICK i \in 1..Len(q) : n \in Num(q[i], g)
    BY DEF Nums
  <2>2. i \in 1..Len(r) /\ r[i] = q[i]
    BY <1>1
  <2>3. n \in Num(r[i], g)
    BY <2>1, <2>2
  <2> QED BY <2>2, <2>3 DEF Nums
<1>4. ASSUME NEW n \in Num(e, g) PROVE n \in Nums(r, g)
  <2>1. Len(r) \in 1..Len(r) /\ n \in Num(r[Len(r)], g)
    BY <1>1
  <2> QED BY <2>1 DEF Nums
<1> QED BY <1>2, <1>3, <1>4 DEF r

LEMMA RisingAppend ==
  ASSUME NEW T, NEW q \in Seq(T), NEW e, NEW g, Rising(q, g), Before(Nums(q, g), Num(e, g))
  PROVE  Rising(Append(q, e), g)
<1> DEFINE r == Append(q, e)
<1>1. /\ Len(r) = Len(q) + 1 /\ Len(q) \in Nat /\ r[Len(r)] = e
      /\ \A i \in 1..Len(q) : r[i] = q[i]
  OBVIOUS
<1> HIDE DEF r
<1> SUFFICES ASSUME NEW i \in 1..Len(r), NEW j \in 1..Len(r), i < j
             PROVE  Before(Num(r[i], g), Num(r[j], g))
  BY DEF Rising, r
<1>2. i \in 1..Len(q) /\ r[i] = q[i]
  BY <1>1
<1>3. CASE j = Len(r)
  <2>1. Num(q[i], g) \subseteq Nums(q, g)
    BY <1>2 DEF Nums
  <2> QED BY <1>1, <1>2, <1>3, <2>1 DEF Before
<1>4. CASE j # Len(r)
  <2>1. j \in 1..Len(q) /\ r[j] = q[j]
    BY <1>1, <1>4
  <2> QED BY <1>2, <2>1 DEF Rising
<1> QED BY <1>3, <1>4

LEMMA NumsTail ==
  ASSUME NEW T, NEW q \in Seq(T), q # <<>>, NEW g, Rising(q, g)
  PROVE  /\ Nums(q, g) = Num(Head(q), g) \cup Nums(Tail(q), g)
         /\ Rising(Tail(q), g) /\ Before(Num(Head(q), g), Nums(Tail(q), g))
<1> DEFINE r == Tail(q)
<1>1. /\ Len(q) \in Nat \ {0} /\ Len(r) = Len(q) - 1 /\ Head(q) = q[1]
      /\ \A i \in 1..Len(r) : r[i] = q[i + 1] /\ i + 1 \in 1..Len(q)
  OBVIOUS
<1> HIDE DEF r
<1>2. ASSUME NEW n \in Nums(q, g) PROVE n \in Num(Head(q), g) \cup Nums(r, g)
  <2>1. PICK i \in 1..Len(q) : n \in Num(q[i], g)
    BY DEF Nums
  <2>2. CASE i = 1
    BY <1>1, <2>1, <2>2
  <2>3. CASE i # 1
    <3>1. i - 1 \in 1..Len(r) /\ r[i - 1] = q[i]
      BY <1>1, <2>3
    <3> QED BY <2>1, <3>1 DEF Nums
  <2> QED BY <2>2, <2>3
<1>3. ASSUME NEW n \in Num(Head(q), g) PROVE n \in Nums(q, g)
  <2>1. 1 \in 1..Len(q) /\ n \in Num(q[1], g)
    BY <1>1
  <2> QED BY <2>1 DEF Nums
<1>4. ASSUME NEW n \in Nums(r, g) PROVE n \in Nums(q, g) /\ \A a \in Num(Head(q), g) : a < n
  <2>1. PICK i \in 1..Len(r) : n \in Num(r[i], g)
    BY DEF Nums
  <2>2. i + 1 \in 1..Len(q) /\ n \in Num(q[i + 1], g) /\ 1 \in 1..Len(q) /\ 1 < i + 1
    BY <1>1, <2>1
  <2>3. Before(Num(q[1], g), Num(q[i + 1], g))
    BY <2>2 DEF Rising
  <2> QED BY <1>1, <2>2, <2>3 DEF Nums, Before
<1>5. Rising(r, g)
  <2> SUFFICES ASSUME NEW i \in 1..Len(r), NEW j \in 1..Len(r), i < j
               PROVE  Before(Num(r[i], g), Num(r[j], g))
    BY DEF Rising
  <2>1. i + 1 \in 1..Len(q) /\ j + 1 \in 1..Len(q) /\ i + 1 < j + 1 /\ r[i] = q[i + 1] /\ r[j] = q[j + 1]
    BY <1>1
  <2> QED BY <2>1 DEF Rising
<1> QED BY <1>2, <1>3, <1>4, <1>5 DEF r, Before

LEMMA Numbers ==
  ASSUME FanoutTypes, NEW s \in Session, NEW g \in Game
  PROVE  /\ Underway(s, g) \subseteq 0..End /\ Told(g) \in 0..End /\ got[s][g] \in 0..End
         /\ feed[g] \in 0..End
         /\ AtListener(s, g) \subseteq 0..End
<1>1. ASSUME NEW e, e.kind = "game" => e \in Heard PROVE Num(e, g) \subseteq 0..End
  BY <1>1 DEF Num, Heard
<1>2. ASSUME NEW q \in Seq(Carried) PROVE Nums(q, g) \subseteq 0..End
  BY <1>1, <1>2 DEF Nums, Carried
<1>3. AtWriter(s, g) \subseteq 0..End /\ AtHandler(s, g) \subseteq 0..End
  BY <1>1 DEF FanoutTypes, WriterOK, HandlerOK, AtWriter, AtHandler
<1>4. Seq(Heard) \subseteq Seq(Carried)
  BY HeardFacts
<1>5. InMsgCh(s, g) \subseteq 0..End /\ InEventCh(s, g) \subseteq 0..End
  BY <1>2, <1>4 DEF FanoutTypes, ChansOK, InMsgCh, InEventCh
<1>6. AtListener(s, g) \subseteq 0..End
  <2>1. CASE listener.pc = "idle"
    BY <2>1 DEF FanoutTypes, ListenerOK, AtListener
  <2>2. CASE listener.pc # "idle"
    BY <1>1, <2>2 DEF FanoutTypes, ListenerOK, AtListener
  <2> QED BY <2>1, <2>2
<1>7. feed[g] \in 0..End /\ got[s][g] \in 0..End
  BY DEF FanoutTypes, TopicsOK, GotOK
<1>8. Told(g) \in 0..End
  <2>1. CASE listener.pc = "lookup" /\ Num(listener.event, g) # {}
    BY <1>7, <2>1, Bounds DEF Told, FanoutTypes, ListenerOK, Num
  <2> QED BY <1>7, <2>1 DEF Told
<1> QED BY <1>3, <1>5, <1>6, <1>7, <1>8 DEF Underway

LEMMA FlowInit == Init => FlowInv
<1> SUFFICES ASSUME Init, NEW s \in Session, NEW g \in Game PROVE Fine(s, g)
  BY DEF FlowInv
<1>1. AtWriter(s, g) = {} /\ AtHandler(s, g) = {} /\ AtListener(s, g) = {}
  BY DEF Init, AtRest, NoEvent, Event, Num, AtWriter, AtHandler, AtListener, Waiting
<1>2. InMsgCh(s, g) = {} /\ InEventCh(s, g) = {} /\ Rising(msgCh[s], g) /\ Rising(eventCh[s], g)
  BY DEF Init, Nums, InMsgCh, InEventCh, Rising
<1>3. got[s][g] = 0 /\ Told(g) = 0
  BY DEF Init, Told, Waiting
<1>4. InLine(s, g)
  BY <1>1, <1>2 DEF InLine, Lined, Before
<1>5. Seen(s, g) = {} /\ Underway(s, g) = {}
  BY <1>1, <1>2, <1>3 DEF Seen, Underway
<1> QED BY <1>3, <1>4, <1>5 DEF Fine, NoGap, UpToDate

-----------------------------------------------------------------------------
(* What a step leaves alone *)

\* Nothing of the way of g to a session changes.
SameWay(s, g) ==
  /\ AtWriter(s, g)' = AtWriter(s, g) /\ InMsgCh(s, g)' = InMsgCh(s, g)
  /\ AtHandler(s, g)' = AtHandler(s, g) /\ InEventCh(s, g)' = InEventCh(s, g)
  /\ AtListener(s, g)' = AtListener(s, g) /\ Told(g)' = Told(g)
  /\ Rising(msgCh[s], g) => Rising(msgCh'[s], g)
  /\ Rising(eventCh[s], g) => Rising(eventCh'[s], g)

\* A subscription is lost only to a game that is over.
Kept(s, g) == s \in gameSubs[g] => s \in gameSubs'[g] \/ feed[g] = End

\* What is under way stays under way: the history and the gaps are as before.
LEMMA SameSeen ==
  ASSUME NEW s, NEW g, Underway(s, g)' = Underway(s, g), got'[s][g] = got[s][g], Told(g)' = Told(g)
  PROVE  Seen(s, g)' = Seen(s, g) /\ (NoGap(s, g) => NoGap(s, g)')
BY DEF Seen, NoGap

LEMMA Calm ==
  ASSUME NEW s \in Session, NEW g \in Game, Fine(s, g), SameWay(s, g), Kept(s, g),
         got'[s][g] = got[s][g], writer'[s].pc # "exit" => writer[s].pc # "exit",
         feed[g] = End => feed'[g] = End
  PROVE  Fine(s, g)'
<1>1. Underway(s, g)' = Underway(s, g)
  BY DEF SameWay, Underway
<1>2. Seen(s, g)' = Seen(s, g) /\ (NoGap(s, g) => NoGap(s, g)')
  BY <1>1, SameSeen DEF SameWay
<1>3. InLine(s, g)'
  BY DEF SameWay, Fine, InLine
<1>4. UpToDate(s, g) => UpToDate(s, g)'
  BY <1>2 DEF SameWay, Kept, UpToDate
<1> QED BY <1>2, <1>3, <1>4 DEF Fine

\* Nothing between listener and client changes at session s.
Rests(s) ==
  /\ writer'[s] = writer[s] /\ msgCh'[s] = msgCh[s] /\ handler'[s].event = handler[s].event
  /\ eventCh'[s] = eventCh[s] /\ got'[s] = got[s]
  /\ InUse(s)' => InUse(s) /\ \A g \in Game : Kept(s, g)

LEMMA Resting ==
  ASSUME FlowInv, NEW s \in Session, NEW g \in Game, Rests(s), InUse(s)',
         AtListener(s, g)' = AtListener(s, g), Told(g)' = Told(g), feed[g] = End => feed'[g] = End
  PROVE  Fine(s, g)'
<1>1. SameWay(s, g) /\ Kept(s, g) /\ Fine(s, g)
  BY DEF Rests, SameWay, AtWriter, InMsgCh, AtHandler, InEventCh, FlowInv
<1> QED BY <1>1, Calm DEF Rests

\* A step of one session: the others rest, the listener too.
LEMMA OneSession ==
  ASSUME FlowInv, UNCHANGED <<listener, feed>>, NEW s \in Session,
         \A t \in Session : t # s => Rests(t),
         InUse(s)' => InUse(s),
         \A g \in Game : Fine(s, g) /\ InUse(s) /\ InUse(s)' => Fine(s, g)'
  PROVE  FlowInv'
<1> SUFFICES ASSUME NEW t \in Session, NEW g \in Game, InUse(t)' PROVE Fine(t, g)'
  BY DEF FlowInv
<1>1. CASE t = s
  BY <1>1 DEF FlowInv
<1>2. CASE t # s
  <2>1. AtListener(t, g)' = AtListener(t, g) /\ Told(g)' = Told(g)
    BY DEF AtListener, Told
  <2> QED BY <1>2, <2>1, Resting
<1> QED BY <1>1, <1>2

\* All sessions rest.
LEMMA AllRest ==
  ASSUME FlowInv, \A s \in Session : Rests(s), \A g \in Game : feed[g] = End => feed'[g] = End,
         \A s \in Session, g \in Game : AtListener(s, g)' = AtListener(s, g) /\ Told(g)' = Told(g)
  PROVE  FlowInv'
BY Resting DEF FlowInv

LEMMA Subscribed ==
  ASSUME LocksOK, NEW s \in Session, NEW g \in Game, Enters(s, g) \/ Queues(s, g) \/ Adds(s, g)
  PROVE  \A t \in Session, h \in Game : Kept(t, h)
BY DEF LocksOK, Enters, Queues, Adds, Joined, Kept

\* A message that is no event of the game joins a channel.
LEMMA OtherAppended ==
  ASSUME NEW T, NEW q \in Seq(T), NEW e, NEW g, Num(e, g) = {}
  PROVE  Nums(Append(q, e), g) = Nums(q, g) /\ (Rising(q, g) => Rising(Append(q, e), g))
<1>1. Nums(Append(q, e), g) = Nums(q, g) \cup Num(e, g)
  BY NumsAppend
<1>2. Before(Nums(q, g), Num(e, g))
  BY DEF Before
<1>3. Rising(q, g) => Rising(Append(q, e), g)
  BY <1>2, RisingAppend
<1> QED BY <1>1, <1>3

-----------------------------------------------------------------------------
(* From place to place *)

LEMMA LinedMoves ==
  ASSUME NEW A, NEW B, NEW C, NEW D, NEW E, NEW m \in Int, Lined(A, B, C, D, E, m)
  PROVE  /\ Lined({}, B, C, D, E, m)
         /\ Lined(A, B \cup C, {}, D, E, m)
         /\ Lined(A, B, C, D \cup E, {}, m)
         /\ \A X, Y : A = {} /\ B = X \cup Y /\ Before(X, Y) => Lined(X, Y, C, D, E, m)
         /\ \A X, Y : C = {} /\ D = X \cup Y /\ Before(X, Y) => Lined(A, B, X, Y, E, m)
<1>1. Lined({}, B, C, D, E, m) /\ Lined(A, B \cup C, {}, D, E, m) /\ Lined(A, B, C, D \cup E, {}, m)
  BY DEF Lined, Before
<1>2. ASSUME NEW X, NEW Y, A = {}, B = X \cup Y, Before(X, Y) PROVE Lined(X, Y, C, D, E, m)
  BY <1>2 DEF Lined, Before
<1>3. ASSUME NEW X, NEW Y, C = {}, D = X \cup Y, Before(X, Y) PROVE Lined(A, B, X, Y, E, m)
  BY <1>3 DEF Lined, Before
<1> QED BY <1>1, <1>2, <1>3

LEMMA HandlerFlow ==
  ASSUME FanoutTypes, FlowInv, NEW s \in Session, Handling(s)
  PROVE  FlowInv'
<1> USE DEF FanoutTypes
<1>1. CASE TakeEvent(s)
  <2>1. PICK q \in Seq(Heard) : q = eventCh[s]
    BY DEF ChansOK
  <2> DEFINE e == Head(q)
             m == IF e.kind = "chat" THEN Reply ELSE e
             pc == IF e.kind = "created" THEN "join"
                   ELSE IF e.kind = "game" /\ e.n = End THEN "lookup" ELSE "send"
  <2>2. /\ q # <<>> /\ e \in Heard /\ Tail(q) \in Seq(Heard)
        /\ handler[s].event = NoEvent
        /\ eventCh' = [eventCh EXCEPT ![s] = Tail(q)]
        /\ handler' = [handler EXCEPT ![s] = [pc |-> pc, event |-> m]]
    BY <1>1, <2>1 DEF TakeEvent, Handles, HandlerOK
  <2>3. UNCHANGED <<topics, listener, gameSubs, stage, writer, msgCh, got>>
    BY <1>1 DEF TakeEvent, locks
  <2>4. \A t \in Session : t # s => Rests(t)
    BY <2>2, <2>3 DEF Rests, Kept, InUse, ChansOK, HandlerOK
  <2>5. ASSUME NEW g \in Game, Fine(s, g) PROVE Fine(s, g)'
    <3> DEFINE X == Num(e, g)
               Y == Nums(Tail(q), g)
    <3>1. Rising(q, g)
      BY <2>1, <2>5 DEF Fine, InLine
    <3>2. /\ Nums(q, g) = X \cup Y /\ Rising(Tail(q), g) /\ Before(X, Y)
      BY <2>2, <3>1, NumsTail
    <3>3. /\ eventCh'[s] = Tail(q) /\ handler'[s].event = m
      BY <2>2 DEF ChansOK, HandlerOK
    <3>4. /\ InEventCh(s, g) = X \cup Y /\ InEventCh(s, g)' = Y
          /\ AtHandler(s, g)' = X
      BY <2>1, <3>2, <3>3, NoEventFacts DEF InEventCh, AtHandler, Num
    <3>5. AtHandler(s, g) = {}
      BY <2>2, NoEventFacts DEF AtHandler, Num
    <3>6. /\ AtWriter(s, g)' = AtWriter(s, g) /\ InMsgCh(s, g)' = InMsgCh(s, g)
          /\ AtListener(s, g)' = AtListener(s, g) /\ Told(g)' = Told(g)
      BY <2>3 DEF AtWriter, InMsgCh, AtListener, Told, topics
    <3> HIDE DEF X, Y
    <3>7. Told(g) \in Int
      BY Numbers
    <3>8. InLine(s, g)'
      <4>1. Lined(AtWriter(s, g), InMsgCh(s, g), {}, X \cup Y, AtListener(s, g), Told(g))
        BY <2>5, <3>4, <3>5 DEF Fine, InLine
      <4>2. Lined(AtWriter(s, g), InMsgCh(s, g), X, Y, AtListener(s, g), Told(g))
        BY <3>2, <3>7, <4>1, LinedMoves
      <4> QED BY <2>3, <2>5, <3>2, <3>3, <3>4, <3>6, <4>2 DEF Fine, InLine
    <3>9. Underway(s, g)' = Underway(s, g)
      BY <3>4, <3>5, <3>6 DEF Underway
    <3>10. Seen(s, g)' = Seen(s, g) /\ (NoGap(s, g) => NoGap(s, g)')
      BY <2>3, <3>6, <3>9, SameSeen
    <3>11. UpToDate(s, g) => UpToDate(s, g)'
      BY <2>3, <3>6, <3>10 DEF UpToDate, topics
    <3> QED BY <2>3, <2>5, <3>8, <3>10, <3>11 DEF Fine
  <2> QED BY <2>3, <2>4, <2>5, OneSession DEF topics, InUse
<1>2. CASE HandlerLooksUp(s) \/ HandlerUnsubscribes(s)
  <2> DEFINE h == handler[s].event.game
  <2>1. /\ h \in Game /\ IsEnd(handler[s].event, h)
        /\ UNCHANGED <<topics, listener, stage, writer, chans, got>>
        /\ \E pc : handler' = [handler EXCEPT ![s] = [pc |-> pc, event |-> handler[s].event]]
        /\ gameSubs' = gameSubs \/ gameSubs' = [gameSubs EXCEPT ![h] = @ \ {s}]
    BY <1>2 DEF HandlerLooksUp, HandlerUnsubscribes, Handles, locks, session, HandlerOK, Ends
  <2>2. \A t \in Session : handler'[t].event = handler[t].event
    BY <2>1 DEF HandlerOK
  <2>3. \A t \in Session : t # s => Rests(t)
    BY <2>1, <2>2 DEF Rests, Kept, InUse, chans, LocksOK
  <2>4. ASSUME NEW g \in Game, Fine(s, g), InUse(s) PROVE Fine(s, g)'
    <3>1. g = h => feed[g] = End
      <4>1. g = h => End \in AtHandler(s, g)
        BY <2>1 DEF AtHandler, Num, IsEnd
      <4>2. g = h => End <= Told(g)
        BY <2>4, <4>1 DEF Fine, InLine, Lined
      <4> QED BY <4>2, Numbers, Bounds DEF Told
    <3>2. Kept(s, g)
      BY <2>1, <3>1 DEF Kept, LocksOK
    <3>3. SameWay(s, g)
      BY <2>1, <2>2 DEF SameWay, AtWriter, InMsgCh, AtHandler, InEventCh, AtListener, Told, topics, chans
    <3> QED BY <2>1, <2>4, <3>2, <3>3, Calm DEF topics
  <2> QED BY <2>1, <2>3, <2>4, OneSession DEF topics, InUse
<1>3. CASE HandlerSends(s)
  <2> DEFINE e == handler[s].event
  <2>1. /\ msgCh' = [msgCh EXCEPT ![s] = Append(@, e)]
        /\ handler' = [handler EXCEPT ![s] = [pc |-> "idle", event |-> NoEvent]]
        /\ UNCHANGED <<topics, listener, gameSubs, stage, writer, eventCh, got>>
    BY <1>3 DEF HandlerSends, Handles, locks, session
  <2>2. \A t \in Session : t # s => Rests(t)
    BY <2>1 DEF Rests, Kept, InUse, ChansOK, HandlerOK
  <2>3. ASSUME NEW g \in Game, Fine(s, g) PROVE Fine(s, g)'
    <3>1. /\ msgCh[s] \in Seq(Carried) /\ msgCh'[s] = Append(msgCh[s], e)
          /\ handler'[s] = [pc |-> "idle", event |-> NoEvent]
      BY <2>1 DEF ChansOK, HandlerOK
    <3>2. /\ InMsgCh(s, g)' = InMsgCh(s, g) \cup AtHandler(s, g) /\ AtHandler(s, g)' = {}
      BY <3>1, NumsAppend, NoEventFacts DEF InMsgCh, AtHandler, Num
    <3>3. /\ AtWriter(s, g)' = AtWriter(s, g) /\ InEventCh(s, g)' = InEventCh(s, g)
          /\ AtListener(s, g)' = AtListener(s, g) /\ Told(g)' = Told(g)
      BY <2>1 DEF AtWriter, InEventCh, AtListener, Told, topics
    <3>4. Rising(msgCh'[s], g)
      <4>1. Before(Nums(msgCh[s], g), Num(e, g))
        BY <2>3 DEF Fine, InLine, Lined, Before, InMsgCh, AtHandler
      <4> QED BY <2>3, <3>1, <4>1, RisingAppend DEF Fine, InLine
    <3>5. Told(g) \in Int
      BY Numbers
    <3>6. InLine(s, g)'
      <4>1. Lined(AtWriter(s, g), InMsgCh(s, g), AtHandler(s, g), InEventCh(s, g), AtListener(s, g), Told(g))
        BY <2>3 DEF Fine, InLine
      <4>2. Lined(AtWriter(s, g), InMsgCh(s, g) \cup AtHandler(s, g), {}, InEventCh(s, g), AtListener(s, g),
                  Told(g))
        BY <3>5, <4>1, LinedMoves
      <4>3. Rising(eventCh'[s], g)
        BY <2>1, <2>3 DEF Fine, InLine
      <4> QED BY <3>2, <3>3, <3>4, <4>2, <4>3 DEF InLine
    <3>7. Underway(s, g)' = Underway(s, g)
      BY <3>2, <3>3 DEF Underway
    <3>8. Seen(s, g)' = Seen(s, g) /\ (NoGap(s, g) => NoGap(s, g)')
      BY <2>1, <3>3, <3>7, SameSeen
    <3>9. UpToDate(s, g) => UpToDate(s, g)'
      BY <2>1, <3>3, <3>8 DEF UpToDate, topics
    <3> QED BY <2>1, <2>3, <3>6, <3>8, <3>9 DEF Fine
  <2> QED BY <2>1, <2>2, <2>3, OneSession DEF topics, InUse
<1>4. CASE HandlerExits(s) \/ HandlerJoins(s) \/ HandlerSubscribes(s)
  <2>1. UNCHANGED <<topics, listener, stage, writer, chans, got>>
    BY <1>4 DEF HandlerExits, HandlerJoins, HandlerSubscribes, session
  <2>2. \A t \in Session, h \in Game : Kept(t, h)
    <3>1. CASE HandlerSubscribes(s)
      <4>1. handler[s].event.game \in Game
        BY <3>1 DEF HandlerSubscribes, HandlerOK, Starts, Heard
      <4> QED BY <3>1, <4>1, Subscribed DEF HandlerSubscribes
    <3>2. CASE gameSubs' = gameSubs
      BY <3>2 DEF Kept
    <3> QED BY <1>4, <3>1, <3>2 DEF HandlerExits, HandlerJoins, locks
  <2>3. \E pc : \E m \in {NoEvent, Reply, handler[s].event} :
          handler' = [handler EXCEPT ![s] = [pc |-> pc, event |-> m]]
    BY <1>4 DEF HandlerExits, HandlerJoins, HandlerSubscribes, Handles
  <2>4. handler[s].event.kind # "game" /\ handler'[s].event.kind # "game"
    <3>1. handler[s].event.kind # "game"
      BY <1>4, NoEventFacts DEF HandlerExits, HandlerJoins, HandlerSubscribes, HandlerOK, Starts
    <3> QED BY <2>3, <3>1, NoEventFacts DEF HandlerOK
  <2>5. \A t \in Session : t # s => Rests(t)
    BY <2>1, <2>2, <2>3 DEF Rests, InUse, chans, HandlerOK
  <2>6. ASSUME NEW g \in Game, Fine(s, g) PROVE Fine(s, g)'
    <3>1. SameWay(s, g)
      BY <2>1, <2>4 DEF SameWay, AtWriter, InMsgCh, AtHandler, Num, InEventCh, AtListener, Told, topics, chans
    <3> QED BY <2>1, <2>2, <2>6, <3>1, Calm DEF topics
  <2> QED BY <2>1, <2>5, <2>6, OneSession DEF topics, InUse
<1> QED BY <1>1, <1>2, <1>3, <1>4 DEF Handling

\* The step of the reader, of Stop or of a ticker that takes and gives no event of a game.
LEMMA Answer ==
  ASSUME FanoutTypes, FlowInv, NEW s \in Session, NEW m \in Carried, m.kind # "game",
         UNCHANGED <<topics, listener, writer, handler, eventCh, stage, gameSubs, got>>,
         msgCh' = [msgCh EXCEPT ![s] = Append(@, m)]
  PROVE  FlowInv'
<1>1. ASSUME NEW g \in Game, Fine(s, g) PROVE Fine(s, g)'
  <2>1. msgCh[s] \in Seq(Carried) /\ msgCh'[s] = Append(msgCh[s], m) /\ Num(m, g) = {}
    BY DEF FanoutTypes, ChansOK, Num
  <2>2. Nums(msgCh'[s], g) = Nums(msgCh[s], g) /\ (Rising(msgCh[s], g) => Rising(msgCh'[s], g))
    BY <2>1, OtherAppended
  <2>3. SameWay(s, g)
    BY <2>2 DEF SameWay, AtWriter, InMsgCh, AtHandler, InEventCh, AtListener, Told, topics
  <2> QED BY <1>1, <2>3, Calm DEF Kept, topics
<1>2. \A t \in Session : t # s => Rests(t)
  BY DEF Rests, Kept, InUse, FanoutTypes, ChansOK
<1> QED BY <1>1, <1>2, OneSession DEF topics, InUse

LEMMA ReaderFlow ==
  ASSUME FanoutTypes, FlowInv, NEW s \in Session,
         \/ Reading(s) \/ Refused(s) \/ ReaderExits(s)
         \/ \E g \in Game : View(s, g) \/ Resume(s, g) \/ FindMatch(s, g)
  PROVE  FlowInv'
<1>1. CASE ReaderReplies(s)
  <2>1. reader[s].event \in Carried /\ reader[s].event.kind # "game"
    BY DEF FanoutTypes, ReaderOK, Carried
  <2> QED BY <1>1, <2>1, Answer DEF ReaderReplies, session, locks
<1>2. CASE ~ReaderReplies(s)
  <2>1. UNCHANGED <<topics, listener, writer, handler, chans, got>>
    BY <1>2
    DEF Reading, ViewAnswered, ResumeJoins, Subscribes, MatchSubscribes, Refused, ReaderExits, View, Resume,
        FindMatch
  <2>2. stage' = stage \/ StopOnce(s)
    BY <1>2
    DEF Reading, ViewAnswered, ResumeJoins, Subscribes, MatchSubscribes, Refused, ReaderExits, View, Resume,
        FindMatch, session
  <2>3. \A t \in Session : InUse(t)' => InUse(t)
    BY <2>2 DEF StopOnce, InUse, FanoutTypes, SessionOK
  <2>4. \A t \in Session, h \in Game : Kept(t, h)
    <3>1. CASE Subscribes(s)
      <4>1. reader[s].event.game \in Game /\ LocksOK
        BY <3>1 DEF Subscribes, FanoutTypes, ReaderOK
      <4> QED BY <3>1, <4>1, Subscribed DEF Subscribes
    <3>2. CASE gameSubs' = gameSubs
      BY <3>2 DEF Kept
    <3>3. Subscribes(s) \/ gameSubs' = gameSubs
      BY <1>2
      DEF Reading, ViewAnswered, ResumeJoins, MatchSubscribes, Refused, ReaderExits, View, Resume,
          FindMatch, locks
    <3> QED BY <3>1, <3>2, <3>3
  <2>5. \A t \in Session : Rests(t)
    BY <2>1, <2>3, <2>4 DEF Rests, chans
  <2> QED BY <2>1, <2>5, AllRest DEF AtListener, Told, topics
<1> QED BY <1>1, <1>2

-----------------------------------------------------------------------------
(* The writer and Stop *)

LEMMA WriterFlow ==
  ASSUME FanoutTypes, FlowInv, NEW s \in Session, Writing(s)
  PROVE  FlowInv' /\ (\A g \in Game : InUse(s) /\ got'[s][g] # got[s][g] =>
                                        got[s][g] \in {0, got'[s][g] - 1})
<1> USE DEF FanoutTypes
<1>0. ASSUME NEW g \in Game, UNCHANGED <<topics, listener, gameSubs, handler, eventCh>>
      PROVE  /\ AtHandler(s, g)' = AtHandler(s, g) /\ InEventCh(s, g)' = InEventCh(s, g)
             /\ AtListener(s, g)' = AtListener(s, g) /\ Told(g)' = Told(g)
             /\ gameSubs' = gameSubs /\ feed' = feed
  BY <1>0 DEF AtHandler, InEventCh, AtListener, Told, topics
<1>1. CASE TakeMsg(s)
  <2>1. PICK q \in Seq(Carried) : q = msgCh[s]
    BY DEF ChansOK
  <2> DEFINE e == Head(q)
  <2>2. /\ q # <<>> /\ e \in Carried /\ Tail(q) \in Seq(Carried)
        /\ writer[s].pc = "idle" /\ writer[s].event = NoEvent
        /\ msgCh' = [msgCh EXCEPT ![s] = Tail(q)]
        /\ writer' = [writer EXCEPT ![s] = [pc |-> "write", event |-> e]]
    BY <1>1, <2>1 DEF TakeMsg, Writes, WriterOK
  <2>3. UNCHANGED <<topics, listener, gameSubs, stage, handler, eventCh, got>>
    BY <1>1 DEF TakeMsg, locks, session
  <2>4. \A t \in Session : t # s => Rests(t)
    BY <2>2, <2>3 DEF Rests, Kept, InUse, ChansOK, WriterOK
  <2>5. ASSUME NEW g \in Game, Fine(s, g) PROVE Fine(s, g)'
    <3> DEFINE X == Num(e, g)
               Y == Nums(Tail(q), g)
    <3>1. Rising(q, g)
      BY <2>1, <2>5 DEF Fine, InLine
    <3>2. Nums(q, g) = X \cup Y /\ Rising(Tail(q), g) /\ Before(X, Y)
      BY <2>2, <3>1, NumsTail
    <3>3. msgCh'[s] = Tail(q) /\ writer'[s] = [pc |-> "write", event |-> e]
      BY <2>2 DEF ChansOK, WriterOK
    <3>4. InMsgCh(s, g) = X \cup Y /\ InMsgCh(s, g)' = Y /\ AtWriter(s, g)' = X
      BY <2>1, <3>2, <3>3 DEF InMsgCh, AtWriter
    <3>5. AtWriter(s, g) = {}
      BY <2>2, NoEventFacts DEF AtWriter, Num
    <3> HIDE DEF X, Y
    <3>6. Told(g) \in Int
      BY Numbers
    <3>7. Lined({}, X \cup Y, AtHandler(s, g), InEventCh(s, g), AtListener(s, g), Told(g))
      BY <2>5, <3>4, <3>5 DEF Fine, InLine
    <3>8. Lined(X, Y, AtHandler(s, g), InEventCh(s, g), AtListener(s, g), Told(g))
      BY <3>2, <3>6, <3>7, LinedMoves
    <3>9. Rising(msgCh'[s], g) /\ Rising(eventCh'[s], g)
      BY <2>3, <2>5, <3>2, <3>3 DEF Fine, InLine
    <3>10. InLine(s, g)'
      BY <1>0, <2>3, <3>4, <3>8, <3>9 DEF InLine
    <3>11. Underway(s, g)' = Underway(s, g)
      BY <1>0, <2>3, <3>4, <3>5 DEF Underway
    <3>12. Seen(s, g)' = Seen(s, g) /\ (NoGap(s, g) => NoGap(s, g)')
      BY <1>0, <2>3, <3>11, SameSeen
    <3>13. UpToDate(s, g) => UpToDate(s, g)'
      BY <1>0, <2>3, <3>12 DEF UpToDate
    <3> QED BY <2>2, <2>5, <3>10, <3>12, <3>13 DEF Fine
  <2> QED BY <2>3, <2>4, <2>5, OneSession DEF topics, InUse
<1>2. CASE Written(s)
  <2> DEFINE e == writer[s].event
  <2>1. /\ writer[s].pc = "write" /\ (e.kind = "game" => e \in Heard)
        /\ writer' = [writer EXCEPT ![s] = [pc |-> "idle", event |-> NoEvent]]
        /\ UNCHANGED <<topics, listener, gameSubs, stage, handler, chans>>
        /\ got' = IF e.kind = "game" THEN [got EXCEPT ![s][e.game] = e.n] ELSE got
    BY <1>2 DEF Written, Writes, locks, session, WriterOK
  <2>2. \A t \in Session : t # s => Rests(t)
    BY <2>1 DEF Rests, Kept, InUse, chans, WriterOK, GotOK
  <2>3. writer'[s] = [pc |-> "idle", event |-> NoEvent]
    BY <2>1 DEF WriterOK
  <2>4. ASSUME NEW g \in Game, Fine(s, g)
        PROVE  Fine(s, g)' /\ (got'[s][g] # got[s][g] => got[s][g] \in {0, got'[s][g] - 1})
    <3>1. AtWriter(s, g)' = {}
      BY <2>3, NoEventFacts DEF AtWriter, Num
    <3>2. InMsgCh(s, g)' = InMsgCh(s, g) /\ msgCh' = msgCh /\ eventCh' = eventCh
      BY <2>1 DEF InMsgCh, chans
    <3>3. Told(g) \in Int
      BY Numbers
    <3>4. Lined({}, InMsgCh(s, g), AtHandler(s, g), InEventCh(s, g), AtListener(s, g), Told(g))
      <4>1. Lined(AtWriter(s, g), InMsgCh(s, g), AtHandler(s, g), InEventCh(s, g), AtListener(s, g), Told(g))
        BY <2>4 DEF Fine, InLine
      <4> QED BY <3>3, <4>1, LinedMoves
    <3>5. InLine(s, g)'
      BY <1>0, <2>1, <2>4, <3>1, <3>2, <3>4 DEF Fine, InLine
    <3>6. NoGap(s, g) /\ UpToDate(s, g)
      BY <2>1, <2>4 DEF Fine
    <3>7. CASE AtWriter(s, g) = {}
      <4>1. got'[s][g] = got[s][g]
        BY <2>1, <3>7 DEF AtWriter, Num, GotOK, Heard
      <4>2. Underway(s, g)' = Underway(s, g)
        BY <1>0, <2>1, <3>1, <3>2, <3>7 DEF Underway, chans
      <4>3. Seen(s, g)' = Seen(s, g)
        BY <4>1, <4>2 DEF Seen
      <4>4. NoGap(s, g)' /\ UpToDate(s, g)'
        BY <1>0, <2>1, <3>2, <3>6, <4>1, <4>2, <4>3 DEF NoGap, UpToDate
      <4> QED BY <3>5, <4>1, <4>4 DEF Fine
    <3>8. CASE AtWriter(s, g) # {}
      <4> DEFINE n == e.n
                 U == Underway(s, g)
                 V == Underway(s, g)'
                 o == got[s][g]
      <4>1. e.kind = "game" /\ e.game = g /\ AtWriter(s, g) = {n} /\ n \in 0..End /\ got'[s][g] = n
        BY <2>1, <3>8 DEF AtWriter, Num, GotOK, Heard
      <4>2. U = {n} \cup V
        BY <1>0, <2>1, <3>1, <3>2, <4>1 DEF Underway, chans
      <4>3. U \subseteq 0..End /\ o \in 0..End /\ Told(g) \in 0..End /\ End \in Nat
        BY Numbers, Bounds
      <4>4. \A m \in V : n < m
        <5>1. Before(AtWriter(s, g), V)
          BY <1>0, <2>1, <2>4, <3>1, <3>2 DEF Fine, InLine, Lined, Underway, chans
        <5> QED BY <4>1, <5>1 DEF Before
      <4>5. \A m \in U : o < m /\ m <= Told(g)
        BY <2>4, <3>6 DEF Fine, InLine, Lined, NoGap, Underway
      <4>6. /\ Seen(s, g) = ({o} \ {0}) \cup U
            /\ Seen(s, g)' = ({n} \ {0}) \cup V
        BY <4>1 DEF Seen
      <4>7. \A a, b \in Seen(s, g) : a..b \subseteq Seen(s, g)
        BY <3>6 DEF NoGap
      <4>8. n \in U /\ n > 0 /\ o < n
        BY <4>1, <4>2, <4>3, <4>5
      <4> HIDE DEF n, U, V, o
      <4>9. o \in {0, n - 1}
        <5> SUFFICES ASSUME o # 0, o + 1 < n PROVE FALSE
          BY <4>1, <4>3, <4>8
        <5>1. o \in Seen(s, g) /\ n \in Seen(s, g) /\ o + 1 \in o..n
          BY <4>1, <4>3, <4>6, <4>8
        <5>2. o + 1 \in U
          BY <4>3, <4>6, <4>7, <5>1
        <5> QED BY <4>1, <4>2, <4>3, <4>4, <5>2
      <4>10. Seen(s, g)' = U
        BY <4>1, <4>2, <4>6, <4>8
      <4>11. \A a, b \in U : a..b \subseteq U
        BY <4>1, <4>3, <4>5, <4>6, <4>7
      <4>12. NoGap(s, g)'
        <5>1. got'[s][g] <= Told(g)' /\ Told(g)' = Told(g)
          BY <1>0, <2>1, <4>1, <4>5, <4>8 DEF chans, n
        <5> QED BY <4>1, <4>4, <4>10, <4>11, <5>1 DEF NoGap, n, V
      <4>13. UpToDate(s, g)'
        <5>1. Told(g) \in Seen(s, g) => Told(g) \in U
          BY <4>3, <4>5, <4>6, <4>8
        <5>2. Seen(s, g) # {}
          BY <4>6, <4>8
        <5> QED BY <1>0, <2>1, <3>6, <4>10, <5>1, <5>2 DEF UpToDate, chans
      <4> QED BY <3>5, <4>1, <4>9, <4>12, <4>13 DEF Fine, o, n
    <3> QED BY <3>7, <3>8
  <2>5. FlowInv'
    BY <2>1, <2>2, <2>4, OneSession DEF topics, InUse
  <2> QED BY <2>4, <2>5 DEF FlowInv
<1>3. CASE WriteFails(s) \/ WriterExits(s)
  <2>1. /\ writer' = [writer EXCEPT ![s] = [pc |-> "exit", event |-> NoEvent]]
        /\ UNCHANGED <<topics, listener, gameSubs, handler, chans, got>>
        /\ stage' = stage \/ StopOnce(s)
    BY <1>3 DEF WriteFails, WriterExits, Writes, locks, session
  <2>2. \A t \in Session : InUse(t)' => InUse(t)
    BY <2>1 DEF StopOnce, InUse, SessionOK
  <2>3. \A t \in Session : t # s => Rests(t)
    BY <2>1, <2>2 DEF Rests, Kept, chans, WriterOK
  <2>4. writer'[s] = [pc |-> "exit", event |-> NoEvent]
    BY <2>1 DEF WriterOK
  <2>5. ASSUME NEW g \in Game, Fine(s, g) PROVE Fine(s, g)'
    <3>1. AtWriter(s, g)' = {} /\ InMsgCh(s, g)' = InMsgCh(s, g) /\ msgCh' = msgCh /\ eventCh' = eventCh
      BY <2>1, <2>4, NoEventFacts DEF AtWriter, Num, InMsgCh, chans
    <3>2. Told(g) \in Int
      BY Numbers
    <3>3. Lined({}, InMsgCh(s, g), AtHandler(s, g), InEventCh(s, g), AtListener(s, g), Told(g))
      <4>1. Lined(AtWriter(s, g), InMsgCh(s, g), AtHandler(s, g), InEventCh(s, g), AtListener(s, g), Told(g))
        BY <2>5 DEF Fine, InLine
      <4> QED BY <3>2, <4>1, LinedMoves
    <3>4. InLine(s, g)'
      BY <1>0, <2>1, <2>5, <3>1, <3>3 DEF Fine, InLine
    <3> QED BY <2>4, <3>4 DEF Fine
  <2> QED BY <2>1, <2>2, <2>3, <2>5, OneSession DEF topics
<1> QED BY <1>1, <1>2, <1>3 DEF Writing

LEMMA StopFlow ==
  ASSUME FanoutTypes, FlowInv, NEW s \in Session, Overdue(s) \/ Stopping(s)
  PROVE  FlowInv'
<1> USE DEF FanoutTypes
<1>1. CASE Overdue(s) \/ StopReads(s) \/ StopLooksUp(s) \/ StopCloses(s)
  <2>1. UNCHANGED <<topics, listener, gameSubs, handler, writer, chans, got>>
    BY <1>1 DEF Overdue, StopReads, StopLooksUp, StopCloses, locks, threads
  <2>2. \A t \in Session : InUse(t)' => InUse(t)
    BY <1>1 DEF Overdue, StopReads, StopLooksUp, StopCloses, StopOnce, InUse, SessionOK
  <2>3. \A t \in Session : Rests(t)
    BY <2>1, <2>2 DEF Rests, Kept, chans
  <2> QED BY <2>1, <2>3, AllRest DEF AtListener, Told, topics
<1>2. ASSUME NEW h \in Game, StopUnsubscribes(s, h) PROVE FlowInv'
  <2>1. /\ UNCHANGED <<topics, listener, stage, handler, writer, chans, got>>
        /\ gameSubs' = [gameSubs EXCEPT ![h] = @ \ {s}]
    BY <1>2 DEF StopUnsubscribes, threads
  <2>2. \A t \in Session : t # s => Rests(t)
    BY <2>1 DEF Rests, Kept, InUse, chans, LocksOK
  <2> QED BY <1>2, <2>1, <2>2, OneSession DEF StopUnsubscribes, InUse, topics
<1>3. CASE StopEnds(s)
  <2>1. UNCHANGED <<topics, listener, gameSubs, threads, got>>
    BY <1>3 DEF StopEnds, locks
  <2>2. \A t \in Session : t # s => Rests(t)
    BY <1>3, <2>1 DEF StopEnds, Rests, Kept, InUse, threads, SessionOK, ChansOK
  <2> QED BY <1>3, <2>1, <2>2, OneSession DEF StopEnds, InUse, topics
<1> QED BY <1>1, <1>2, <1>3 DEF Stopping

-----------------------------------------------------------------------------
(* The listener, the broadcast routine and the tickers *)

LEMMA ListenFlow ==
  ASSUME FanoutTypes, FlowInv, NEW h \in Game, ListenGame(h) \/ ListenChat(h) \/ ListenCreated(h)
  PROVE  FlowInv'
<1> USE DEF FanoutTypes
<1>1. listener.pc = "idle" /\ listener.left = {}
  BY DEF ListenGame, ListenChat, ListenCreated, ListenerOK
<1>2. /\ UNCHANGED <<session, threads, chans, got, gameSubs>> /\ listener'.left = {}
      /\ \/ /\ feed' = [feed EXCEPT ![h] = @ + 1] /\ feed[h] < End
            /\ listener'.pc = "lookup" /\ listener'.event.kind = "game" /\ listener'.event.game = h
         \/ feed' = feed /\ listener'.event.kind # "game"
  <2>1. CASE ListenGame(h)
    <3>1. PICK m : listener' = [listener EXCEPT !.pc = "lookup", !.event = Event("game", h, m)]
      BY <2>1 DEF ListenGame
    <3>2. /\ listener'.pc = "lookup" /\ listener'.left = listener.left
          /\ listener'.event = Event("game", h, m)
      BY <3>1 DEF ListenerOK
    <3> QED BY <1>1, <2>1, <3>2 DEF ListenGame, locks, Event
  <2>2. CASE ListenChat(h)
    <3>1. listener'.left = listener.left /\ listener'.event = Event("chat", h, 0)
      BY <2>2 DEF ListenChat, ListenerOK
    <3> QED BY <1>1, <2>2, <3>1 DEF ListenChat, locks, Event
  <2>3. CASE ListenCreated(h)
    <3>1. listener'.left = listener.left /\ listener'.event = Event("created", h, 0)
      BY <2>3 DEF ListenCreated, ListenerOK, Created
    <3> QED BY <1>1, <2>3, <3>1 DEF ListenCreated, locks, topics, Event
  <2> QED BY <2>1, <2>2, <2>3
<1>3. ASSUME NEW s \in Session, NEW g \in Game
      PROVE  AtListener(s, g)' = AtListener(s, g) /\ Told(g)' = Told(g)
  <2>1. AtListener(s, g)' = {} /\ AtListener(s, g) = {}
    BY <1>1, <1>2 DEF AtListener
  <2>2. Told(g) = feed[g] /\ feed[g] \in Nat
    BY <1>1 DEF Told, TopicsOK
  <2>3. Told(g)' = feed[g]
    <3>1. CASE g = h /\ feed' = [feed EXCEPT ![h] = @ + 1] /\ listener'.event.kind = "game"
                /\ listener'.event.game = h /\ listener'.pc = "lookup"
      <4>1. feed'[g] = feed[g] + 1
        BY <3>1 DEF TopicsOK
      <4>2. Num(listener'.event, g) # {}
        BY <3>1 DEF Num
      <4> QED BY <2>2, <3>1, <4>1, <4>2 DEF Told
    <3>2. CASE g # h /\ feed' = [feed EXCEPT ![h] = @ + 1] /\ listener'.event.game = h
      <4>1. feed'[g] = feed[g]
        BY <3>2 DEF TopicsOK
      <4>2. Num(listener'.event, g) = {}
        BY <3>2 DEF Num
      <4> QED BY <4>1, <4>2 DEF Told
    <3>3. CASE feed' = feed /\ listener'.event.kind # "game"
      BY <3>3 DEF Told, Num
    <3> QED BY <1>2, <3>1, <3>2, <3>3
  <2> QED BY <2>1, <2>2, <2>3
<1>4. \A s \in Session : Rests(s)
  BY <1>2 DEF Rests, Kept, InUse, session, threads, chans
<1>5. \A g \in Game : feed[g] = End => feed'[g] = End
  BY <1>2, Bounds DEF TopicsOK
<1> QED BY <1>3, <1>4, <1>5, AllRest

LEMMA LookupFlow ==
  ASSUME FanoutTypes, FlowInv, Lookup
  PROVE  FlowInv'
<1> USE DEF FanoutTypes
<1> DEFINE h == listener.event.game
<1>1. /\ listener.pc = "lookup" /\ listener.left = {} /\ h \in Game /\ listener.event \in Heard
      /\ UNCHANGED <<topics, session, threads, chans, got, gameSubs>>
      /\ listener.event.kind = "game" => listener.event.n = feed[h] /\ feed[h] > 0
  BY DEF Lookup, ListenerOK, Heard, locks
<1>2. /\ listener'.pc # "lookup"
      /\ \/ listener' = [listener EXCEPT !.pc = "send", !.holds = h, !.left = gameSubs[h]]
         \/ listener' = Waiting /\ gameSubs[h] = {}
  BY DEF Lookup, ListenerOK, LocksOK, Waiting, Heard
<1>3. \A s \in Session, g \in Game :
        /\ AtListener(s, g) = {}
        /\ AtListener(s, g)' = IF s \in gameSubs[h] THEN Num(listener.event, g) ELSE {}
  <2>1. CASE listener' = [listener EXCEPT !.pc = "send", !.holds = h, !.left = gameSubs[h]]
    <3>1. listener'.event = listener.event /\ listener'.left = gameSubs[h]
      BY <2>1 DEF ListenerOK
    <3> QED BY <1>1, <3>1 DEF AtListener
  <2>2. CASE listener' = Waiting /\ gameSubs[h] = {}
    BY <1>1, <2>2 DEF AtListener, Waiting
  <2> QED BY <1>2, <2>1, <2>2
<1>4. \A g \in Game : Told(g)' = feed[g]
  BY <1>1, <1>2 DEF Told, topics
<1> SUFFICES ASSUME NEW s \in Session, NEW g \in Game, InUse(s)' PROVE Fine(s, g)'
  BY DEF FlowInv
<1>5. Rests(s) /\ Fine(s, g)
  BY <1>1 DEF FlowInv, Rests, Kept, InUse, session, threads, chans
<1>6. /\ AtWriter(s, g)' = AtWriter(s, g) /\ InMsgCh(s, g)' = InMsgCh(s, g)
      /\ AtHandler(s, g)' = AtHandler(s, g) /\ InEventCh(s, g)' = InEventCh(s, g)
  BY <1>5 DEF Rests, AtWriter, InMsgCh, AtHandler, InEventCh
<1>7. CASE Num(listener.event, g) = {}
  <2>1. AtListener(s, g)' = AtListener(s, g) /\ Told(g)' = Told(g)
    BY <1>3, <1>4, <1>7 DEF Told
  <2> QED BY <1>1, <1>5, <2>1, Resting DEF topics
<1>8. CASE Num(listener.event, g) # {}
  <2> DEFINE n == feed[g]
             U == Underway(s, g)
  <2>1. g = h /\ Num(listener.event, g) = {n} /\ n > 0 /\ Told(g) = n - 1
    BY <1>1, <1>8 DEF Num, Told
  <2>2. U \subseteq 0..End /\ n \in 0..End /\ got[s][g] \in 0..End /\ End \in Nat
    BY Numbers, Bounds
  <2>3. \A m \in U : m <= n - 1
    BY <1>5, <2>1 DEF Fine, InLine, Lined, Underway
  <2>4. U = AtWriter(s, g) \cup InMsgCh(s, g) \cup AtHandler(s, g) \cup InEventCh(s, g)
    BY <1>3 DEF Underway
  <2>5. CASE s \notin gameSubs[g]
    <3>1. AtListener(s, g)' = {} /\ AtListener(s, g) = {}
      BY <1>3, <2>1, <2>5
    <3>2. Underway(s, g)' = U /\ Seen(s, g)' = Seen(s, g)
      BY <1>5, <1>6, <3>1 DEF Underway, Rests, Seen
    <3>3. Lined(AtWriter(s, g), InMsgCh(s, g), AtHandler(s, g), InEventCh(s, g), {}, n)
      BY <1>5, <2>2, <2>3, <2>4, <3>1 DEF Fine, InLine, Lined
    <3>4. InLine(s, g)'
      BY <1>4, <1>5, <1>6, <3>1, <3>3 DEF InLine, Fine, Rests
    <3>5. NoGap(s, g) => NoGap(s, g)'
      BY <1>4, <1>5, <2>1, <2>2, <3>2 DEF NoGap, Rests
    <3>6. UpToDate(s, g) => UpToDate(s, g)'
      BY <1>4, <2>1, <2>2, <2>5, <3>2 DEF UpToDate
    <3> QED BY <1>5, <3>4, <3>5, <3>6 DEF Fine, Rests
  <2>6. CASE s \in gameSubs[g]
    <3>1. AtListener(s, g)' = {n}
      BY <1>3, <2>1, <2>6
    <3>2. Underway(s, g)' = U \cup {n} /\ Seen(s, g)' = Seen(s, g) \cup {n}
      BY <1>5, <1>6, <2>4, <3>1 DEF Underway, Rests, Seen
    <3>3. Lined(AtWriter(s, g), InMsgCh(s, g), AtHandler(s, g), InEventCh(s, g), {n}, n)
      <4>1. Lined(AtWriter(s, g), InMsgCh(s, g), AtHandler(s, g), InEventCh(s, g), {}, n - 1)
        BY <1>3, <1>5, <2>1 DEF Fine, InLine
      <4> QED BY <2>2, <2>3, <2>4, <4>1 DEF Lined, Before
    <3>4. InLine(s, g)'
      BY <1>4, <1>5, <1>6, <3>1, <3>3 DEF InLine, Fine, Rests
    <3>5. ASSUME NoGap(s, g), UpToDate(s, g) PROVE NoGap(s, g)' /\ UpToDate(s, g)'
      <4> DEFINE S == Seen(s, g)
                 o == got[s][g]
      <4>1. S = {} \/ n - 1 \in S
        BY <2>1, <2>2, <3>5 DEF UpToDate
      <4>2. S = ({o} \ {0}) \cup U /\ \A a, b \in S : a..b \subseteq S
        BY <3>5 DEF Seen, NoGap
      <4>3. \A m \in U : o < m
        BY <3>5 DEF NoGap
      <4>4. o <= n - 1
        BY <2>1, <3>5 DEF NoGap
      <4>5. got'[s][g] = o /\ Told(g)' = n
        BY <1>4, <1>5 DEF Rests
      <4> HIDE DEF S, o, U, n
      <4>6. \A m \in S : m \in 0..End /\ m <= n - 1
        BY <2>2, <2>3, <4>2, <4>4 DEF o, n, U
      <4>7. \A a, b \in S \cup {n} : a..b \subseteq S \cup {n}
        <5> SUFFICES ASSUME NEW a \in S \cup {n}, NEW b \in S \cup {n}, NEW x \in a..b, x # n
                     PROVE  x \in S
          OBVIOUS
        <5>1. n \in Nat /\ a \in Nat /\ a <= n /\ b \in Nat /\ b <= n
          BY <2>2, <4>6 DEF n
        <5>2. a \in S /\ x <= n - 1 /\ x \in Int /\ a <= x
          BY <5>1
        <5>3. n - 1 \in S /\ x \in a..(n - 1)
          BY <4>1, <5>1, <5>2
        <5> QED BY <4>2, <5>2, <5>3
      <4>8. NoGap(s, g)'
        <5>0. o \in Nat /\ n \in Nat
          BY <2>2 DEF o, n
        <5>1. \A m \in U \cup {n} : o < m
          BY <4>3, <4>4, <5>0
        <5>2. o <= n
          BY <4>4, <5>0
        <5> QED BY <3>2, <4>5, <4>7, <5>1, <5>2 DEF NoGap, S, U
      <4>9. UpToDate(s, g)'
        BY <1>1, <2>6, <3>2, <4>5 DEF UpToDate
      <4> QED BY <4>8, <4>9
    <3> QED BY <1>5, <3>4, <3>5 DEF Fine, Rests
  <2> QED BY <2>5, <2>6
<1> QED BY <1>7, <1>8

\* The rounds of a created game begin and end: no event of a game moves.
LEMMA RoundFlow ==
  ASSUME FanoutTypes, FlowInv, MatchRound \/ Keep
  PROVE  FlowInv'
<1>1. /\ listener.left = {} /\ listener.event.kind # "game" /\ listener.pc # "lookup"
      /\ UNCHANGED <<topics, session, threads, chans, got, gameSubs>>
  BY DEF FanoutTypes, ListenerOK, MatchRound, Keep, locks
<1>2. listener'.pc # "lookup" /\ listener'.event.kind # "game"
  <2>1. CASE MatchRound
    BY <1>1, <2>1 DEF MatchRound, FanoutTypes, ListenerOK
  <2>2. CASE Keep
    BY <2>2, NoEventFacts DEF Keep, Waiting
  <2> QED BY <2>1, <2>2
<1>3. \A s \in Session : Rests(s)
  BY <1>1 DEF Rests, Kept, InUse, session, threads, chans
<1>4. \A s \in Session, g \in Game : AtListener(s, g)' = AtListener(s, g) /\ Told(g)' = Told(g)
  BY <1>1, <1>2 DEF AtListener, Told, Num, topics
<1> QED BY <1>1, <1>3, <1>4, AllRest DEF topics

LEMMA ConsumeFlow ==
  ASSUME FanoutTypes, FlowInv, NEW s \in Session, Consume(s)
  PROVE  FlowInv'
<1> USE DEF FanoutTypes
<1> DEFINE e == listener.event
<1>1. /\ listener.pc = "send" /\ s \in listener.left /\ e \in Heard
      /\ UNCHANGED <<topics, gameSubs, session, threads, msgCh, got>>
      /\ stage[s] = "gone" \/ eventCh' = [eventCh EXCEPT ![s] = Append(@, e)]
      /\ stage[s] # "gone" \/ eventCh' = eventCh
  BY DEF Consume, Deliver, ListenerOK, locks
<1>2. /\ listener'.pc # "lookup" /\ s \notin listener'.left
      /\ \A t \in Session : t # s =>
           \/ listener'.event = e /\ (t \in listener'.left <=> t \in listener.left)
           \/ t \notin listener'.left /\ t \notin listener.left
  <2>1. CASE listener.left = {s}
    <3>1. listener' = Waiting \/ listener' = [listener EXCEPT !.pc = "keep", !.left = {}]
      BY <2>1 DEF Consume, Served
    <3>2. CASE listener' = Waiting
      BY <2>1, <3>2 DEF Waiting
    <3>3. CASE listener' = [listener EXCEPT !.pc = "keep", !.left = {}]
      <4>1. listener'.pc = "keep" /\ listener'.left = {}
        BY <3>3 DEF ListenerOK
      <4> QED BY <2>1, <4>1
    <3> QED BY <3>1, <3>2, <3>3
  <2>2. CASE listener.left # {s}
    BY <1>1, <2>2 DEF Consume, Served, ListenerOK
  <2> QED BY <2>1, <2>2
<1>3. \A g \in Game : Told(g)' = Told(g)
  BY <1>1, <1>2 DEF Told, topics
<1> SUFFICES ASSUME NEW t \in Session, NEW g \in Game, InUse(t)' PROVE Fine(t, g)'
  BY DEF FlowInv
<1>4. Fine(t, g) /\ stage[t] # "gone"
  BY <1>1 DEF FlowInv, InUse, session
<1>5. CASE t # s
  <2>1. Rests(t)
    BY <1>1, <1>5 DEF Rests, Kept, InUse, session, threads, ChansOK
  <2>2. AtListener(t, g)' = AtListener(t, g)
    BY <1>2, <1>5 DEF AtListener
  <2> QED BY <1>1, <1>3, <2>1, <2>2, Resting DEF topics
<1>6. CASE t = s
  <2>1. eventCh[s] \in Seq(Heard) /\ eventCh'[s] = Append(eventCh[s], e)
    BY <1>1, <1>4, <1>6 DEF ChansOK
  <2>2. AtListener(s, g) = Num(e, g) /\ AtListener(s, g)' = {}
    BY <1>1, <1>2 DEF AtListener
  <2>3. InEventCh(s, g)' = InEventCh(s, g) \cup AtListener(s, g)
    <3>1. PICK q \in Seq(Heard) : q = eventCh[s]
      BY <2>1
    <3>2. Nums(Append(q, e), g) = Nums(q, g) \cup Num(e, g)
      BY NumsAppend
    <3> QED BY <2>1, <2>2, <3>1, <3>2 DEF InEventCh
  <2>4. /\ AtWriter(s, g)' = AtWriter(s, g) /\ InMsgCh(s, g)' = InMsgCh(s, g)
        /\ AtHandler(s, g)' = AtHandler(s, g)
    BY <1>1 DEF AtWriter, InMsgCh, AtHandler, threads
  <2>5. Rising(eventCh'[s], g)
    <3>1. Before(Nums(eventCh[s], g), Num(e, g))
      BY <1>4, <1>6, <2>2 DEF Fine, InLine, Lined, Before, InEventCh
    <3> QED BY <1>4, <1>6, <2>1, <3>1, RisingAppend DEF Fine, InLine
  <2>6. InLine(s, g)'
    <3>1. Told(g) \in Int
      BY Numbers
    <3>2. Lined(AtWriter(s, g), InMsgCh(s, g), AtHandler(s, g), InEventCh(s, g), AtListener(s, g), Told(g))
      BY <1>4, <1>6 DEF Fine, InLine
    <3>3. Lined(AtWriter(s, g), InMsgCh(s, g), AtHandler(s, g), InEventCh(s, g) \cup AtListener(s, g), {}, Told(g))
      BY <3>1, <3>2, LinedMoves
    <3>4. Rising(msgCh'[s], g)
      BY <1>1, <1>4, <1>6 DEF Fine, InLine
    <3> QED BY <1>3, <2>2, <2>3, <2>4, <2>5, <3>3, <3>4 DEF InLine
  <2>7. Underway(s, g)' = Underway(s, g)
    BY <2>2, <2>3, <2>4 DEF Underway
  <2>8. Seen(s, g)' = Seen(s, g) /\ (NoGap(s, g) => NoGap(s, g)')
    BY <1>1, <1>3, <2>7, SameSeen
  <2>9. UpToDate(s, g) => UpToDate(s, g)'
    BY <1>1, <1>3, <2>8 DEF UpToDate, topics
  <2> QED BY <1>1, <1>4, <1>6, <2>6, <2>8, <2>9 DEF Fine, threads
<1> QED BY <1>5, <1>6

LEMMA CastingFlow ==
  ASSUME FanoutTypes, FlowInv, Broadcast \/ Expire \/ \E s \in Session : BroadcastSends(s)
  PROVE  FlowInv'
<1>1. CASE Broadcast \/ Expire
  <2>1. UNCHANGED <<topics, listener, session, threads, chans, got, gameSubs>>
    BY <1>1 DEF Broadcast, Expire, locks
  <2>2. \A s \in Session : Rests(s)
    BY <2>1 DEF Rests, Kept, InUse, session, threads, chans
  <2> QED BY <2>1, <2>2, AllRest DEF AtListener, Told, topics
<1>2. ASSUME NEW s \in Session, BroadcastSends(s) PROVE FlowInv'
  <2> DEFINE e == Created(match[s])
  <2>1. /\ UNCHANGED <<topics, listener, session, threads, msgCh, got, gameSubs>>
        /\ eventCh' = eventCh \/ eventCh' = [eventCh EXCEPT ![s] = Append(@, e)]
    BY <1>2 DEF BroadcastSends, Deliver, locks
  <2>2. \A t \in Session : t # s => Rests(t)
    BY <2>1 DEF Rests, Kept, InUse, session, threads, FanoutTypes, ChansOK
  <2>3. ASSUME NEW g \in Game, Fine(s, g) PROVE Fine(s, g)'
    <3>1. eventCh[s] \in Seq(Heard) /\ Num(e, g) = {}
      BY DEF FanoutTypes, ChansOK, Num, Created, Event
    <3>2. eventCh'[s] = eventCh[s] \/ eventCh'[s] = Append(eventCh[s], e)
      BY <2>1 DEF FanoutTypes, ChansOK
    <3>3. Nums(eventCh'[s], g) = Nums(eventCh[s], g) /\ (Rising(eventCh[s], g) => Rising(eventCh'[s], g))
      BY <3>1, <3>2, OtherAppended
    <3>4. SameWay(s, g)
      BY <2>1, <3>3 DEF SameWay, AtWriter, InMsgCh, AtHandler, InEventCh, AtListener, Told, topics, threads
    <3> QED BY <2>1, <2>3, <3>4, Calm DEF Kept, topics, threads
  <2> QED BY <2>1, <2>2, <2>3, OneSession DEF topics, InUse, session
<1> QED BY <1>1, <1>2

LEMMA TickerFlow ==
  ASSUME FanoutTypes, FlowInv, Ticking \/ Ping \/ CleanTick
  PROVE  FlowInv'
<1>1. CASE Ping \/ \E g \in Game : PingPublishes(g)
  <2>1. UNCHANGED <<topics, listener, session, threads, chans, got, gameSubs>>
    BY <1>1 DEF Ping, PingPublishes, locks
  <2>2. \A s \in Session : Rests(s)
    BY <2>1 DEF Rests, Kept, InUse, session, threads, chans
  <2> QED BY <2>1, <2>2, AllRest DEF AtListener, Told, topics
<1>2. ASSUME NEW s \in Session, PingSends(s) PROVE FlowInv'
  <2>1. UNCHANGED <<topics, listener, gameSubs, session, threads, eventCh, got>>
    BY <1>2 DEF PingSends, locks
  <2>2. CASE msgCh' = msgCh
    <3>1. \A t \in Session : Rests(t)
      BY <2>1, <2>2 DEF Rests, Kept, InUse, session, threads
    <3> QED BY <2>1, <3>1, AllRest DEF AtListener, Told, topics
  <2>3. CASE msgCh' = [msgCh EXCEPT ![s] = Append(@, Reply)]
    BY <2>1, <2>3, NoEventFacts, Answer DEF session, threads
  <2> QED BY <1>2, <2>2, <2>3 DEF PingSends
<1>3. CASE CleanTick
  <2>1. /\ UNCHANGED <<topics, session, threads, chans, got>>
        /\ listener'.pc = listener.pc /\ listener'.event = listener.event /\ listener'.left = listener.left
        /\ gameSubs' = [g \in Game |-> IF g \in ended THEN {} ELSE gameSubs[g]]
    BY <1>3 DEF CleanTick, FanoutTypes, ListenerOK
  <2>2. \A s \in Session : Rests(s)
    BY <2>1 DEF Rests, Kept, InUse, session, threads, chans, FanoutTypes, EndedOK
  <2> QED BY <2>1, <2>2, AllRest DEF AtListener, Told, topics
<1> QED BY <1>1, <1>2, <1>3 DEF Ticking

LEMMA NextFlow == FanoutTypes /\ FlowInv /\ [Next]_vars => FlowInv'
<1> SUFFICES ASSUME FanoutTypes, FlowInv, [Next]_vars PROVE FlowInv'
  OBVIOUS
<1>1. CASE UNCHANGED vars
  <2>1. UNCHANGED <<topics, listener, session, threads, chans, got, gameSubs>>
    BY <1>1 DEF vars, locks
  <2>2. \A s \in Session : Rests(s)
    BY <2>1 DEF Rests, Kept, InUse, session, threads, chans
  <2> QED BY <2>1, <2>2, AllRest DEF AtListener, Told, topics
<1>2. CASE Next
  BY <1>2, ListenFlow, LookupFlow, RoundFlow, ConsumeFlow, CastingFlow, HandlerFlow, ReaderFlow, WriterFlow,
     StopFlow, TickerFlow
  DEF Next, Listening, Casting
<1> QED BY <1>1, <1>2

\* Until Stop begins to unsubscribe its session, a client is told of the events of a
\* game one after the other, without a gap from the first he sees: nothing is dropped,
\* overtaken or repeated on the way from the listener through the event handler and
\* the two channels to the writer, however often reader and handler subscribe him.
THEOREM EventsInOrderHolds == Spec => EventsInOrder
<1> DEFINE Step == \A s \in Session, g \in Game :
                     InUse(s) /\ got'[s][g] # got[s][g] => got[s][g] \in {0, got'[s][g] - 1}
<1>1. FanoutTypes /\ FlowInv /\ [Next]_vars => [Step]_vars
  <2> SUFFICES ASSUME FanoutTypes, FlowInv, Next, NEW s \in Session, NEW g \in Game,
                      InUse(s), got'[s][g] # got[s][g]
               PROVE  got[s][g] \in {0, got'[s][g] - 1}
    BY DEF vars
  <2>1. PICK t \in Session : Written(t)
    <3>1. ASSUME NEW t \in Session, Handling(t) PROVE got' = got
      BY <3>1 DEF Handling, TakeEvent, HandlerJoins, HandlerSubscribes, HandlerLooksUp, HandlerUnsubscribes,
                  HandlerSends, HandlerExits
    <3>2. ASSUME NEW t \in Session, NEW h \in Game,
                 \/ Reading(t) \/ Refused(t) \/ ReaderExits(t) \/ View(t, h) \/ Resume(t, h) \/ FindMatch(t, h)
          PROVE  got' = got
      BY <3>2 DEF Reading, ViewAnswered, ResumeJoins, Subscribes, MatchSubscribes, ReaderReplies, Refused,
                  ReaderExits, View, Resume, FindMatch
    <3>3. ASSUME NEW t \in Session, Stopping(t) \/ Overdue(t) PROVE got' = got
      BY <3>3 DEF Stopping, StopReads, StopLooksUp, StopUnsubscribes, StopCloses, StopEnds, Overdue
    <3>4. ASSUME Listening \/ Broadcast \/ Casting \/ Expire \/ Ticking \/ Ping \/ CleanTick PROVE got' = got
      BY <3>4 DEF Listening, Lookup, MatchRound, Keep, Consume, Broadcast, Casting, BroadcastSends, Expire,
                  Ticking, PingPublishes, PingSends, Ping, CleanTick
    <3>5. ASSUME NEW h \in Game, ListenGame(h) \/ ListenChat(h) \/ ListenCreated(h) PROVE got' = got
      BY <3>5 DEF ListenGame, ListenChat, ListenCreated
    <3>6. ASSUME NEW t \in Session, TakeMsg(t) \/ WriteFails(t) \/ WriterExits(t) PROVE got' = got
      BY <3>6 DEF TakeMsg, WriteFails, WriterExits
    <3>7. ASSUME NEW t \in Session, Reading(t) \/ Refused(t) \/ ReaderExits(t) PROVE got' = got
      BY <3>2, <3>7
    <3> QED BY <3>1, <3>2, <3>3, <3>4, <3>5, <3>6, <3>7 DEF Next, Writing
  <2>2. t = s
    BY <2>1 DEF Written, FanoutTypes, GotOK
  <2> QED BY <2>1, <2>2, WriterFlow DEF Writing
<1> QED BY <1>1, TypesInit, FlowInit, NextTypes, NextFlow, PTL DEF Spec, EventsInOrder

-----------------------------------------------------------------------------
(* Whose creation a game.created announces *)

\* The created games in a channel are the one the session has asked for.
Fits(q, m) == \A i \in 1..Len(q) : q[i].kind = "created" => q[i].game = m

\* A session that has asked for a match plays no other game, and resumes none.
MatchOf(s) ==
  /\ match[s] # NoGame => play[s] \in {NoGame, match[s]}
  /\ Fits(eventCh[s], match[s])
  /\ handler[s].pc \in Starts => handler[s].event.game = match[s]
  /\ reader[s].pc = "join" => match[s] = NoGame /\ play[s] \in {NoGame, reader[s].event.game}
Addressed == \A s \in listener.left : listener.event.kind = "created" => listener.event.game = match[s]
MatchInv == Addressed /\ \A s \in Session : MatchOf(s)

LEMMA FitsAppend ==
  ASSUME NEW q \in Seq(Heard), NEW e \in Heard, NEW m, Fits(q, m), e.kind = "created" => e.game = m
  PROVE  Fits(Append(q, e), m)
BY DEF Fits

LEMMA FitsTail ==
  ASSUME NEW q \in Seq(Heard), NEW m, Fits(q, m), q # <<>>
  PROVE  /\ Fits(Tail(q), m) /\ Head(q) \in Heard
         /\ Head(q).kind = "created" => Head(q).game = m
<1>1. Head(q) = q[1] /\ 1 \in 1..Len(q) /\ q[1] \in Heard
  OBVIOUS
<1>2. Fits(Tail(q), m)
  <2> SUFFICES ASSUME NEW i \in 1..Len(Tail(q)), Tail(q)[i].kind = "created" PROVE Tail(q)[i].game = m
    BY DEF Fits
  <2>1. i + 1 \in 1..Len(q) /\ Tail(q)[i] = q[i + 1]
    OBVIOUS
  <2> QED BY <2>1 DEF Fits
<1> QED BY <1>1, <1>2 DEF Fits

\* A session that has asked for none has none on the way.
LEMMA FitsNone ==
  ASSUME NEW q \in Seq(Heard), NEW m, Fits(q, NoGame)
  PROVE  Fits(q, m)
<1> SUFFICES ASSUME NEW i \in 1..Len(q), q[i].kind = "created" PROVE FALSE
  BY DEF Fits
<1>1. q[i] \in Heard
  OBVIOUS
<1>2. q[i].game \in Game
  BY <1>1 DEF Heard
<1> QED BY <1>2, FanoutAssumption DEF Fits

LEMMA MatchInit == Init => MatchInv
BY DEF Init, MatchInv, Addressed, MatchOf, Fits, AtRest, Waiting, Starts

\* Nothing of the match of session s changes.
SameMatch(s) ==
  /\ match'[s] = match[s] /\ play'[s] = play[s] /\ eventCh'[s] = eventCh[s]
  /\ handler'[s] = handler[s] /\ reader'[s] = reader[s]

LEMMA SameMatchKeeps ==
  ASSUME NEW s \in Session, MatchOf(s), SameMatch(s)
  PROVE  MatchOf(s)'
BY DEF MatchOf, SameMatch

LEMMA DeliverMatch ==
  ASSUME ChansOK, \A t \in Session : MatchOf(t), NEW s \in Session, NEW e \in Heard, Deliver(s, e),
         e.kind = "created" => e.game = match[s], UNCHANGED <<match, play, handler, reader>>
  PROVE  \A t \in Session : MatchOf(t)'
<1> SUFFICES ASSUME NEW t \in Session PROVE Fits(eventCh'[t], match[t])
  BY DEF MatchOf
<1>1. eventCh'[t] = eventCh[t] \/ (t = s /\ eventCh'[t] = Append(eventCh[t], e))
  BY DEF Deliver, ChansOK
<1>2. eventCh[t] \in Seq(Heard) /\ Fits(eventCh[t], match[t])
  BY DEF ChansOK, MatchOf
<1>3. PICK q \in Seq(Heard) : q = eventCh[t]
  BY <1>2
<1> QED BY <1>1, <1>2, <1>3, FitsAppend

LEMMA HandlerMatch ==
  ASSUME FanoutTypes, \A t \in Session : MatchOf(t), NEW s \in Session, Handling(s)
  PROVE  \A t \in Session : MatchOf(t)'
<1> USE DEF FanoutTypes
<1>1. match' = match /\ reader' = reader
  BY DEF Handling, TakeEvent, HandlerJoins, HandlerSubscribes, HandlerLooksUp, HandlerUnsubscribes,
         HandlerSends, HandlerExits, matches
<1>2. ASSUME NEW t \in Session, t # s PROVE SameMatch(t)
  <2>1. handler'[t] = handler[t]
    BY <1>2 DEF Handling, TakeEvent, HandlerJoins, HandlerSubscribes, HandlerLooksUp, HandlerUnsubscribes,
                HandlerSends, HandlerExits, Handles, HandlerOK
  <2>2. play'[t] = play[t]
    <3>1. CASE TakeEvent(s)
      BY <1>2, <3>1 DEF TakeEvent, MatchesOK
    <3>2. CASE HandlerJoins(s)
      BY <1>2, <3>2 DEF HandlerJoins, MatchesOK
    <3>3. CASE ~TakeEvent(s) /\ ~HandlerJoins(s)
      BY <3>3 DEF Handling, HandlerSubscribes, HandlerLooksUp, HandlerUnsubscribes, HandlerSends, HandlerExits,
                  matches
    <3> QED BY <3>1, <3>2, <3>3
  <2>3. eventCh'[t] = eventCh[t]
    BY <1>2 DEF Handling, TakeEvent, HandlerJoins, HandlerSubscribes, HandlerLooksUp, HandlerUnsubscribes,
                HandlerSends, HandlerExits, chans, ChansOK
  <2> QED BY <1>1, <2>1, <2>2, <2>3 DEF SameMatch
<1>3. MatchOf(s)'
  <2>1. CASE TakeEvent(s)
    <3> DEFINE q == eventCh[s]
               e == Head(q)
    <3>1. q \in Seq(Heard) /\ q # <<>> /\ Fits(q, match[s])
      BY <2>1 DEF TakeEvent, ChansOK, MatchOf
    <3>2. Fits(Tail(q), match[s]) /\ e \in Heard /\ (e.kind = "created" => e.game = match[s])
      BY <3>1, FitsTail
    <3>3. eventCh'[s] = Tail(q)
      BY <2>1 DEF TakeEvent, ChansOK
    <3>4. /\ e.kind = "created" => play'[s] = e.game
          /\ e.kind # "created" => play'[s] \in {play[s], NoGame}
      BY <2>1 DEF TakeEvent, MatchesOK
    <3>5. /\ handler'[s].pc \in Starts => e.kind = "created" /\ handler'[s].event = e
      BY <2>1 DEF TakeEvent, Handles, HandlerOK, Starts
    <3>6. e.kind = "created" => match[s] # NoGame
      BY <3>2, FanoutAssumption DEF Heard
    <3> QED BY <1>1, <3>2, <3>3, <3>4, <3>5, <3>6 DEF MatchOf
  <2>2. CASE HandlerJoins(s)
    <3>1. play'[s] \in {play[s], NoGame} /\ eventCh' = eventCh
      BY <2>2 DEF HandlerJoins, MatchesOK, chans
    <3>2. handler[s].pc \in Starts /\ (handler'[s].pc \in Starts => handler'[s].event = handler[s].event)
      BY <2>2 DEF HandlerJoins, Handles, HandlerOK, Starts
    <3> QED BY <1>1, <3>1, <3>2 DEF MatchOf
  <2>3. CASE HandlerSubscribes(s)
    <3>1. play' = play /\ eventCh' = eventCh
      BY <2>3 DEF HandlerSubscribes, matches, chans
    <3>2. handler[s].pc \in Starts /\ (handler'[s].pc \in Starts => handler'[s].event = handler[s].event)
      BY <2>3 DEF HandlerSubscribes, Handles, HandlerOK, Starts
    <3> QED BY <1>1, <3>1, <3>2 DEF MatchOf
  <2>4. CASE HandlerLooksUp(s) \/ HandlerUnsubscribes(s) \/ HandlerSends(s) \/ HandlerExits(s)
    <3>1. play' = play /\ eventCh' = eventCh
      BY <2>4 DEF HandlerLooksUp, HandlerUnsubscribes, HandlerSends, HandlerExits, matches, chans
    <3>2. handler'[s].pc \notin Starts
      BY <2>4 DEF HandlerLooksUp, HandlerUnsubscribes, HandlerSends, HandlerExits, Handles, HandlerOK, Starts
    <3> QED BY <1>1, <3>1, <3>2 DEF MatchOf
  <2> QED BY <2>1, <2>2, <2>3, <2>4 DEF Handling
<1> QED BY <1>2, <1>3, SameMatchKeeps

LEMMA ReaderMatch ==
  ASSUME FanoutTypes, MatchInv, NEW s \in Session,
         \/ Reading(s) \/ Refused(s) \/ ReaderExits(s)
         \/ \E g \in Game : View(s, g) \/ Resume(s, g) \/ FindMatch(s, g)
  PROVE  MatchInv'
<1> USE DEF FanoutTypes
<1>1. UNCHANGED <<handler, eventCh, listener>>
  BY DEF Reading, ViewAnswered, ResumeJoins, Subscribes, MatchSubscribes, ReaderReplies, Refused, ReaderExits,
         View, Resume, FindMatch, chans
<1>2. ASSUME NEW t \in Session, t # s PROVE SameMatch(t)
  <2>1. reader'[t] = reader[t]
    BY <1>2 DEF Reading, ViewAnswered, ResumeJoins, Subscribes, MatchSubscribes, ReaderReplies, Refused,
                ReaderExits, View, Resume, FindMatch, Reads, ReaderOK
  <2>2. match'[t] = match[t] /\ play'[t] = play[t]
    BY <1>2 DEF Reading, ViewAnswered, ResumeJoins, Subscribes, MatchSubscribes, ReaderReplies, Refused,
                ReaderExits, View, Resume, FindMatch, matches, MatchesOK
  <2> QED BY <1>1, <2>1, <2>2 DEF SameMatch
<1>3. MatchOf(s)' /\ (match'[s] # match[s] => match[s] = NoGame)
  <2>1. CASE \E g \in Game : Resume(s, g)
    <3>1. PICK g \in Game : Resume(s, g)
      BY <2>1
    <3>2. /\ match' = match /\ match[s] = NoGame /\ play'[s] = g
          /\ reader'[s].event.game = g
      BY <3>1 DEF Resume, MatchesOK, Reads, ReaderOK, Event
    <3> QED BY <1>1, <3>2 DEF MatchInv, MatchOf
  <2>2. CASE ResumeJoins(s)
    <3>1. match' = match /\ play'[s] \in {NoGame, play[s]} /\ reader'[s].pc # "join"
      BY <2>2 DEF ResumeJoins, MatchesOK, Reads, ReaderOK
    <3> QED BY <1>1, <3>1 DEF MatchInv, MatchOf
  <2>3. CASE \E g \in Game : FindMatch(s, g)
    <3>1. PICK g \in Game : FindMatch(s, g)
      BY <2>3
    <3>2. /\ match[s] = NoGame /\ match'[s] = g /\ play'[s] = NoGame /\ reader'[s].pc = "match"
      BY <3>1 DEF FindMatch, MatchesOK, Reads, ReaderOK
    <3>3. Fits(eventCh[s], g)
      BY <3>2, FitsNone DEF ChansOK, MatchInv, MatchOf
    <3>4. handler[s].pc \notin Starts
      BY <3>2, FanoutAssumption DEF MatchInv, MatchOf, HandlerOK, Heard
    <3> QED BY <1>1, <3>2, <3>3, <3>4 DEF MatchOf
  <2>4. CASE (Reading(s) /\ ~ResumeJoins(s)) \/ Refused(s) \/ ReaderExits(s) \/ \E g \in Game : View(s, g)
    <3>1. match' = match /\ play' = play
      BY <2>4 DEF Reading, ViewAnswered, Subscribes, MatchSubscribes, ReaderReplies, Refused, ReaderExits,
                  View, matches
    <3>2. reader'[s].pc # "join"
      BY <2>4 DEF Reading, ViewAnswered, Subscribes, MatchSubscribes, ReaderReplies, Refused, ReaderExits,
                  View, Reads, ReaderOK
    <3> QED BY <1>1, <3>1, <3>2 DEF MatchInv, MatchOf
  <2> QED BY <2>1, <2>2, <2>3, <2>4
<1>4. Addressed'
  <2> SUFFICES ASSUME NEW t \in listener.left, listener.event.kind = "created"
               PROVE  listener.event.game = match'[t]
    BY <1>1 DEF Addressed
  <2>1. t \in Session /\ listener.event.game \in Game
    BY DEF ListenerOK, Heard
  <2>2. listener.event.game = match[t]
    BY DEF MatchInv, Addressed
  <2> QED BY <1>2, <1>3, <2>1, <2>2, FanoutAssumption DEF SameMatch
<1> QED BY <1>2, <1>3, <1>4, SameMatchKeeps DEF MatchInv

LEMMA ListenerMatch ==
  ASSUME FanoutTypes, MatchInv,
         \/ Listening \/ \E g \in Game : ListenGame(g) \/ ListenChat(g) \/ ListenCreated(g)
  PROVE  MatchInv'
<1> USE DEF FanoutTypes
<1>1. UNCHANGED <<match, play, handler, reader>>
  BY DEF Listening, Lookup, MatchRound, Keep, Consume, ListenGame, ListenChat, ListenCreated, matches, threads
<1>2. CASE \E s \in Session : Consume(s)
  <2>1. PICK s \in Session : Consume(s)
    BY <1>2
  <2>2. /\ listener.pc = "send" /\ s \in listener.left /\ listener.event \in Heard
        /\ Deliver(s, listener.event)
    BY <2>1 DEF Consume, ListenerOK
  <2>3. \A t \in Session : MatchOf(t)'
    BY <1>1, <2>2, DeliverMatch DEF MatchInv, Addressed
  <2>4. listener'.left = {} \/ (listener'.left \subseteq listener.left /\ listener'.event = listener.event)
    BY <2>1 DEF Consume, Served, Waiting, ListenerOK
  <2> QED BY <1>1, <2>3, <2>4 DEF MatchInv, Addressed
<1>3. CASE Lookup \/ MatchRound \/ Keep \/ \E g \in Game : ListenGame(g) \/ ListenChat(g) \/ ListenCreated(g)
  <2>1. eventCh' = eventCh
    BY <1>3 DEF Lookup, MatchRound, Keep, ListenGame, ListenChat, ListenCreated, chans
  <2>2. \A t \in Session : MatchOf(t)'
    BY <1>1, <2>1, SameMatchKeeps DEF SameMatch, MatchInv
  <2>3. CASE Keep \/ \E g \in Game : ListenGame(g) \/ ListenChat(g) \/ ListenCreated(g)
    <3>1. listener'.left = {}
      <4>1. CASE Keep
        BY <4>1 DEF Keep, Waiting
      <4>2. CASE \E g \in Game : ListenGame(g) \/ ListenChat(g) \/ ListenCreated(g)
        <5>1. listener.pc = "idle" /\ listener'.left = listener.left
          BY <4>2 DEF ListenGame, ListenChat, ListenCreated, ListenerOK
        <5> QED BY <5>1 DEF ListenerOK
      <4> QED BY <2>3, <4>1, <4>2
    <3> QED BY <2>2, <3>1 DEF MatchInv, Addressed
  <2>4. CASE Lookup
    <3>1. listener'.left = {} \/ listener'.event.kind # "created"
      BY <2>4 DEF Lookup, Waiting, ListenerOK
    <3> QED BY <2>2, <3>1 DEF MatchInv, Addressed
  <2>5. CASE MatchRound
    <3>1. listener'.event = listener.event /\ listener'.left = AskedFor(listener.event.game)
      BY <2>5 DEF MatchRound, ListenerOK
    <3> QED BY <1>1, <2>2, <3>1 DEF MatchInv, Addressed, AskedFor
  <2> QED BY <1>3, <2>3, <2>4, <2>5
<1> QED BY <1>2, <1>3 DEF Listening

LEMMA MatchNext == FanoutTypes /\ MatchInv /\ [Next]_vars => MatchInv'
<1> SUFFICES ASSUME FanoutTypes, MatchInv, [Next]_vars PROVE MatchInv'
  OBVIOUS
<1> USE DEF FanoutTypes
<1>1. ASSUME UNCHANGED <<match, listener>> PROVE Addressed'
  BY <1>1 DEF MatchInv, Addressed
<1>2. ASSUME UNCHANGED <<match, play, handler, reader, eventCh>> PROVE \A t \in Session : MatchOf(t)'
  BY <1>2, SameMatchKeeps DEF MatchInv, SameMatch
<1>3. ASSUME NEW s \in Session, Handling(s) PROVE MatchInv'
  <2>1. UNCHANGED <<match, listener>>
    BY <1>3 DEF Handling, TakeEvent, HandlerJoins, HandlerSubscribes, HandlerLooksUp, HandlerUnsubscribes,
                HandlerSends, HandlerExits, matches
  <2> QED BY <1>1, <1>3, <2>1, HandlerMatch DEF MatchInv
<1>4. CASE \/ UNCHANGED vars \/ Broadcast \/ Expire \/ Ticking \/ Ping
           \/ \E s \in Session : Writing(s) \/ Overdue(s) \/ (Stopping(s) /\ ~StopEnds(s))
  <2>1. UNCHANGED <<match, listener, play, handler, reader, eventCh>>
    BY <1>4 DEF vars, Broadcast, Expire, Ticking, PingPublishes, PingSends, Ping, Writing, TakeMsg,
                Written, WriteFails, WriterExits, Overdue, Stopping, StopReads, StopLooksUp, StopUnsubscribes,
                StopCloses, matches, threads, chans
  <2> QED BY <1>1, <1>2, <2>1 DEF MatchInv
<1>5. CASE CleanTick
  <2>1. UNCHANGED <<match, play, handler, reader, eventCh>>
    BY <1>5 DEF CleanTick, matches, threads, chans
  <2>2. listener'.left = listener.left /\ listener'.event = listener.event
    BY <1>5 DEF CleanTick, ListenerOK
  <2> QED BY <1>2, <2>1, <2>2 DEF MatchInv, Addressed
<1>6. ASSUME NEW s \in Session, BroadcastSends(s) PROVE MatchInv'
  <2>1. UNCHANGED <<match, listener, play, handler, reader>> /\ Deliver(s, Created(match[s])) /\ s \in casting
    BY <1>6 DEF BroadcastSends, matches, threads
  <2>2. match[s] \in Game \cup {NoGame} /\ match[s] # NoGame
    BY <2>1 DEF MatchesOK
  <2>3. Created(match[s]) \in Heard /\ Created(match[s]).game = match[s]
    BY <2>2, CreatedFacts
  <2> QED BY <1>1, <2>1, <2>3, DeliverMatch DEF MatchInv
<1>7. ASSUME NEW s \in Session, StopEnds(s) PROVE MatchInv'
  <2>1. UNCHANGED <<match, listener, handler, reader>>
    BY <1>7 DEF StopEnds, threads
  <2>2. \A t \in Session : t # s => SameMatch(t)
    BY <1>7, <2>1 DEF StopEnds, SameMatch, MatchesOK, ChansOK
  <2>3. play'[s] = NoGame /\ eventCh'[s] = <<>>
    BY <1>7 DEF StopEnds, MatchesOK, ChansOK
  <2>4. MatchOf(s)'
    BY <2>1, <2>3 DEF MatchInv, MatchOf, Fits
  <2> QED BY <1>1, <2>1, <2>2, <2>4, SameMatchKeeps DEF MatchInv
<1> QED BY <1>3, <1>4, <1>5, <1>6, <1>7, ReaderMatch, ListenerMatch DEF Next, Casting

-----------------------------------------------------------------------------
(* What a session is subscribed to *)

Live(g) == feed[g] < End

\* Every live game of the session is listed, also while a request is under way.
AllListed(s) ==
  /\ \A h \in Game : s \in gameSubs[h] /\ Live(h) => h \in views[s] \/ play[s] = h
  /\ handler[s].pc \in Starts => play[s] = handler[s].event.game
RequestListed(s, g) ==
  /\ reader[s].pc = "ask"  => g \in views[s] /\ (s \in gameSubs[g] => play[s] = g)
  /\ reader[s].pc = "join" => play[s] = g /\ (s \in gameSubs[g] => g \in views[s])
  /\ reader[s].pc \in {"subscribe", "add"} => g \in views[s] \/ (play[s] = g /\ match[s] = NoGame)
Unread(s) == stage[s] \in {"open", "stopping"} /\ s \notin failed
ListOf(s) ==
  Unread(s) => AllListed(s) /\ (Live(reader[s].event.game) => RequestListed(s, reader[s].event.game))
ListInv == \A s \in Session : ListOf(s)

LEMMA ListInit == Init => ListInv
BY DEF Init, ListInv, ListOf, AllListed, RequestListed, AtRest, Starts

\* No game becomes live again.
Onward == \A g : Live(g)' => Live(g)

\* No subscription of s is new.
NoneNew(s) == \A h \in Game : s \in gameSubs'[h] => s \in gameSubs[h]

SameList(s) ==
  /\ Unread(s)' => Unread(s)
  /\ NoneNew(s) /\ views'[s] = views[s] /\ play'[s] = play[s] /\ match'[s] = match[s]
  /\ handler'[s] = handler[s] /\ reader'[s] = reader[s]

LEMMA SameListKeeps ==
  ASSUME ReaderOK, Onward, NEW s \in Session, ListOf(s), SameList(s)
  PROVE  ListOf(s)'
<1> SUFFICES ASSUME Unread(s)'
             PROVE  AllListed(s)' /\ (Live(reader[s].event.game)' => RequestListed(s, reader[s].event.game)')
  BY DEF ListOf, SameList
<1>1. AllListed(s) /\ (Live(reader[s].event.game) => RequestListed(s, reader[s].event.game))
  BY DEF ListOf, SameList
<1>2. AllListed(s)'
  BY <1>1 DEF AllListed, SameList, NoneNew, Onward
<1>3. ASSUME Live(reader[s].event.game)' PROVE RequestListed(s, reader[s].event.game)'
  <2>1. RequestListed(s, reader[s].event.game)
    BY <1>1, <1>3 DEF Onward, Live, SameList
  <2>2. reader[s].pc \in {"ask", "join"} => reader[s].event.game \in Game
    BY DEF ReaderOK
  <2> QED BY <2>1, <2>2 DEF RequestListed, SameList, NoneNew
<1> QED BY <1>2, <1>3

\* A subscription of session s to game g, and no other.
LEMMA NewSubscription ==
  ASSUME LocksOK, NEW s \in Session, NEW g \in Game, Enters(s, g) \/ Queues(s, g) \/ Adds(s, g)
  PROVE  /\ \A t \in Session : t # s => NoneNew(t)
         /\ \A h \in Game : h # g => (s \in gameSubs'[h] => s \in gameSubs[h])
BY DEF LocksOK, Enters, Queues, Adds, Joined, NoneNew

\* The end of a game in the channel: the game is over.
LEMMA EndIsOver ==
  ASSUME FanoutTypes, FlowInv, NEW s \in Session, InUse(s), eventCh[s] # <<>>,
         NEW g \in Game, IsEnd(Head(eventCh[s]), g)
  PROVE  ~Live(g)
<1> USE DEF FanoutTypes
<1>1. PICK q \in Seq(Heard) : q = eventCh[s]
  BY DEF ChansOK
<1>2. Head(q) = q[1] /\ 1 \in 1..Len(q)
  BY <1>1
<1>3. End \in Num(q[1], g)
  BY <1>1, <1>2 DEF IsEnd, Num
<1>4. End \in InEventCh(s, g)
  BY <1>1, <1>2, <1>3 DEF InEventCh, Nums
<1>5. End <= Told(g)
  BY <1>4 DEF FlowInv, Fine, InLine, Lined
<1>6. Told(g) <= feed[g] /\ feed[g] \in 0..End
  BY DEF Told, TopicsOK
<1> QED BY <1>5, <1>6, Bounds DEF Live, Told, TopicsOK

LEMMA HandlerList ==
  ASSUME FanoutTypes, FlowInv, MatchInv, ListInv, NEW s \in Session, Handling(s)
  PROVE  ListInv'
<1> USE DEF FanoutTypes
<1>1. UNCHANGED <<match, reader, stage, feed>> /\ failed \subseteq failed'
  BY DEF Handling, TakeEvent, HandlerJoins, HandlerSubscribes, HandlerLooksUp, HandlerUnsubscribes,
         HandlerSends, HandlerExits, matches, session, topics
<1>2. Onward
  BY <1>1 DEF Onward, Live
<1>3. ASSUME NEW t \in Session, t # s PROVE SameList(t)
  <2>1. handler'[t] = handler[t] /\ play'[t] = play[t]
    <3>1. handler'[t] = handler[t]
      BY <1>3 DEF Handling, TakeEvent, HandlerJoins, HandlerSubscribes, HandlerLooksUp, HandlerUnsubscribes,
                  HandlerSends, HandlerExits, Handles, HandlerOK
    <3>2. CASE TakeEvent(s) \/ HandlerJoins(s)
      BY <1>3, <3>1, <3>2 DEF TakeEvent, HandlerJoins, MatchesOK
    <3>3. CASE ~TakeEvent(s) /\ ~HandlerJoins(s)
      BY <3>1, <3>3 DEF Handling, HandlerSubscribes, HandlerLooksUp, HandlerUnsubscribes, HandlerSends,
                        HandlerExits, matches
    <3> QED BY <3>2, <3>3
  <2>2. views'[t] = views[t]
    BY <1>3 DEF Handling, TakeEvent, HandlerJoins, HandlerSubscribes, HandlerLooksUp, HandlerUnsubscribes,
                HandlerSends, HandlerExits, session, SessionOK, ViewsOK
  <2>3. NoneNew(t)
    <3>1. CASE HandlerSubscribes(s)
      <4>1. handler[s].event.game \in Game
        BY <3>1 DEF HandlerSubscribes, HandlerOK, Starts, Heard
      <4> QED BY <1>3, <3>1, <4>1, NewSubscription DEF HandlerSubscribes
    <3>2. CASE ~HandlerSubscribes(s)
      BY <3>2 DEF Handling, TakeEvent, HandlerJoins, HandlerLooksUp, HandlerUnsubscribes, HandlerSends,
                  HandlerExits, locks, NoneNew, LocksOK
    <3> QED BY <3>1, <3>2
  <2> QED BY <1>1, <2>1, <2>2, <2>3 DEF SameList, Unread
<1>4. ListOf(s)'
  <2> SUFFICES ASSUME Unread(s)' PROVE ListOf(s)'
    BY DEF ListOf
  <2>1. /\ AllListed(s) /\ (Live(reader[s].event.game) => RequestListed(s, reader[s].event.game))
        /\ MatchOf(s) /\ InUse(s)
    BY <1>1 DEF ListInv, ListOf, MatchInv, Unread, InUse
  <2>2. CASE TakeEvent(s)
    <3> DEFINE q == eventCh[s]
               e == Head(q)
    <3>1. q \in Seq(Heard) /\ q # <<>> /\ Fits(q, match[s]) /\ gameSubs' = gameSubs
      BY <2>1, <2>2 DEF TakeEvent, ChansOK, MatchOf, locks
    <3>2. e \in Heard /\ (e.kind = "created" => e.game = match[s])
      BY <3>1, FitsTail
    <3>3. CASE e.kind = "created"
      <4>1. /\ play'[s] = e.game /\ views' = views /\ e.game = match[s] /\ match[s] # NoGame
            /\ handler'[s].event = e
        BY <2>2, <3>2, <3>3, FanoutAssumption DEF TakeEvent, Handles, HandlerOK, MatchesOK, Heard
      <4>2. \A h \in Game : play[s] = h => play'[s] = h
        BY <2>1, <4>1, FanoutAssumption DEF MatchOf
      <4>3. reader[s].pc # "join"
        BY <2>1, <4>1 DEF MatchOf
      <4>4. AllListed(s)'
        BY <1>1, <2>1, <3>1, <4>1, <4>2 DEF AllListed, Live
      <4>5. ASSUME Live(reader[s].event.game) PROVE RequestListed(s, reader[s].event.game)'
        <5>1. reader[s].pc = "ask" => reader[s].event.game \in Game
          BY DEF ReaderOK
        <5> QED BY <1>1, <2>1, <3>1, <4>1, <4>2, <4>3, <4>5, <5>1 DEF RequestListed
      <4> QED BY <1>1, <4>4, <4>5 DEF ListOf, Live
    <3>4. CASE e.kind # "created"
      <4>1. handler'[s].pc \notin Starts
        BY <2>2, <3>4 DEF TakeEvent, Handles, HandlerOK, Starts
      <4>2. \A h \in Game : Live(h) =>
              /\ h \in views[s] <=> h \in views'[s]
              /\ play[s] = h <=> play'[s] = h
        <5> SUFFICES ASSUME NEW h \in Game, Live(h)
                     PROVE  (h \in views[s] <=> h \in views'[s]) /\ (play[s] = h <=> play'[s] = h)
          OBVIOUS
        <5>1. ~IsEnd(e, h)
          BY <2>1, <3>1, EndIsOver
        <5>2. views'[s] = views[s] \/ (e.kind = "game" /\ e.n = End /\ views'[s] = views[s] \ {e.game})
          BY <2>2, <3>4 DEF TakeEvent, SessionOK, ViewsOK
        <5>3. play'[s] = play[s] \/ (e.kind = "game" /\ e.n = End /\ play[s] = e.game /\ play'[s] = NoGame)
          BY <2>2, <3>4 DEF TakeEvent, MatchesOK
        <5> QED BY <5>1, <5>2, <5>3, FanoutAssumption DEF IsEnd
      <4>3. AllListed(s)'
        BY <1>1, <2>1, <3>1, <4>1, <4>2 DEF AllListed, Live
      <4>4. ASSUME Live(reader[s].event.game) PROVE RequestListed(s, reader[s].event.game)'
        <5>1. reader[s].pc \in {"ask", "join", "subscribe", "add"} => reader[s].event.game \in Game
          BY DEF ReaderOK
        <5> QED BY <1>1, <2>1, <3>1, <4>2, <4>4, <5>1 DEF RequestListed
      <4> QED BY <1>1, <4>3, <4>4 DEF ListOf, Live
    <3> QED BY <3>3, <3>4
  <2>3. CASE HandlerJoins(s)
    <3>1. UNCHANGED <<views, gameSubs>> /\ play' = play /\ handler[s].pc = "join"
          /\ handler'[s].event = handler[s].event
      BY <2>3 DEF HandlerJoins, Unread, session, locks, Handles, HandlerOK
    <3> QED BY <1>1, <2>1, <3>1 DEF ListOf, AllListed, RequestListed, Live, Starts
  <2>4. CASE HandlerSubscribes(s)
    <3> DEFINE g == handler[s].event.game
    <3>1. UNCHANGED <<views, play>> /\ handler[s].pc \in Starts /\ g \in Game
          /\ (handler'[s].pc \in Starts => handler'[s].event = handler[s].event)
      BY <2>4 DEF HandlerSubscribes, session, matches, Handles, HandlerOK, Starts, Heard
    <3>2. \A h \in Game : h # g => (s \in gameSubs'[h] => s \in gameSubs[h])
      BY <2>4, <3>1, NewSubscription DEF HandlerSubscribes
    <3>3. play[s] = g /\ match[s] = g /\ match[s] # NoGame
      BY <2>1, <3>1, FanoutAssumption DEF AllListed, MatchOf
    <3>4. reader[s].pc # "join"
      BY <2>1, <3>3 DEF MatchOf
    <3>5. AllListed(s)'
      BY <1>1, <2>1, <3>1, <3>2, <3>3 DEF AllListed, Live
    <3>6. ASSUME Live(reader[s].event.game) PROVE RequestListed(s, reader[s].event.game)'
      <4>1. reader[s].pc = "ask" => reader[s].event.game \in Game
        BY DEF ReaderOK
      <4> QED BY <1>1, <2>1, <3>1, <3>2, <3>3, <3>4, <3>6, <4>1 DEF RequestListed
    <3> QED BY <1>1, <3>5, <3>6 DEF ListOf, Live
  <2>5. CASE HandlerLooksUp(s) \/ HandlerUnsubscribes(s) \/ HandlerSends(s) \/ HandlerExits(s)
    <3>1. UNCHANGED <<views, play>> /\ handler'[s].pc \notin Starts
      BY <2>5 DEF HandlerLooksUp, HandlerUnsubscribes, HandlerSends, HandlerExits, session, matches, Handles,
                  HandlerOK, Starts
    <3>2. \A h \in Game : s \in gameSubs'[h] => s \in gameSubs[h]
      BY <2>5 DEF HandlerLooksUp, HandlerUnsubscribes, HandlerSends, HandlerExits, locks, LocksOK
    <3>3. AllListed(s)'
      BY <1>1, <2>1, <3>1, <3>2 DEF AllListed, Live
    <3>4. ASSUME Live(reader[s].event.game) PROVE RequestListed(s, reader[s].event.game)'
      <4>1. reader[s].pc \in {"ask", "join"} => reader[s].event.game \in Game
        BY DEF ReaderOK
      <4> QED BY <1>1, <2>1, <3>1, <3>2, <3>4, <4>1 DEF RequestListed
    <3> QED BY <1>1, <3>3, <3>4 DEF ListOf, Live
  <2> QED BY <2>2, <2>3, <2>4, <2>5 DEF Handling
<1> QED BY <1>2, <1>3, <1>4, SameListKeeps DEF ListInv

LEMMA StopOnceUnread ==
  ASSUME SessionOK, NEW s \in Session, StopOnce(s)
  PROVE  \A t \in Session : stage'[t] \in {"open", "stopping"} => stage[t] \in {"open", "stopping"}
BY DEF StopOnce, SessionOK

LEMMA ReaderList ==
  ASSUME FanoutTypes, MatchInv, ListInv, NEW s \in Session,
         \/ Reading(s) \/ Refused(s) \/ ReaderExits(s)
         \/ \E g \in Game : View(s, g) \/ Resume(s, g) \/ FindMatch(s, g)
  PROVE  ListInv'
<1> USE DEF FanoutTypes
<1>1. UNCHANGED <<handler, failed, feed>>
  BY DEF Reading, ViewAnswered, ResumeJoins, Subscribes, MatchSubscribes, ReaderReplies, Refused, ReaderExits,
         View, Resume, FindMatch, matches, topics
<1>2. Onward
  BY <1>1 DEF Onward, Live
<1>3. \A t \in Session : Unread(t)' => Unread(t)
  <2>1. stage' = stage \/ StopOnce(s)
    BY DEF Reading, ViewAnswered, ResumeJoins, Subscribes, MatchSubscribes, ReaderReplies, Refused, ReaderExits,
           View, Resume, FindMatch, session
  <2> QED BY <1>1, <2>1, StopOnceUnread DEF Unread
<1>4. ASSUME NEW t \in Session, t # s PROVE SameList(t)
  <2>1. reader'[t] = reader[t]
    BY <1>4 DEF Reading, ViewAnswered, ResumeJoins, Subscribes, MatchSubscribes, ReaderReplies, Refused,
                ReaderExits, View, Resume, FindMatch, Reads, ReaderOK
  <2>2. match'[t] = match[t] /\ play'[t] = play[t]
    BY <1>4 DEF Reading, ViewAnswered, ResumeJoins, Subscribes, MatchSubscribes, ReaderReplies, Refused,
                ReaderExits, View, Resume, FindMatch, matches, MatchesOK
  <2>3. views'[t] = views[t]
    BY <1>4 DEF Reading, ViewAnswered, ResumeJoins, Subscribes, MatchSubscribes, ReaderReplies, Refused,
                ReaderExits, View, Resume, FindMatch, session, SessionOK, ViewsOK
  <2>4. NoneNew(t)
    <3>1. CASE Subscribes(s)
      <4>1. reader[s].event.game \in Game
        BY <3>1 DEF Subscribes, ReaderOK
      <4> QED BY <1>4, <3>1, <4>1, NewSubscription DEF Subscribes
    <3>2. CASE ~Subscribes(s)
      BY <3>2 DEF Reading, ViewAnswered, ResumeJoins, MatchSubscribes, ReaderReplies, Refused, ReaderExits,
                  View, Resume, FindMatch, locks, NoneNew
    <3> QED BY <3>1, <3>2
  <2> QED BY <1>1, <1>3, <2>1, <2>2, <2>3, <2>4 DEF SameList
<1>5. ListOf(s)'
  <2> SUFFICES ASSUME Unread(s)' PROVE ListOf(s)'
    BY DEF ListOf
  <2> DEFINE g == reader[s].event.game
  <2>1. AllListed(s) /\ (Live(g) => RequestListed(s, g)) /\ MatchOf(s)
    BY <1>3 DEF ListInv, ListOf, MatchInv
  <2>2. CASE \E h \in Game : View(s, h)
    <3>1. PICK h \in Game : View(s, h)
      BY <2>2
    <3>2. /\ UNCHANGED <<gameSubs, play, match>> /\ h \notin views[s] /\ views'[s] = views[s] \cup {h}
          /\ reader'[s].pc = "ask" /\ reader'[s].event.game = h
      BY <3>1 DEF View, locks, matches, Reads, ReaderOK, SessionOK, ViewsOK, Event
    <3>3. AllListed(s)'
      BY <1>1, <2>1, <3>2 DEF AllListed, Live
    <3>4. Live(h) => RequestListed(s, h)'
      BY <2>1, <3>2 DEF AllListed, RequestListed
    <3> QED BY <1>1, <3>2, <3>3, <3>4 DEF ListOf, Live
  <2>3. CASE ViewAnswered(s)
    <3>1. UNCHANGED <<gameSubs, play, match>> /\ reader[s].pc = "ask" /\ g \in Game
      BY <2>3 DEF ViewAnswered, locks, matches, ReaderOK
    <3>2. CASE views' = views /\ reader'[s] = [pc |-> "subscribe", event |-> reader[s].event]
      <4>1. AllListed(s)'
        BY <1>1, <2>1, <3>1, <3>2 DEF AllListed, Live
      <4>2. Live(g) => RequestListed(s, g)'
        BY <2>1, <3>1, <3>2 DEF RequestListed
      <4> QED BY <1>1, <3>2, <4>1, <4>2 DEF ListOf, Live
    <3>3. CASE views'[s] = views[s] \ {g} /\ reader'[s].pc = "reply"
      <4>1. AllListed(s)'
        BY <1>1, <2>1, <3>1, <3>3 DEF AllListed, RequestListed, Live
      <4> QED BY <3>3, <4>1 DEF ListOf, RequestListed
    <3> QED BY <2>3, <3>2, <3>3 DEF ViewAnswered, Reads, ReaderOK, SessionOK, ViewsOK
  <2>4. CASE Subscribes(s)
    <3>1. UNCHANGED <<views, play, match>> /\ reader[s].pc \in {"subscribe", "add"} /\ g \in Game
          /\ reader'[s].pc \in {"reply", "add"} /\ (reader'[s].pc = "add" => reader'[s].event = reader[s].event)
      BY <2>4 DEF Subscribes, session, matches, ReaderOK, Reads
    <3>2. \A h \in Game : h # g => (s \in gameSubs'[h] => s \in gameSubs[h])
      BY <2>4, <3>1, NewSubscription DEF Subscribes
    <3>3. Live(g) => g \in views[s] \/ play[s] = g
      BY <2>1, <3>1 DEF RequestListed
    <3>4. AllListed(s)'
      BY <1>1, <2>1, <3>1, <3>2, <3>3 DEF AllListed, Live
    <3>5. Live(g) /\ reader'[s].pc = "add" => RequestListed(s, g)'
      BY <2>1, <3>1 DEF RequestListed
    <3> QED BY <1>1, <3>1, <3>4, <3>5 DEF ListOf, Live, RequestListed
  <2>5. CASE \E h \in Game : Resume(s, h)
    <3>1. PICK h \in Game : Resume(s, h)
      BY <2>5
    <3>2. /\ UNCHANGED <<gameSubs, views, match>> /\ play[s] = NoGame /\ match[s] = NoGame /\ play'[s] = h
          /\ reader'[s].pc = "join" /\ reader'[s].event.game = h
      BY <3>1 DEF Resume, locks, session, Reads, ReaderOK, MatchesOK, Event
    <3>3. handler[s].pc \notin Starts
      BY <2>1, <3>2, FanoutAssumption DEF MatchOf, HandlerOK, Heard
    <3>4. AllListed(s)'
      BY <1>1, <2>1, <3>2, <3>3, FanoutAssumption DEF AllListed, Live
    <3>5. Live(h) => RequestListed(s, h)'
      BY <2>1, <3>2, FanoutAssumption DEF AllListed, RequestListed
    <3> QED BY <1>1, <3>2, <3>4, <3>5 DEF ListOf, Live
  <2>6. CASE ResumeJoins(s)
    <3>1. /\ UNCHANGED <<gameSubs, views, match>> /\ reader[s].pc = "join" /\ g \in Game
          /\ match[s] = NoGame /\ play[s] \in {NoGame, g}
      BY <2>1, <2>6 DEF ResumeJoins, locks, session, ReaderOK, MatchOf
    <3>2. handler[s].pc \notin Starts
      BY <2>1, <3>1, FanoutAssumption DEF MatchOf, HandlerOK, Heard
    <3>3. CASE play' = play /\ reader'[s] = [pc |-> "subscribe", event |-> reader[s].event]
      <4>1. AllListed(s)'
        BY <1>1, <2>1, <3>1, <3>2, <3>3 DEF AllListed, Live
      <4>2. Live(g) => RequestListed(s, g)'
        BY <2>1, <3>1, <3>3 DEF RequestListed
      <4> QED BY <1>1, <3>3, <4>1, <4>2 DEF ListOf, Live
    <3>4. CASE play'[s] = NoGame /\ reader'[s].pc = "reply"
      <4>1. \A h \in Game : s \in gameSubs[h] /\ Live(h) => h \in views[s]
        BY <2>1, <3>1, FanoutAssumption DEF AllListed, RequestListed
      <4>2. AllListed(s)'
        BY <1>1, <3>1, <3>2, <4>1 DEF AllListed, Live
      <4> QED BY <3>4, <4>2 DEF ListOf, RequestListed
    <3> QED BY <2>6, <3>3, <3>4 DEF ResumeJoins, Reads, ReaderOK, MatchesOK
  <2>7. CASE \/ MatchSubscribes(s) \/ ReaderReplies(s) \/ Refused(s) \/ ReaderExits(s)
             \/ \E h \in Game : FindMatch(s, h)
    <3>1. UNCHANGED <<gameSubs, views, play>>
      BY <2>7 DEF MatchSubscribes, ReaderReplies, Refused, ReaderExits, FindMatch, locks, session, matches
    <3>2. reader'[s].pc \in {"idle", "reply", "exit", "match"}
      BY <2>7 DEF MatchSubscribes, ReaderReplies, Refused, ReaderExits, FindMatch, Reads, ReaderOK
    <3>3. AllListed(s)'
      BY <1>1, <2>1, <3>1 DEF AllListed, Live
    <3> QED BY <3>2, <3>3 DEF ListOf, RequestListed
  <2> QED BY <2>2, <2>3, <2>4, <2>5, <2>6, <2>7 DEF Reading
<1> QED BY <1>2, <1>4, <1>5, SameListKeeps DEF ListInv

LEMMA RestList ==
  ASSUME FanoutTypes, ListInv, Onward, \A s \in Session : SameList(s)
  PROVE  ListInv'
BY SameListKeeps DEF ListInv, FanoutTypes

LEMMA ListNext == FanoutTypes /\ FlowInv /\ MatchInv /\ ListInv /\ [Next]_vars => ListInv'
<1> SUFFICES ASSUME FanoutTypes, FlowInv, MatchInv, ListInv, [Next]_vars PROVE ListInv'
  OBVIOUS
<1> USE DEF FanoutTypes
<1>1. ASSUME UNCHANGED <<gameSubs, views, play, match, handler, reader, stage, failed>>, Onward PROVE ListInv'
  BY <1>1, RestList DEF SameList, Unread, NoneNew
<1>2. ASSUME UNCHANGED feed PROVE Onward
  BY <1>2 DEF Onward, Live
<1>3. ASSUME NEW g \in Game, ListenGame(g) PROVE ListInv'
  <2>1. Onward
    <3>1. feed[g] \in 0..End /\ feed' = [feed EXCEPT ![g] = feed[g] + 1]
      BY <1>3 DEF ListenGame, TopicsOK
    <3>2. \A h : feed'[h] = feed[h] \/ (feed'[h] = feed[h] + 1 /\ h = g)
      BY <3>1 DEF TopicsOK
    <3> QED BY <3>1, <3>2, Bounds DEF Onward, Live
  <2> QED BY <1>1, <1>3, <2>1 DEF ListenGame, locks, session, matches, threads
<1>4. CASE \/ UNCHANGED vars \/ (\E g \in Game : ListenChat(g) \/ ListenCreated(g)) \/ Listening
           \/ Broadcast \/ Casting \/ Expire \/ Ticking \/ Ping
  BY <1>1, <1>2, <1>4
  DEF vars, topics, locks, session, matches, threads, ListenChat, ListenCreated, Listening, Lookup, MatchRound,
      Keep, Consume, Broadcast, Casting, BroadcastSends, Expire, Ticking, PingPublishes, PingSends, Ping
<1>5. CASE CleanTick
  <2>1. \A g \in Game : gameSubs'[g] \subseteq gameSubs[g]
    BY <1>5 DEF CleanTick
  <2>2. UNCHANGED <<views, play, match, handler, reader, stage, failed, feed>>
    BY <1>5 DEF CleanTick, session, matches, threads, topics
  <2> QED BY <1>2, <2>1, <2>2, RestList DEF SameList, Unread, NoneNew
<1>6. ASSUME NEW s \in Session, Writing(s) \/ Overdue(s) PROVE ListInv'
  <2>1. UNCHANGED <<gameSubs, views, play, match, handler, reader, failed, feed>>
    BY <1>6 DEF Writing, TakeMsg, Written, WriteFails, WriterExits, Overdue, locks, session, matches, threads,
                topics
  <2>2. stage' = stage \/ StopOnce(s)
    BY <1>6 DEF Writing, TakeMsg, Written, WriteFails, WriterExits, Overdue, session
  <2>3. \A t \in Session : Unread(t)' => Unread(t)
    BY <2>1, <2>2, StopOnceUnread DEF Unread
  <2> QED BY <1>2, <2>1, <2>3, RestList DEF SameList, NoneNew
<1>7. ASSUME NEW s \in Session, Stopping(s) PROVE ListInv'
  <2>1. UNCHANGED <<match, handler, reader, failed, feed>>
    BY <1>7 DEF Stopping, StopReads, StopLooksUp, StopUnsubscribes, StopCloses, StopEnds, matches, threads,
                topics
  <2>2. ~Unread(s)' /\ \A t \in Session : t # s => stage'[t] = stage[t]
    <3>1. stage[s] \notin {"open"} /\ stage'[s] \notin {"open", "stopping"}
      BY <1>7 DEF Stopping, StopReads, StopLooksUp, StopUnsubscribes, StopCloses, StopEnds, SessionOK
    <3>2. \A t \in Session : t # s => stage'[t] = stage[t]
      BY <1>7 DEF Stopping, StopReads, StopLooksUp, StopUnsubscribes, StopCloses, StopEnds, SessionOK
    <3> QED BY <3>1, <3>2 DEF Unread
  <2>3. \A t \in Session : t # s => views'[t] = views[t] /\ play'[t] = play[t]
    BY <1>7 DEF Stopping, StopReads, StopLooksUp, StopUnsubscribes, StopCloses, StopEnds, SessionOK, ViewsOK,
                MatchesOK, matches
  <2>4. \A t \in Session : NoneNew(t)
    BY <1>7 DEF Stopping, StopReads, StopLooksUp, StopUnsubscribes, StopCloses, StopEnds, locks, LocksOK, NoneNew
  <2>5. \A t \in Session : t # s => SameList(t)
    BY <2>1, <2>2, <2>3, <2>4 DEF SameList, Unread
  <2> QED BY <1>2, <2>1, <2>2, <2>5, SameListKeeps DEF ListInv, ListOf
<1> QED BY <1>3, <1>4, <1>5, <1>6, <1>7, HandlerList, ReaderList DEF Next

\* Until Stop has read them, a session's playGameId and views name every game it is
\* subscribed to that is not over -- reader and handler subscribe it, in any order, and
\* playGameId goes from game to game -- unless its handler could not reach Redis.
THEOREM SubscriptionIsListedHolds == Spec => []SubscriptionIsListed
<1>1. FanoutTypes /\ ListInv => SubscriptionIsListed
  BY DEF ListInv, ListOf, AllListed, Unread, Live, SubscriptionIsListed
<1> QED BY <1>1, TypesInit, FlowInit, MatchInit, ListInit, NextTypes, NextFlow, MatchNext, ListNext, PTL DEF Spec

-----------------------------------------------------------------------------
(* Who waits for whom *)

\* A goroutine that has ended, and a session that is gone, wait for nobody.
Exits(s) ==
  /\ handler[s].pc = "exit" => stage[s] \in {"closed", "gone"}
  /\ stage[s] = "gone" => /\ reader[s].pc \in {"idle", "exit"} /\ handler[s].pc \in {"idle", "exit"}
                          /\ writer[s].pc \in {"idle", "exit"}
                          /\ eventCh[s] = <<>> /\ msgCh[s] = <<>>

\* Who holds gcmu waits for the lock of a game.
Holds(s) ==
  /\ reader[s].pc = "add" \/ handler[s].pc = "add" <=> gcmu = s
  /\ ~(reader[s].pc = "add" /\ handler[s].pc = "add")

\* The locks of the games are held by who sends to sessions.
ListenerServes == listener.holds # NoGame => listener.pc = "send" /\ listener.event.kind # "created"
TickerServes ==
  /\ ticker.pc = "publish" => ticker.todo # {} /\ ticker.holds = NoGame
  /\ ticker.pc = "send" => ticker.left # {}
  /\ ticker.pc = "idle" => ticker.holds = NoGame

WaitInv ==
  /\ \A s \in Session : Exits(s) /\ Holds(s)
  /\ ListenerServes /\ TickerServes

LEMMA WaitInit == Init => WaitInv
BY FanoutAssumption
DEF Init, WaitInv, Exits, Holds, ListenerServes, TickerServes, AtRest, Waiting, NoTick, NoEvent, Event

\* A step concerns session s alone.
OnlyOf(s) ==
  \A t \in Session \ {s} :
    /\ stage'[t] = stage[t] /\ reader'[t] = reader[t] /\ handler'[t] = handler[t]
    /\ writer'[t] = writer[t] /\ eventCh'[t] = eventCh[t] /\ msgCh'[t] = msgCh[t]

LEMMA ExitsOfOne ==
  ASSUME NEW s \in Session, \A t \in Session : Exits(t), OnlyOf(s),
         stage'[s] # "gone", handler'[s].pc = "exit" => stage'[s] = "closed"
  PROVE  \A t \in Session : Exits(t)'
BY DEF Exits, OnlyOf

LEMMA ExitsHandling ==
  ASSUME FanoutTypes, \A t \in Session : Exits(t), NEW s \in Session, Handling(s)
  PROVE  \A t \in Session : Exits(t)'
<1> USE DEF FanoutTypes
<1>1. stage' = stage /\ reader' = reader /\ writer' = writer
  BY DEF Handling, TakeEvent, HandlerJoins, HandlerSubscribes, HandlerLooksUp, HandlerUnsubscribes,
         HandlerSends, HandlerExits, session
<1>2. /\ stage[s] # "gone"
      /\ handler'[s].pc = "exit" => stage[s] = "closed"
  <2>1. CASE TakeEvent(s)
    BY <2>1 DEF TakeEvent, Handles, HandlerOK
  <2>2. CASE HandlerExits(s)
    BY <2>2 DEF HandlerExits
  <2>3. CASE HandlerJoins(s) \/ HandlerSubscribes(s) \/ HandlerLooksUp(s) \/ HandlerUnsubscribes(s) \/ HandlerSends(s)
    <3>1. handler'[s].pc # "exit" /\ handler[s].pc \notin {"idle", "exit"}
      BY <2>3 DEF HandlerJoins, HandlerSubscribes, HandlerLooksUp, HandlerUnsubscribes, HandlerSends, Handles,
                  HandlerOK
    <3> QED BY <3>1 DEF Exits
  <2> QED BY <2>1, <2>2, <2>3 DEF Handling
<1>3. \A t \in Session \ {s} : handler'[t] = handler[t] /\ eventCh'[t] = eventCh[t] /\ msgCh'[t] = msgCh[t]
  BY DEF Handling, TakeEvent, HandlerJoins, HandlerSubscribes, HandlerLooksUp, HandlerUnsubscribes,
         HandlerSends, HandlerExits, Handles, HandlerOK, ChansOK, chans
<1>4. OnlyOf(s)
  BY <1>1, <1>3 DEF OnlyOf
<1> QED BY <1>1, <1>2, <1>4, ExitsOfOne

LEMMA StopOnceIs ==
  ASSUME SessionOK, NEW s \in Session, stage' = stage \/ StopOnce(s)
  PROVE  /\ stage'[s] = stage[s] \/ (stage[s] = "open" /\ stage'[s] = "stopping")
         /\ \A t \in Session \ {s} : stage'[t] = stage[t]
BY DEF StopOnce, SessionOK

\* A step of the reader or the writer of a session that is not gone.
LEMMA ExitsStep ==
  ASSUME SessionOK, \A t \in Session : Exits(t), NEW s \in Session, stage' = stage \/ StopOnce(s),
         stage[s] # "gone", UNCHANGED <<handler, eventCh>>,
         \A t \in Session \ {s} : reader'[t] = reader[t] /\ writer'[t] = writer[t] /\ msgCh'[t] = msgCh[t]
  PROVE  \A t \in Session : Exits(t)'
<1>1. /\ stage'[s] = stage[s] \/ (stage[s] = "open" /\ stage'[s] = "stopping")
      /\ \A t \in Session \ {s} : stage'[t] = stage[t]
  BY StopOnceIs
<1>2. OnlyOf(s)
  BY <1>1 DEF OnlyOf
<1>3. handler[s].pc = "exit" => stage[s] = "closed"
  BY DEF Exits
<1> QED BY <1>1, <1>2, <1>3, ExitsOfOne

LEMMA ExitsReading ==
  ASSUME FanoutTypes, \A t \in Session : Exits(t), NEW s \in Session,
         \/ Reading(s) \/ Refused(s) \/ ReaderExits(s)
         \/ \E g \in Game : View(s, g) \/ Resume(s, g) \/ FindMatch(s, g)
  PROVE  \A t \in Session : Exits(t)'
<1> USE DEF FanoutTypes, Reading, ViewAnswered, ResumeJoins, Subscribes, MatchSubscribes, ReaderReplies,
            Refused, ReaderExits, View, Resume, FindMatch
<1>1. UNCHANGED <<handler, writer, eventCh>>
  BY DEF chans
<1>2. stage[s] # "gone"
  BY DEF Exits, Connected
<1>3. stage' = stage \/ StopOnce(s)
  BY DEF session
<1>4. \A t \in Session \ {s} : reader'[t] = reader[t] /\ msgCh'[t] = msgCh[t]
  BY DEF Reads, ReaderOK, ChansOK, chans
<1> QED BY <1>1, <1>2, <1>3, <1>4, ExitsStep

LEMMA ExitsWriting ==
  ASSUME FanoutTypes, \A t \in Session : Exits(t), NEW s \in Session, Writing(s)
  PROVE  \A t \in Session : Exits(t)'
<1> USE DEF FanoutTypes, Writing, TakeMsg, Written, WriteFails, WriterExits
<1>1. UNCHANGED <<handler, reader, eventCh>>
  BY DEF chans
<1>2. stage[s] # "gone"
  BY DEF Exits, Connected
<1>3. stage' = stage \/ StopOnce(s)
  BY DEF session
<1>4. \A t \in Session \ {s} : writer'[t] = writer[t] /\ msgCh'[t] = msgCh[t]
  BY DEF Writes, WriterOK, ChansOK, chans
<1> QED BY <1>1, <1>2, <1>3, <1>4, ExitsStep

LEMMA ExitsStopping ==
  ASSUME FanoutTypes, \A t \in Session : Exits(t), NEW s \in Session, Stopping(s) \/ Overdue(s)
  PROVE  \A t \in Session : Exits(t)'
<1> USE DEF FanoutTypes
<1>1. CASE StopEnds(s)
  <2>1. reader' = reader /\ handler' = handler /\ writer' = writer
    BY <1>1 DEF StopEnds, threads
  <2>2. \A t \in Session \ {s} : /\ stage'[t] = stage[t] /\ eventCh'[t] = eventCh[t]
                                 /\ msgCh'[t] = msgCh[t]
    BY <1>1 DEF StopEnds, SessionOK, ChansOK
  <2>3. /\ stage'[s] = "gone" /\ eventCh'[s] = <<>> /\ msgCh'[s] = <<>>
        /\ reader[s].pc = "exit" /\ handler[s].pc = "exit" /\ writer[s].pc = "exit"
    BY <1>1 DEF StopEnds, SessionOK, ChansOK
  <2> QED BY <2>1, <2>2, <2>3 DEF Exits
<1>2. CASE ~StopEnds(s)
  <2>1. UNCHANGED <<reader, handler, writer, eventCh, msgCh>>
    BY <1>2 DEF Stopping, StopReads, StopLooksUp, StopCloses, Overdue, StopUnsubscribes, threads, chans
  <2>2. /\ stage[s] \in {"open", "stopping", "finding", "leaving"}
        /\ stage'[s] \in {"stopping", "finding", "leaving", "closed"}
        /\ \A t \in Session \ {s} : stage'[t] = stage[t]
    BY <1>2 DEF Stopping, StopReads, StopLooksUp, StopCloses, Overdue, StopUnsubscribes, StopOnce, SessionOK
  <2>3. OnlyOf(s)
    BY <2>1, <2>2 DEF OnlyOf
  <2>4. handler'[s].pc # "exit"
    BY <2>1, <2>2 DEF Exits
  <2> QED BY <2>2, <2>3, <2>4, ExitsOfOne
<1> QED BY <1>1, <1>2

LEMMA ExitsNext ==
  ASSUME FanoutTypes, \A t \in Session : Exits(t), [Next]_vars
  PROVE  \A t \in Session : Exits(t)'
<1>1. ASSUME UNCHANGED <<session, threads, chans>> PROVE \A t \in Session : Exits(t)'
  BY <1>1 DEF session, threads, chans, Exits
<1>2. CASE \/ UNCHANGED vars \/ (\E g \in Game : ListenGame(g) \/ ListenChat(g) \/ ListenCreated(g))
           \/ Lookup \/ MatchRound \/ Keep \/ Broadcast \/ Expire \/ Ping
           \/ (\E g \in Game : PingPublishes(g)) \/ CleanTick
  BY <1>1, <1>2 DEF vars, ListenGame, ListenChat, ListenCreated, Lookup, MatchRound, Keep, Broadcast, Expire,
                    Ping, PingPublishes, CleanTick
<1>3. ASSUME NEW s \in Session, Consume(s) \/ BroadcastSends(s) \/ PingSends(s)
      PROVE  \A t \in Session : Exits(t)'
  <2>1. UNCHANGED <<session, threads>>
    BY <1>3 DEF Consume, BroadcastSends, PingSends
  <2>2. \A t \in Session : stage[t] = "gone" => eventCh'[t] = eventCh[t] /\ msgCh'[t] = msgCh[t]
    BY <1>3 DEF Consume, BroadcastSends, Deliver, PingSends, FanoutTypes, ChansOK
  <2> QED BY <2>1, <2>2 DEF session, threads, Exits
<1> QED BY <1>2, <1>3, ExitsHandling, ExitsReading, ExitsWriting, ExitsStopping
        DEF Next, Listening, Casting, Ticking

\* One goroutine of session s goes to pc; the lock gcmu is as before, taken or released.
LEMMA HoldsStep ==
  ASSUME \A t \in Session : Holds(t), NEW s \in Session,
         \A t \in Session \ {s} : reader'[t] = reader[t] /\ handler'[t] = handler[t],
         \/ gcmu' = gcmu /\ (reader'[s].pc = "add" <=> reader[s].pc = "add")
                         /\ (handler'[s].pc = "add" <=> handler[s].pc = "add")
         \/ gcmu = Nobody /\ gcmu' = s /\ (reader'[s].pc = "add" <=> handler'[s].pc # "add")
         \/ gcmu = s /\ gcmu' = Nobody /\ reader'[s].pc # "add" /\ handler'[s].pc # "add"
  PROVE  \A t \in Session : Holds(t)'
BY FanoutAssumption DEF Holds

LEMMA HoldsHandling ==
  ASSUME FanoutTypes, \A t \in Session : Holds(t), NEW s \in Session, Handling(s)
  PROVE  \A t \in Session : Holds(t)'
<1> USE DEF FanoutTypes
<1>1. /\ reader' = reader
      /\ \A t \in Session \ {s} : handler'[t] = handler[t]
  BY DEF Handling, TakeEvent, HandlerJoins, HandlerSubscribes, HandlerLooksUp, HandlerUnsubscribes,
         HandlerSends, HandlerExits, Handles, HandlerOK
<1>2. CASE ~HandlerSubscribes(s)
  <2>1. gcmu' = gcmu
    BY <1>2 DEF Handling, TakeEvent, HandlerJoins, HandlerLooksUp, HandlerUnsubscribes, HandlerSends,
                HandlerExits, locks
  <2>2. handler'[s].pc # "add" /\ handler[s].pc # "add"
    BY <1>2 DEF Handling, TakeEvent, HandlerJoins, HandlerLooksUp, HandlerUnsubscribes, HandlerSends,
                HandlerExits, Handles, HandlerOK
  <2> QED BY <1>1, <2>1, <2>2, HoldsStep
<1>3. CASE HandlerSubscribes(s)
  <2>1. Holds(s) /\ reader'[s] = reader[s]
    BY <1>1
  <2>2. CASE handler[s].pc = "subscribe" /\ Enters(s, handler[s].event.game) /\ Handles(s, "send", Reply)
    BY <1>1, <2>2, HoldsStep DEF Enters, Handles, HandlerOK
  <2>3. CASE handler[s].pc = "subscribe" /\ Queues(s, handler[s].event.game) /\ Handles(s, "add", handler[s].event)
    <3>1. gcmu = Nobody /\ gcmu' = s /\ handler'[s].pc = "add" /\ handler[s].pc # "add"
      BY <2>3 DEF Queues, Handles, HandlerOK
    <3>2. reader[s].pc # "add"
      BY <2>1, <3>1, FanoutAssumption DEF Holds
    <3> QED BY <1>1, <3>1, <3>2, HoldsStep
  <2>4. CASE handler[s].pc = "add" /\ Adds(s, handler[s].event.game) /\ Handles(s, "send", Reply)
    <3>1. gcmu' = Nobody /\ handler'[s].pc # "add"
      BY <2>4 DEF Adds, Handles, HandlerOK
    <3>2. reader[s].pc # "add" /\ gcmu = s
      BY <2>1, <2>4 DEF Holds
    <3> QED BY <1>1, <3>1, <3>2, HoldsStep
  <2> QED BY <1>3, <2>2, <2>3, <2>4 DEF HandlerSubscribes
<1> QED BY <1>2, <1>3

LEMMA HoldsReading ==
  ASSUME FanoutTypes, \A t \in Session : Holds(t), NEW s \in Session,
         \/ Reading(s) \/ Refused(s) \/ ReaderExits(s)
         \/ \E g \in Game : View(s, g) \/ Resume(s, g) \/ FindMatch(s, g)
  PROVE  \A t \in Session : Holds(t)'
<1> USE DEF FanoutTypes
<1>1. /\ handler' = handler
      /\ \A t \in Session \ {s} : reader'[t] = reader[t]
  BY DEF Reading, ViewAnswered, ResumeJoins, Subscribes, MatchSubscribes, ReaderReplies, Refused, ReaderExits,
         View, Resume, FindMatch, Reads, ReaderOK
<1>2. CASE ~Subscribes(s)
  <2>1. gcmu' = gcmu
    BY <1>2 DEF Reading, ViewAnswered, ResumeJoins, MatchSubscribes, ReaderReplies, Refused, ReaderExits,
                View, Resume, FindMatch, locks
  <2>2. reader'[s].pc # "add" /\ reader[s].pc # "add"
    BY <1>2 DEF Reading, ViewAnswered, ResumeJoins, MatchSubscribes, ReaderReplies, Refused, ReaderExits,
                View, Resume, FindMatch, Reads, ReaderOK
  <2> QED BY <1>1, <2>1, <2>2, HoldsStep
<1>3. CASE Subscribes(s)
  <2>1. Holds(s) /\ handler'[s] = handler[s]
    BY <1>1
  <2>2. CASE reader[s].pc = "subscribe" /\ Enters(s, reader[s].event.game) /\ Reads(s, "reply", Reply)
    BY <1>1, <2>2, HoldsStep DEF Enters, Reads, ReaderOK
  <2>3. CASE reader[s].pc = "subscribe" /\ Queues(s, reader[s].event.game) /\ Reads(s, "add", reader[s].event)
    <3>1. gcmu = Nobody /\ gcmu' = s /\ reader'[s].pc = "add" /\ reader[s].pc # "add"
      BY <2>3 DEF Queues, Reads, ReaderOK
    <3>2. handler[s].pc # "add"
      BY <2>1, <3>1, FanoutAssumption DEF Holds
    <3> QED BY <1>1, <3>1, <3>2, HoldsStep
  <2>4. CASE reader[s].pc = "add" /\ Adds(s, reader[s].event.game) /\ Reads(s, "reply", Reply)
    <3>1. gcmu' = Nobody /\ reader'[s].pc # "add"
      BY <2>4 DEF Adds, Reads, ReaderOK
    <3>2. handler[s].pc # "add" /\ gcmu = s
      BY <2>1, <2>4 DEF Holds
    <3> QED BY <1>1, <3>1, <3>2, HoldsStep
  <2> QED BY <1>3, <2>2, <2>3, <2>4 DEF Subscribes
<1> QED BY <1>2, <1>3

LEMMA HoldsNext ==
  ASSUME FanoutTypes, \A t \in Session : Holds(t), [Next]_vars
  PROVE  \A t \in Session : Holds(t)'
<1>1. ASSUME UNCHANGED <<reader, handler, gcmu>> PROVE \A t \in Session : Holds(t)'
  BY <1>1 DEF Holds
<1>2. CASE \/ UNCHANGED vars \/ (\E g \in Game : ListenGame(g) \/ ListenChat(g) \/ ListenCreated(g))
           \/ Listening \/ Broadcast \/ Casting \/ Expire \/ Ticking \/ Ping \/ CleanTick
  BY <1>1, <1>2
  DEF vars, threads, locks, ListenGame, ListenChat, ListenCreated, Listening, Lookup, MatchRound, Keep, Consume,
      Broadcast, Casting, BroadcastSends, Expire, Ticking, PingPublishes, PingSends, Ping, CleanTick
<1>3. ASSUME NEW s \in Session, Writing(s) \/ Stopping(s) \/ Overdue(s) PROVE \A t \in Session : Holds(t)'
  BY <1>1, <1>3
  DEF Writing, TakeMsg, Written, WriteFails, WriterExits, Stopping, StopReads, StopLooksUp, StopUnsubscribes,
      StopCloses, StopEnds, Overdue, locks, threads
<1> QED BY <1>2, <1>3, HoldsHandling, HoldsReading DEF Next

LEMMA ListenerNext ==
  ASSUME ListenerOK, ListenerServes, [Next]_vars
  PROVE  ListenerServes'
<1>1. ASSUME listener' = listener PROVE ListenerServes'
  BY <1>1 DEF ListenerServes
<1>2. CASE \E g \in Game : ListenGame(g) \/ ListenChat(g) \/ ListenCreated(g)
  <2>1. listener.pc = "idle" /\ listener'.holds = listener.holds
    BY <1>2 DEF ListenGame, ListenChat, ListenCreated, ListenerOK
  <2> QED BY <2>1 DEF ListenerServes
<1>3. CASE Lookup
  <2>1. listener.pc = "lookup" /\ listener.event.kind # "created"
    BY <1>3 DEF Lookup, ListenerOK
  <2>2. CASE listener' = Waiting
    BY <2>2 DEF Waiting, ListenerServes
  <2>3. CASE listener' = [listener EXCEPT !.pc = "send", !.holds = listener.event.game,
                                          !.left = gameSubs[listener.event.game]]
    <3>1. listener'.pc = "send" /\ listener'.event = listener.event
      BY <2>3 DEF ListenerOK
    <3> QED BY <2>1, <3>1 DEF ListenerServes
  <2> QED BY <1>3, <2>2, <2>3 DEF Lookup
<1>4. CASE MatchRound
  <2>1. listener.pc = "match" /\ listener'.holds = listener.holds
    BY <1>4 DEF MatchRound, ListenerOK
  <2> QED BY <2>1 DEF ListenerServes
<1>5. CASE Keep
  BY <1>5 DEF Keep, Waiting, ListenerServes
<1>6. ASSUME NEW s \in Session, Consume(s) PROVE ListenerServes'
  <2>1. CASE listener' = Waiting
    BY <2>1 DEF Waiting, ListenerServes
  <2>2. CASE listener' = [listener EXCEPT !.left = listener.left \ {s}]
    <3>1. /\ listener'.pc = listener.pc /\ listener'.holds = listener.holds
          /\ listener'.event = listener.event
      BY <2>2 DEF ListenerOK
    <3> QED BY <3>1 DEF ListenerServes
  <2>3. CASE listener.event.kind = "created" /\ listener' = [listener EXCEPT !.pc = "keep", !.left = {}]
    <3>1. listener'.holds = listener.holds
      BY <2>3 DEF ListenerOK
    <3> QED BY <2>3, <3>1 DEF ListenerServes
  <2> QED BY <1>6, <2>1, <2>2, <2>3 DEF Consume, Served
<1>7. CASE CleanTick
  <2>1. listener'.pc = listener.pc /\ listener'.event = listener.event
        /\ (listener'.holds = NoGame \/ listener'.holds = listener.holds)
    BY <1>7 DEF CleanTick, ListenerOK
  <2> QED BY <2>1 DEF ListenerServes
<1>8. CASE UNCHANGED vars \/ Broadcast \/ Casting \/ Expire \/ Ticking \/ Ping
  BY <1>1, <1>8 DEF vars, Broadcast, Casting, BroadcastSends, Expire, Ticking, PingPublishes, PingSends, Ping
<1>9. ASSUME NEW s \in Session, NEW g \in Game, View(s, g) \/ Resume(s, g) \/ FindMatch(s, g)
      PROVE  listener' = listener
  BY <1>9 DEF View, Resume, FindMatch
<1>10. ASSUME NEW s \in Session,
              \/ Handling(s) \/ Reading(s) \/ Writing(s) \/ Stopping(s) \/ Refused(s) \/ ReaderExits(s)
              \/ Overdue(s)
       PROVE  listener' = listener
  BY <1>10
  DEF Handling, TakeEvent, HandlerJoins, HandlerSubscribes, HandlerLooksUp, HandlerUnsubscribes, HandlerSends,
      HandlerExits, Reading, ViewAnswered, ResumeJoins, Subscribes, MatchSubscribes, ReaderReplies, Writing,
      TakeMsg, Written, WriteFails, WriterExits, Stopping, StopReads, StopLooksUp, StopUnsubscribes, StopCloses,
      StopEnds, Refused, ReaderExits, Overdue
<1> QED BY <1>1, <1>2, <1>3, <1>4, <1>5, <1>6, <1>7, <1>8, <1>9, <1>10 DEF Next, Listening

LEMMA TickerNext ==
  ASSUME TickerOK, TickerServes, [Next]_vars
  PROVE  TickerServes'
<1>1. CASE ticker' = ticker
  BY <1>1 DEF TickerServes
<1>2. CASE ticker' = NoTick
  BY <1>2 DEF TickerServes, NoTick
<1>3. ASSUME NEW todo, todo # {}, ticker' = [NoTick EXCEPT !.pc = "publish", !.todo = todo]
      PROVE  TickerServes'
  BY <1>3 DEF TickerServes, NoTick
<1>4. CASE Ping
  BY <1>3, <1>4 DEF Ping, ViewerLists
<1>5. ASSUME NEW g \in Game, PingPublishes(g) PROVE TickerServes'
  <2>1. CASE ticker' = [pc |-> "send", todo |-> ticker.todo \ {g}, holds |-> g, left |-> gameSubs[g]]
             /\ gameSubs[g] # {}
    BY <2>1 DEF TickerServes
  <2>2. CASE ticker' = [ticker EXCEPT !.todo = ticker.todo \ {g}] /\ ticker.todo \ {g} # {}
    <3>1. /\ ticker.pc = "publish" /\ ticker'.pc = "publish" /\ ticker'.holds = ticker.holds
          /\ ticker'.todo # {}
      BY <1>5, <2>2 DEF PingPublishes, TickerOK
    <3> QED BY <3>1 DEF TickerServes
  <2> QED BY <1>2, <1>5, <2>1, <2>2 DEF PingPublishes
<1>6. ASSUME NEW s \in Session, PingSends(s) PROVE TickerServes'
  <2>1. CASE ticker' = [ticker EXCEPT !.left = ticker.left \ {s}] /\ ticker.left # {s}
    <3>1. /\ ticker.pc = "send" /\ ticker'.pc = "send" /\ ticker'.left # {}
      BY <1>6, <2>1 DEF PingSends, TickerOK
    <3> QED BY <3>1 DEF TickerServes
  <2> QED BY <1>2, <1>3, <1>6, <2>1 DEF PingSends
<1>7. ticker' = ticker \/ Ping \/ Ticking
  <2>1. ASSUME NEW s \in Session, Handling(s) \/ Writing(s) \/ Stopping(s) \/ Overdue(s) PROVE ticker' = ticker
    BY <2>1 DEF Handling, TakeEvent, HandlerJoins, HandlerSubscribes, HandlerLooksUp, HandlerUnsubscribes,
                HandlerSends, HandlerExits, Writing, TakeMsg, Written, WriteFails, WriterExits,
                Stopping, StopReads, StopLooksUp, StopUnsubscribes, StopCloses, StopEnds, Overdue
  <2>2. ASSUME NEW s \in Session, \/ Reading(s) \/ Refused(s) \/ ReaderExits(s)
                                  \/ \E g \in Game : View(s, g) \/ Resume(s, g) \/ FindMatch(s, g)
        PROVE  ticker' = ticker
    BY <2>2 DEF Reading, ViewAnswered, ResumeJoins, Subscribes, MatchSubscribes, ReaderReplies, Refused,
                ReaderExits, View, Resume, FindMatch
  <2>3. CASE \/ (\E g \in Game : ListenGame(g) \/ ListenChat(g) \/ ListenCreated(g)) \/ Listening \/ Broadcast
             \/ Casting \/ Expire \/ CleanTick \/ UNCHANGED vars
    BY <2>3 DEF ListenGame, ListenChat, ListenCreated, Listening, Lookup, MatchRound, Keep, Consume, Broadcast,
                Casting, BroadcastSends, Expire, CleanTick, vars
  <2> QED BY <2>1, <2>2, <2>3 DEF Next
<1> QED BY <1>1, <1>4, <1>5, <1>6, <1>7 DEF Ticking

LEMMA WaitNext == FanoutTypes /\ WaitInv /\ [Next]_vars => WaitInv'
BY ExitsNext, HoldsNext, ListenerNext, TickerNext DEF FanoutTypes, WaitInv

\* The chain of who waits for whom ends at somebody who can go on, or at one of the
\* three known sessions.
LEMMA ChainsEnd ==
  ASSUME FanoutTypes, WaitInv, ~Stuck, ~SomebodyGoesOn
  PROVE  /\ listener.pc = "idle" /\ casting = {} /\ ticker.pc = "idle"
         /\ \A s \in Session : /\ stage[s] \notin {"stopping", "finding", "leaving", "closed"}
                               /\ handler[s].pc \in {"idle", "exit"} /\ reader[s].pc \in {"idle", "exit"}
<1> USE FanoutAssumption DEF Full
<1>1. \A s \in Session : /\ ~WriterGone(s) /\ ~HandlerWaits(s) /\ ~HandlerGone(s)
                         /\ ~HandlerGoesOn(s) /\ ~ReaderGoesOn(s) /\ ~WriterGoesOn(s) /\ ~StopGoesOn(s)
                         /\ Exits(s) /\ Holds(s)
  BY DEF Stuck, SomebodyGoesOn, WaitInv
\* The writer of a session in use empties msgCh: nobody waits for room in it.
<1>2. ASSUME NEW s \in Session
      PROVE  /\ ~Full(msgCh[s], MsgCap) /\ writer[s].pc # "write"
             /\ handler[s].pc \notin {"send", "join"} /\ reader[s].pc \notin {"reply", "ask", "join"}
  <2>1. writer[s].pc # "write"
    BY <1>1 DEF WriterGoesOn, Exits
  <2>2. writer[s].pc = "idle" => msgCh[s] = <<>>
    BY <1>1 DEF WriterGoesOn
  <2>3. ~Full(msgCh[s], MsgCap)
    BY <1>1, <2>1, <2>2 DEF WriterGone, Exits, FanoutTypes, WriterOK, ChansOK
  <2> QED BY <1>1, <2>1, <2>3 DEF HandlerGoesOn, ReaderGoesOn
<1>3. ticker.pc # "send" /\ \A g \in Game : ticker.holds # g
  BY <1>2 DEF SomebodyGoesOn, TickerGoesOn, WaitInv, TickerServes, FanoutTypes, TickerOK
\* Whom listener or broadcast routine wait for would be the second or the third kind.
<1>4. ASSUME NEW s \in Session PROVE ~SentTo(s)
  <2> SUFFICES ASSUME SentTo(s) PROVE FALSE
    OBVIOUS
  <2>1. stage[s] # "gone" /\ eventCh[s] # <<>>
    BY DEF SentTo, FanoutTypes, ChansOK
  <2>2. handler[s].pc = "exit" /\ stage[s] = "closed"
    <3>1. handler[s].pc # "idle" /\ handler[s].pc \notin LockWait
      BY <1>1, <2>1 DEF HandlerGoesOn, HandlerWaits
    <3> QED BY <1>1, <1>2, <2>1, <3>1 DEF LockWait, Exits, FanoutTypes, HandlerOK
  <2>3. writer[s].pc = "exit"
    BY <1>1, <1>2, <2>2 DEF WriterGoesOn, FanoutTypes, WriterOK
  <2>4. reader[s].pc \in LockWait
    BY <1>1, <1>2, <2>2, <2>3 DEF ReaderGoesOn, StopGoesOn, LockWait, FanoutTypes, ReaderOK
  <2> QED BY <1>1, <2>2, <2>4 DEF HandlerGone
<1>5. listener.pc # "send" /\ casting = {}
  <2>1. \A s \in listener.left \cup casting : s \in Session
    BY DEF FanoutTypes, ListenerOK, MatchesOK
  <2>2. casting = {}
    BY <1>4, <2>1 DEF SentTo, SomebodyGoesOn, BroadcastGoesOn
  <2>3. listener.left # {} => listener.pc # "send"
    BY <1>4, <2>1 DEF SentTo, SomebodyGoesOn, ListenerGoesOn
  <2> QED BY <2>2, <2>3 DEF FanoutTypes, ListenerOK
\* So every lock is free ...
<1>6. \A g \in Game : ~ReadLocked(g) /\ ~Serving(g)
  BY <1>3, <1>5 DEF Serving, ReadLocked, InRound, WaitInv, ListenerServes
<1>7. ~MmuHeld
  BY <1>5 DEF MmuHeld, InRound
<1>8. ASSUME NEW s \in Session PROVE reader[s].pc # "add" /\ handler[s].pc # "add"
  <2>1. /\ reader[s].pc = "add" => reader[s].event.game \in Game
        /\ handler[s].pc = "add" => handler[s].event.game \in Game
    BY DEF FanoutTypes, ReaderOK, HandlerOK, Starts, Heard
  <2> QED BY <1>1, <1>6, <2>1 DEF ReaderGoesOn, HandlerGoesOn
<1>9. gcmu = Nobody
  BY <1>1, <1>8 DEF Holds, FanoutTypes, LocksOK
\* ... and who waits for one goes on.
<1>10. listener.pc = "idle"
  BY <1>5, <1>7, <1>9 DEF SomebodyGoesOn, ListenerGoesOn, FanoutTypes, ListenerOK
<1>11. ticker.pc = "idle"
  BY <1>3, <1>9 DEF SomebodyGoesOn, TickerGoesOn, WaitInv, TickerServes, FanoutTypes, TickerOK
<1> SUFFICES ASSUME NEW s \in Session
             PROVE  /\ stage[s] \notin {"stopping", "finding", "leaving", "closed"}
                    /\ handler[s].pc \in {"idle", "exit"} /\ reader[s].pc \in {"idle", "exit"}
  BY <1>5, <1>10, <1>11
<1>12. handler[s].pc \in {"idle", "exit"}
  <2>1. handler[s].pc = "lock" => handler[s].event.game \in Game
    BY DEF FanoutTypes, HandlerOK, Ends
  <2> QED BY <1>1, <1>2, <1>6, <1>8, <1>9, <2>1 DEF HandlerGoesOn, FanoutTypes, HandlerOK
<1>13. reader[s].pc \in {"idle", "exit"}
  BY <1>1, <1>2, <1>7, <1>8, <1>9 DEF ReaderGoesOn, FanoutTypes, ReaderOK
<1>14. stage[s] \notin {"stopping", "finding"}
  BY <1>1, <1>7, <1>9 DEF StopGoesOn
<1>15. stage[s] # "leaving"
  <2>1. leaving[s] \subseteq Game
    BY DEF FanoutTypes, SessionOK
  <2> QED BY <1>1, <1>6, <2>1 DEF StopGoesOn
<1>16. stage[s] # "closed"
  <2>1. stage[s] = "closed" => writer[s].pc = "exit"
    BY <1>1, <1>2 DEF WriterGoesOn, FanoutTypes, WriterOK
  <2> QED BY <1>1, <1>12, <1>13, <2>1 DEF StopGoesOn, HandlerGoesOn, ReaderGoesOn
<1> QED BY <1>12, <1>13, <1>14, <1>15, <1>16

\* Whatever the listener, the broadcast routine, the ticker, the goroutines of the sessions
\* and their ends wait for: one of them can go on, or there is a session of the three
\* kinds.  There is no fourth, for any number of sessions and games.
THEOREM AllDeadlocksKnownHolds == Spec => []AllDeadlocksKnown
<1>1. FanoutTypes /\ WaitInv => AllDeadlocksKnown
  BY ChainsEnd DEF AllDeadlocksKnown
<1> QED BY <1>1, TypesInit, WaitInit, NextTypes, WaitNext, PTL DEF Spec

=============================================================================
