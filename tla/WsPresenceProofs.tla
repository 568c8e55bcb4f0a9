-------------------------- MODULE WsPresenceProofs --------------------------
(***************************************************************************)
(* Theorems about a user's sessions at one gateway, for any sessions and   *)
(* games.  What the code promises while Redis fails or the ticker runs is  *)
(* little: each theorem names what it excludes.                            *)
(***************************************************************************)
EXTENDS WsPresence, FiniteSetTheorems, TLAPS

-----------------------------------------------------------------------------
(* Types *)

Seat      == OwnGame \cup {NoGame}
Stage     == {"new", "added", "open", "stopping", "closing", "cleaning", "leaving", "gone"}
ReaderRec == [pc: {"idle", "resume", "join", "watch"}, game: Maybe]
HandlerRec == [pc: {"idle", "join", "clear", "unsubscribe"}, game: Maybe]
\* An event that may be heard: only the user's own games are created for him.
Heard == {e \in Event : e.kind = "created" => e.game \in OwnGame}

GamesOK ==
  /\ status \in [Game -> {"none", "live", "over"}] /\ heard \subseteq Heard
  /\ \A g \in Game : Ended(g) \in heard => status[g] = "over"
HashOK == /\ entry \in [Session -> Seat \cup {Absent}] /\ seated \subseteq OwnGame
          /\ stale \subseteq Session
ManagerOK == due \subseteq Session /\ registered \subseteq Session
LocalOK ==
  /\ stage \in [Session -> Stage]
  /\ play \in [Session -> Seat] /\ match \in [Session -> Seat] /\ views \in [Session -> SUBSET Game]
ReaderOK ==
  /\ reader \in [Session -> ReaderRec]
  /\ \A s \in Session : /\ reader[s].pc \in {"resume", "join"} => reader[s].game \in OwnGame
                        /\ reader[s].pc = "watch" => reader[s].game \in Game
                        /\ reader[s].pc = "idle" => reader[s] = Idle
HandlerOK ==
  /\ handler \in [Session -> HandlerRec]
  /\ \A s \in Session : /\ handler[s].pc = "join" => handler[s].game \in OwnGame
                        /\ handler[s].pc \in {"clear", "unsubscribe"} => handler[s].game \in Game
                        /\ handler[s].pc = "idle" => handler[s] = Idle
QueueOK == eventCh \in [Session -> Seq(heard)]
SubsOK == /\ matchSub \in [Session -> {"none", "waiting", "broadcasted"}]
          /\ gameSubs \in [Game -> SUBSET Session]
TickOK ==
  /\ tick.pc \in {"idle", "write", "find", "delete"}
  /\ tick = [pc |-> tick.pc, play |-> tick.play, doomed |-> tick.doomed]
  /\ tick.doomed \subseteq Session /\ elsewhere \subseteq Session
  /\ DOMAIN tick.play \subseteq Session /\ \A s \in DOMAIN tick.play : tick.play[s] \in Seat

PresenceTypes == /\ GamesOK /\ HashOK /\ LocalOK /\ ReaderOK /\ HandlerOK /\ QueueOK /\ SubsOK
                 /\ TickOK /\ ManagerOK

LEMMA TypesInit == Init => PresenceTypes
<1> SUFFICES ASSUME Init PROVE PresenceTypes
  OBVIOUS
<1>1. GamesOK /\ HashOK /\ LocalOK /\ SubsOK /\ ManagerOK
  BY PresenceAssumption
  DEF Init, GamesOK, HashOK, LocalOK, SubsOK, ManagerOK, Game, Seat, Stage, Heard
<1>2. ReaderOK /\ HandlerOK
  BY DEF Init, ReaderOK, HandlerOK, Idle, ReaderRec, HandlerRec, Maybe
<1>3. QueueOK
  BY DEF Init, QueueOK
<1>4. TickOK
  BY DEF Init, TickOK, NoTick
<1> QED BY <1>1, <1>2, <1>3, <1>4 DEF PresenceTypes

LEMMA SeqOfMore ==
  ASSUME NEW A, NEW B, A \subseteq B
  PROVE  Seq(A) \subseteq Seq(B)
OBVIOUS

\* An event that is heard goes to sessions whose channel is open.
LEMMA DeliverKeeps ==
  ASSUME QueueOK, heard \subseteq heard', NEW e \in heard', NEW ss, Deliver(e, ss)
  PROVE  QueueOK'
<1> SUFFICES ASSUME NEW s \in Session PROVE eventCh'[s] \in Seq(heard')
  BY DEF QueueOK, Deliver
<1>1. eventCh[s] \in Seq(heard')
  BY SeqOfMore DEF QueueOK
<1>2. eventCh'[s] = Append(eventCh[s], e) \/ eventCh'[s] = eventCh[s]
  BY DEF Deliver
<1> QED BY <1>1, <1>2

LEMMA TakeKeeps ==
  ASSUME QueueOK, NEW s \in Session, eventCh[s] # <<>>, eventCh' = [eventCh EXCEPT ![s] = Tail(@)]
  PROVE  Head(eventCh[s]) \in heard /\ eventCh' \in [Session -> Seq(heard)]
<1>1. PICK q \in Seq(heard) : q = eventCh[s]
  BY DEF QueueOK
<1>2. Head(q) \in heard /\ Tail(q) \in Seq(heard)
  BY <1>1
<1> QED BY <1>1, <1>2 DEF QueueOK

LEMMA NextTypes == PresenceTypes /\ [Next]_vars => PresenceTypes'
<1> SUFFICES ASSUME PresenceTypes, [Next]_vars
             PROVE  PresenceTypes'
  OBVIOUS
<1> USE DEF PresenceTypes
<1>0. /\ UNCHANGED games => GamesOK'
      /\ UNCHANGED hash => HashOK'
      /\ UNCHANGED <<stage, local>> => LocalOK'
      /\ UNCHANGED reader => ReaderOK'
      /\ UNCHANGED handler => HandlerOK'
      /\ UNCHANGED <<heard, eventCh>> => QueueOK'
      /\ UNCHANGED subs => SubsOK'
      /\ UNCHANGED tickers => TickOK'
      /\ UNCHANGED manager => ManagerOK'
  BY DEF games, hash, local, subs, tickers, manager, GamesOK, HashOK, LocalOK, ReaderOK, HandlerOK,
         QueueOK, SubsOK, TickOK, ManagerOK
<1>z. ASSUME NEW s \in Session, NEW g \in OwnGame, Join(s, g), UNCHANGED <<stage, match, views, matchSub>>
      PROVE  HashOK' /\ LocalOK' /\ SubsOK'
  <2>1. /\ Put(s, g) \/ UNCHANGED <<entry, stale>>
        /\ seated' = seated \cup {g} \/ seated' = seated
        /\ play' = [play EXCEPT ![s] = NoGame] \/ play' = play
        /\ gameSubs' = [gameSubs EXCEPT ![g] = @ \cup {s}] \/ gameSubs' = gameSubs
    BY <1>z DEF Join
  <2> QED BY <1>z, <2>1, PresenceAssumption DEF Put, HashOK, LocalOK, SubsOK, Seat, Game
<1>1. CASE UNCHANGED vars
  BY <1>0, <1>1 DEF vars, games, hash, local, threads, subs
<1>2. ASSUME NEW g \in OwnGame, GameStarts(g) PROVE PresenceTypes'
  <2>1. GamesOK'
    BY <1>2 DEF GameStarts, GamesOK, Game
  <2> QED BY <1>0, <1>2, <2>1 DEF GameStarts, hash, local, threads, subs
<1>3. ASSUME NEW g \in Game, GameEnds(g) PROVE PresenceTypes'
  <2>1. GamesOK'
    BY <1>3 DEF GameEnds, GamesOK
  <2> QED BY <1>0, <1>3, <2>1 DEF GameEnds, hash, local, threads, subs
<1>4. ASSUME NEW g \in OwnGame, ListenCreated(g) PROVE PresenceTypes'
  <2>1. GamesOK'
    BY <1>4 DEF ListenCreated, GamesOK, Created, Ended, Heard, Event, Game
  <2>2. QueueOK'
    BY <1>4, DeliverKeeps DEF ListenCreated
  <2> QED BY <1>0, <1>4, <2>1, <2>2 DEF ListenCreated, hash, local, threads, subs
<1>5. ASSUME NEW g \in Game, ListenEnded(g) PROVE PresenceTypes'
  <2>1. GamesOK'
    BY <1>5 DEF ListenEnded, GamesOK, Ended, Heard, Event
  <2>2. QueueOK'
    BY <1>5, DeliverKeeps DEF ListenEnded
  <2> QED BY <1>0, <1>5, <2>1, <2>2 DEF ListenEnded, hash, local, threads, subs
<1>6. ASSUME NEW s \in Session, Broadcast(s) PROVE PresenceTypes'
  <2>1. QueueOK'
    BY <1>6, DeliverKeeps DEF Broadcast, games
  <2>2. SubsOK'
    BY <1>6 DEF Broadcast, SubsOK
  <2> QED BY <1>0, <1>6, <2>1, <2>2 DEF Broadcast, hash, local, threads
<1>7. ASSUME NEW s \in Session, Connect(s) PROVE PresenceTypes'
  <2>1. PICK ok, applied \in BOOLEAN :
          /\ IF applied THEN Put(s, NoGame) ELSE UNCHANGED <<entry, stale>>
          /\ stage' = [stage EXCEPT ![s] = IF ok THEN "added" ELSE "gone"]
    BY <1>7 DEF Connect
  <2>2. HashOK'
    BY <1>7, <2>1 DEF Connect, Put, HashOK, Seat
  <2>3. LocalOK'
    BY <1>7, <2>1 DEF Connect, local, LocalOK, Stage
  <2> QED BY <1>0, <1>7, <2>2, <2>3 DEF Connect, threads, games
<1>12. ASSUME NEW s \in Session, Open(s) \/ Register(s) \/ GrowsOld(s) PROVE PresenceTypes'
  <2>1. CASE Open(s)
    <3>1. LocalOK' /\ ManagerOK'
      BY <2>1 DEF Open, local, LocalOK, ManagerOK, Stage
    <3> QED BY <1>0, <2>1, <3>1 DEF Open, games, hash, threads
  <2>2. CASE Register(s)
    <3>1. ManagerOK'
      BY <2>2 DEF Register, ManagerOK
    <3> QED BY <1>0, <2>2, <3>1 DEF Register, games, hash, local, threads
  <2>3. CASE GrowsOld(s)
    <3>1. HashOK'
      BY <2>3 DEF GrowsOld, HashOK
    <3> QED BY <1>0, <2>3, <3>1 DEF GrowsOld, games, local, threads
  <2> QED BY <1>12, <2>1, <2>2, <2>3
<1>8. ASSUME NEW s \in Session, ReaderStep(s) PROVE PresenceTypes'
  <2>1. ASSUME NEW g \in OwnGame, FindMatch(s, g) PROVE PresenceTypes'
    <3>1. LocalOK' /\ SubsOK'
      BY <2>1 DEF FindMatch, LocalOK, SubsOK, Seat
    <3> QED BY <1>0, <2>1, <3>1 DEF FindMatch, games, hash, threads
  <2>2. ASSUME NEW g \in OwnGame, Resume(s, g) PROVE PresenceTypes'
    <3>1. ReaderOK'
      BY <2>2 DEF Resume, Reads, ReaderOK, ReaderRec, Maybe, Game
    <3> QED BY <1>0, <2>2, <3>1 DEF Resume, games, hash, local
  <2>3. ASSUME NEW g \in Game, View(s, g) PROVE PresenceTypes'
    <3>1. ReaderOK'
      BY <2>3 DEF View, Reads, ReaderOK, ReaderRec, Maybe
    <3>2. LocalOK'
      BY <2>3 DEF View, LocalOK
    <3> QED BY <1>0, <2>3, <3>1, <3>2 DEF View, games, hash
  <2>4. CASE ResumeStore(s)
    <3>1. reader[s].game \in OwnGame
      BY <2>4 DEF ResumeStore, ReaderOK
    <3>2. ReaderOK'
      BY <2>4, <3>1 DEF ResumeStore, Reads, ReaderOK, ReaderRec, Maybe, Game
    <3>3. LocalOK'
      BY <2>4, <3>1 DEF ResumeStore, LocalOK, Seat
    <3> QED BY <1>0, <2>4, <3>2, <3>3 DEF ResumeStore, games, hash
  <2>5. CASE ResumeJoin(s)
    <3>1. reader[s].game \in OwnGame
      BY <2>5 DEF ResumeJoin, ReaderOK
    <3>2. ReaderOK'
      BY <2>5, <3>1 DEF ResumeJoin, ReaderDone, ReaderOK, ReaderRec, Idle, Maybe
    <3> QED BY <1>0, <1>z, <2>5, <3>1, <3>2 DEF ResumeJoin, games
  <2>6. CASE ViewSubscribe(s)
    <3>1. ReaderOK'
      BY <2>6 DEF ViewSubscribe, ReaderDone, ReaderOK, ReaderRec, Idle, Maybe
    <3>2. SubsOK'
      BY <2>6 DEF ViewSubscribe, SubsOK, ReaderOK
    <3> QED BY <1>0, <2>6, <3>1, <3>2 DEF ViewSubscribe, games, hash, local
  <2> QED BY <1>8, <2>1, <2>2, <2>3, <2>4, <2>5, <2>6 DEF ReaderStep
<1>9. ASSUME NEW s \in Session, HandlerStep(s) PROVE PresenceTypes'
  <2>1. CASE TakeCreated(s)
    <3>1. /\ Head(eventCh[s]) \in heard /\ eventCh' \in [Session -> Seq(heard)]
          /\ Head(eventCh[s]).kind = "created"
      BY <2>1, TakeKeeps DEF TakeCreated, Receives
    <3>2. Head(eventCh[s]).game \in OwnGame
      BY <3>1 DEF GamesOK, Heard
    <3>3. HandlerOK'
      BY <2>1, <3>2 DEF TakeCreated, Handles, HandlerOK, HandlerRec, Maybe, Game
    <3>4. LocalOK'
      BY <2>1, <3>2 DEF TakeCreated, LocalOK, Seat
    <3>5. QueueOK'
      BY <2>1, <3>1 DEF TakeCreated, QueueOK, games
    <3> QED BY <1>0, <2>1, <3>3, <3>4, <3>5 DEF TakeCreated, games, hash
  <2>2. CASE CreatedJoin(s)
    <3>1. handler[s].game \in OwnGame
      BY <2>2 DEF CreatedJoin, HandlerOK
    <3>2. HandlerOK'
      BY <2>2, <3>1 DEF CreatedJoin, HandlerDone, HandlerOK, HandlerRec, Idle, Maybe
    <3> QED BY <1>0, <1>z, <2>2, <3>1, <3>2 DEF CreatedJoin, games
  <2>3. CASE TakeEnded(s)
    <3>1. /\ Head(eventCh[s]) \in heard /\ eventCh' \in [Session -> Seq(heard)]
      BY <2>3, TakeKeeps DEF TakeEnded, Receives
    <3>2. Head(eventCh[s]).game \in Game
      BY <3>1 DEF GamesOK, Heard, Event
    <3>3. HandlerOK'
      BY <2>3, <3>2 DEF TakeEnded, Handles, HandlerOK, HandlerRec, Maybe
    <3>4. LocalOK'
      BY <2>3, <3>2 DEF TakeEnded, LocalOK, Seat
    <3>5. QueueOK'
      BY <2>3, <3>1 DEF TakeEnded, QueueOK, games
    <3> QED BY <1>0, <2>3, <3>3, <3>4, <3>5 DEF TakeEnded, games, hash
  <2>4. CASE EndedClear(s)
    <3>1. Put(s, NoGame) \/ UNCHANGED <<entry, stale>>
      BY <2>4 DEF EndedClear
    <3>2. HashOK'
      BY <2>4, <3>1, PresenceAssumption DEF EndedClear, Put, HashOK, Seat
    <3>3. HandlerOK'
      BY <2>4 DEF EndedClear, Handles, HandlerOK, HandlerRec, Maybe
    <3> QED BY <1>0, <2>4, <3>2, <3>3 DEF EndedClear, games, local
  <2>5. CASE EndedUnsubscribe(s)
    <3>1. HandlerOK'
      BY <2>5 DEF EndedUnsubscribe, HandlerDone, HandlerOK, HandlerRec, Idle, Maybe
    <3>2. LocalOK' /\ SubsOK'
      BY <2>5 DEF EndedUnsubscribe, LocalOK, SubsOK, HandlerOK
    <3> QED BY <1>0, <2>5, <3>1, <3>2 DEF EndedUnsubscribe, games, hash
  <2> QED BY <1>9, <2>1, <2>2, <2>3, <2>4, <2>5 DEF HandlerStep
<1>10. ASSUME NEW s \in Session, Stop(s) \/ CleanUp(s) PROVE PresenceTypes'
  <2>1. CASE Stop(s)
    <3>1. LocalOK'
      BY <2>1 DEF Stop, Goes, LocalOK, Stage, local, hash
    <3> QED BY <1>0, <2>1, <3>1 DEF Stop, games, threads
  <2>2. CASE StopUnsubscribe(s)
    <3>1. LocalOK'
      BY <2>2 DEF StopUnsubscribe, Goes, LocalOK, Stage, local, hash
    <3>2. SubsOK'
      BY <2>2 DEF StopUnsubscribe, SubsOK
    <3> QED BY <1>0, <2>2, <3>1, <3>2 DEF StopUnsubscribe, games, threads
  <2>3. CASE StopWait(s)
    <3>1. LocalOK'
      BY <2>3 DEF StopWait, Goes, LocalOK, Stage, local, hash
    <3>2. QueueOK'
      BY <2>3 DEF StopWait, QueueOK, games
    <3> QED BY <1>0, <2>3, <3>1, <3>2 DEF StopWait, games
  <2>4. CASE DeleteEntry(s)
    <3>1. /\ Delete({s}) \/ UNCHANGED <<entry, stale>>
          /\ (Goes(s, "leaving") /\ UNCHANGED local) \/ Discard(s)
      BY <2>4 DEF DeleteEntry
    <3>2. LocalOK'
      BY <3>1 DEF Goes, Discard, Forget, LocalOK, Stage, Seat, local
    <3>3. HashOK' /\ ManagerOK'
      BY <2>4, <3>1 DEF DeleteEntry, Delete, HashOK, ManagerOK
    <3> QED BY <1>0, <2>4, <3>2, <3>3 DEF DeleteEntry, games, threads
  <2>5. CASE PublishLeft(s)
    <3>1. LocalOK'
      BY <2>5 DEF PublishLeft, Discard, Forget, Goes, LocalOK, Stage, Seat, local
    <3>2. HashOK'
      BY <2>5 DEF PublishLeft, HashOK
    <3> QED BY <1>0, <2>5, <3>1, <3>2 DEF PublishLeft, games, threads
  <2> QED BY <1>10, <2>1, <2>2, <2>3, <2>4, <2>5 DEF CleanUp
<1>11. CASE Tick
  <2>1. CASE TickRead
    <3>1. SubsOK'
      BY <2>1 DEF TickRead, SubsOK
    <3>2. TickOK'
      BY <2>1 DEF TickRead, TickOK, NoTick, LocalOK, ManagerOK
    <3> QED BY <1>0, <2>1, <3>1, <3>2 DEF TickRead, games, hash, threads
  <2>2. CASE TickWrite
    <3>1. PICK done \in SUBSET DOMAIN tick.play :
            Refresh(done) /\ (tick' = [tick EXCEPT !.pc = "find"] \/ tick' = NoTick)
      BY <2>2 DEF TickWrite
    <3>2. TickOK'
      BY <2>2, <3>1 DEF TickWrite, TickOK, NoTick
    <3>3. HashOK'
      BY <2>2, <3>1, PresenceAssumption DEF TickWrite, Refresh, TickOK, HashOK, Seat, Game
    <3> QED BY <1>0, <2>2, <3>2, <3>3 DEF TickWrite, games, local, threads, subs
  <2>3. CASE TickFind
    <3>1. tick' = [pc |-> "idle", play |-> <<>>, doomed |-> {}] \/ tick' = [pc |-> "delete", play |-> <<>>, doomed |-> stale]
      BY <2>3 DEF TickFind, Found, NoTick
    <3>2. /\ tick'.pc \in {"idle", "delete"} /\ tick'.play = <<>> /\ (tick'.doomed = {} \/ tick'.doomed = stale)
          /\ tick' = [pc |-> tick'.pc, play |-> tick'.play, doomed |-> tick'.doomed]
      BY <3>1
    <3>3. TickOK'
      BY <2>3, <3>2 DEF TickFind, TickOK, HashOK
    <3> QED BY <1>0, <2>3, <3>3 DEF TickFind, games, hash, local, threads, subs
  <2>4. CASE TickDelete
    <3>1. TickOK'
      BY <2>4 DEF TickDelete, TickOK, NoTick
    <3>2. HashOK'
      BY <2>4 DEF TickDelete, Delete, HashOK
    <3> QED BY <1>0, <2>4, <3>1, <3>2 DEF TickDelete, games, local, threads, subs
  <2> QED BY <1>11, <2>1, <2>2, <2>3, <2>4 DEF Tick
<1>13. CASE OtherFinds \/ OtherDeletes
  <2>1. CASE OtherFinds
    <3>1. TickOK'
      BY <2>1 DEF OtherFinds, TickOK, HashOK
    <3> QED BY <1>0, <2>1, <3>1 DEF OtherFinds, games, hash, local, threads, subs
  <2>2. CASE OtherDeletes
    <3>1. TickOK' /\ HashOK'
      BY <2>2 DEF OtherDeletes, Delete, TickOK, HashOK
    <3> QED BY <1>0, <2>2, <3>1 DEF OtherDeletes, games, local, threads, subs
  <2> QED BY <1>13, <2>1, <2>2
<1> QED BY <1>1, <1>2, <1>3, <1>4, <1>5, <1>6, <1>7, <1>8, <1>9, <1>10, <1>11, <1>12, <1>13 DEF Next

\* Every reachable state of the user's sessions is well typed.
THEOREM PresenceTypeCorrect == Spec => []TypeOK
<1>1. PresenceTypes => TypeOK
  <2> SUFFICES ASSUME PresenceTypes PROVE TypeOK
    OBVIOUS
  <2>1. heard \subseteq Event
    BY DEF PresenceTypes, GamesOK, Heard
  <2>2. eventCh \in [Session -> Seq(Event)]
    BY <2>1, SeqOfMore DEF PresenceTypes, QueueOK
  <2>3. entry \in [Session -> Maybe \cup {Absent}]
    BY DEF PresenceTypes, HashOK, Seat, Maybe, Game
  <2> QED BY <2>1, <2>2, <2>3
      DEF PresenceTypes, GamesOK, HashOK, LocalOK, ReaderOK, HandlerOK, SubsOK, TickOK, ManagerOK, TypeOK,
          Seat, Stage, ReaderRec, HandlerRec
<1> QED BY <1>1, TypesInit, NextTypes, PTL DEF Spec

-----------------------------------------------------------------------------
(* What a tick deletes, whatever fails and whatever another gateway deletes *)

\* Before a tick looks for old entries it has written those of every session in use,
\* but for sessions that are being opened; and the entries of these are young.
SpareInv ==
  /\ \A s \in Session : Opening(s) => s \notin stale
  /\ \A s \in Session : InUse(s) => s \in registered \/ Opening(s)
  /\ \A s \in Session : InUse(s) \/ stage[s] = "new" => s \notin tick.doomed
  /\ tick.pc = "write" => \A s \in Session : InUse(s) /\ s \notin DOMAIN tick.play => s \notin stale
  /\ tick.pc = "find" => \A s \in Session : InUse(s) => s \notin stale

LEMMA SpareInit == Init => SpareInv
BY DEF Init, SpareInv, Opening, InUse, NoTick

\* What leaves stages and registrations alone and makes no entry older.
LEMMA SpareQuiet ==
  ASSUME SpareInv, UNCHANGED <<stage, manager, tick>>, stale' \subseteq stale
  PROVE  SpareInv'
BY DEF SpareInv, Opening, InUse, manager

\* A session that is in use no longer, or not otherwise than before.
LEMMA SpareLeaves ==
  ASSUME PresenceTypes, SpareInv, NEW s \in Session, UNCHANGED <<due, tick>>, stale' \subseteq stale,
         NEW next \in {"stopping", "closing", "cleaning", "leaving", "gone"},
         Goes(s, next), stage[s] # "new", stage[s] # "added",
         InUse(s) \/ next \in {"leaving", "gone"},
         registered' = registered \/ (registered' = registered \ {s} /\ next \in {"leaving", "gone"})
  PROVE  SpareInv'
<1>1. \A t \in Session : t # s => stage'[t] = stage[t]
  BY DEF Goes, PresenceTypes, LocalOK
<1>2. stage'[s] = next
  BY DEF Goes, PresenceTypes, LocalOK
<1>3. \A t \in Session : /\ InUse(t)' => InUse(t)
                         /\ Opening(t)' => Opening(t)
                         /\ InUse(t)' /\ Opening(t) => Opening(t)'
                         /\ InUse(t)' => (t \in registered => t \in registered')
                         /\ stage'[t] = "new" => stage[t] = "new"
  BY <1>1, <1>2 DEF InUse, Opening
<1>4. \A t \in Session : InUse(t)' \/ stage'[t] = "new" => InUse(t) \/ stage[t] = "new"
  BY <1>3
<1> QED BY <1>3, <1>4 DEF SpareInv

LEMMA SpareNext == PresenceTypes /\ SpareInv /\ [Next]_vars => SpareInv'
<1> SUFFICES ASSUME PresenceTypes, SpareInv, [Next]_vars PROVE SpareInv'
  OBVIOUS
<1>1. ASSUME NEW s \in Session, ReaderStep(s) \/ HandlerStep(s) PROVE SpareInv'
  <2>1. ASSUME NEW t \in Session, NEW g, Join(t, g) PROVE stale' \subseteq stale
    BY <2>1 DEF Join, Put
  <2>2. EndedClear(s) => stale' \subseteq stale
    BY DEF EndedClear, Put
  <2>3. UNCHANGED <<stage, manager, tick>> /\ stale' \subseteq stale
    BY <1>1, <2>1, <2>2
    DEF ReaderStep, HandlerStep, FindMatch, Resume, ResumeStore, ResumeJoin, View, ViewSubscribe,
        TakeCreated, CreatedJoin, TakeEnded, EndedClear, EndedUnsubscribe, hash, tickers
  <2> QED BY <2>3, SpareQuiet
<1>2. ASSUME NEW s \in Session, Connect(s) PROVE SpareInv'
  <2>1. PICK ok, applied \in BOOLEAN :
          /\ RedisReply(ok, applied)
          /\ IF applied THEN Put(s, NoGame) ELSE UNCHANGED <<entry, stale>>
          /\ stage' = [stage EXCEPT ![s] = IF ok THEN "added" ELSE "gone"]
    BY <1>2 DEF Connect
  <2>2. /\ stage[s] = "new" /\ UNCHANGED <<due, registered, tick>> /\ stale' \subseteq stale
        /\ stage'[s] \in {"added", "gone"} /\ \A t \in Session : t # s => stage'[t] = stage[t]
    BY <1>2, <2>1 DEF Connect, Put, manager, tickers, PresenceTypes, LocalOK
  <2> QED BY <2>2 DEF SpareInv, Opening, InUse
<1>3. ASSUME NEW s \in Session, Open(s) PROVE SpareInv'
  <2>1. /\ stage[s] = "added" /\ UNCHANGED <<stale, tick>> /\ stage'[s] = "open"
        /\ \A t \in Session : t # s => stage'[t] = stage[t]
        /\ \/ due' = due \cup {s} /\ registered' = registered
           \/ registered' = registered \cup {s} /\ due' = due
    BY <1>3 DEF Open, hash, tickers, PresenceTypes, LocalOK
  <2> QED BY <2>1 DEF SpareInv, Opening, InUse
<1>4. ASSUME NEW s \in Session, Register(s) PROVE SpareInv'
  BY <1>4 DEF Register, hash, tickers, SpareInv, Opening, InUse
<1>5. ASSUME NEW s \in Session, Stop(s) \/ StopUnsubscribe(s) \/ StopWait(s) PROVE SpareInv'
  <2>1. PICK next \in {"stopping", "closing", "cleaning"} : Goes(s, next)
    BY <1>5 DEF Stop, StopUnsubscribe, StopWait
  <2>2. InUse(s) /\ stage[s] # "added" /\ UNCHANGED <<due, registered, tick, stale>>
    BY <1>5 DEF Stop, StopUnsubscribe, StopWait, InUse, hash, manager, tickers
  <2> QED BY <2>1, <2>2, SpareLeaves DEF InUse
<1>6. ASSUME NEW s \in Session, DeleteEntry(s) \/ PublishLeft(s) PROVE SpareInv'
  <2>1. PICK next \in {"leaving", "gone"} : Goes(s, next)
    BY <1>6 DEF DeleteEntry, PublishLeft, Discard
  <2>2. /\ stage[s] \in {"cleaning", "leaving"} /\ UNCHANGED <<due, tick>> /\ stale' \subseteq stale
        /\ registered' = registered \/ registered' = registered \ {s}
    BY <1>6 DEF DeleteEntry, PublishLeft, Delete, hash, manager, tickers
  <2> QED BY <2>1, <2>2, SpareLeaves
<1>7. ASSUME NEW s \in Session, GrowsOld(s) PROVE SpareInv'
  BY <1>7 DEF GrowsOld, manager, tickers, SpareInv, Opening, InUse
<1>8. CASE Tick
  <2>1. UNCHANGED <<stage, due, registered>>
    BY <1>8 DEF Tick, TickRead, TickWrite, TickFind, TickDelete, manager
  <2>2. CASE TickRead
    BY <2>1, <2>2 DEF TickRead, NoTick, hash, SpareInv, Opening, InUse
  <2>3. CASE TickWrite
    <3>1. PICK done \in SUBSET DOMAIN tick.play :
            /\ Refresh(done)
            /\ \/ done = DOMAIN tick.play /\ tick' = [tick EXCEPT !.pc = "find"]
               \/ tick' = NoTick
      BY <2>3 DEF TickWrite
    <3>2. CASE tick' = NoTick
      BY <2>1, <3>1, <3>2 DEF Refresh, NoTick, SpareInv, Opening, InUse
    <3>3. CASE done = DOMAIN tick.play /\ tick' = [tick EXCEPT !.pc = "find"]
      <4>1. tick'.pc = "find" /\ tick'.doomed = tick.doomed /\ stale' = stale \ DOMAIN tick.play
        BY <3>1, <3>3 DEF Refresh, PresenceTypes, TickOK
      <4> QED BY <2>1, <2>3, <4>1 DEF TickWrite, SpareInv, Opening, InUse
    <3> QED BY <3>1, <3>2, <3>3
  <2>4. CASE TickFind
    <3>1. \A s \in Session : InUse(s) \/ stage[s] = "new" => s \notin stale
      BY <2>4 DEF TickFind, SpareInv, Opening
    <3>2. /\ stale' = stale
          /\ tick' = [pc |-> "idle", play |-> <<>>, doomed |-> {}] \/ tick' = [pc |-> "delete", play |-> <<>>, doomed |-> stale]
      BY <2>4 DEF TickFind, Found, hash, NoTick
    <3>3. tick'.pc \in {"idle", "delete"} /\ (tick'.doomed = {} \/ tick'.doomed = stale)
      BY <3>2
    <3> QED BY <2>1, <3>1, <3>2, <3>3 DEF SpareInv, Opening, InUse
  <2>5. CASE TickDelete
    BY <2>1, <2>5 DEF TickDelete, Delete, NoTick, SpareInv, Opening, InUse
  <2> QED BY <1>8, <2>2, <2>3, <2>4, <2>5 DEF Tick
<1>9. CASE OtherFinds \/ OtherDeletes
  BY <1>9, SpareQuiet DEF OtherFinds, OtherDeletes, Delete, hash
<1>10. ASSUME UNCHANGED <<stage, manager, hash, tick>> PROVE SpareInv'
  BY <1>10, SpareQuiet DEF hash
<1> QED BY <1>1, <1>2, <1>3, <1>4, <1>5, <1>6, <1>7, <1>8, <1>9, <1>10
    DEF Next, vars, tickers, GameStarts, GameEnds, ListenCreated, ListenEnded, Broadcast, CleanUp

\* A tick deletes no entry of a session that this gateway has in use, however its
\* refreshes have failed, whatever another gateway deletes, and however long a session
\* is registered after its goroutines have started.
THEOREM OwnSessionsSparedHolds == Spec => []OwnSessionsSpared
<1>1. PresenceTypes /\ SpareInv => OwnSessionsSpared
  BY DEF SpareInv, OwnSessionsSpared, PresenceTypes, TickOK
<1> QED BY <1>1, TypesInit, NextTypes, SpareInit, SpareNext, PTL DEF Spec

-----------------------------------------------------------------------------
(* While Redis answers and the ticker does not run *)

\* A session that has been cleaned up, or has never been, does nothing.
Away(s) == stage[s] \in {"new", "added", "cleaning", "leaving", "gone"}
Rests(s) ==
  /\ Away(s) => reader[s] = Idle /\ handler[s] = Idle /\ eventCh[s] = <<>>
  /\ stage[s] \in {"new", "leaving", "gone"} => entry[s] = Absent
  /\ stage[s] \in {"new", "added"} => play[s] = NoGame

\* A session resumes a game or waits for a match, never both: what its two
\* goroutines write about a game does not cross.
OneWayIn(s) ==
  /\ reader[s].pc \in {"resume", "join"} => match[s] = NoGame
  /\ handler[s].pc = "join" => match[s] = handler[s].game
  /\ \A i \in 1..Len(eventCh[s]) :
       eventCh[s][i].kind = "created" => match[s] = eventCh[s][i].game

\* Where a game that is not over is written, or about to be, it is played.
SeatIsPlayed(s) ==
  /\ reader[s].pc = "join" /\ status[reader[s].game] # "over" => play[s] = reader[s].game
  /\ handler[s].pc = "join" => play[s] = handler[s].game
  /\ entry[s] \in OwnGame /\ status[entry[s]] # "over" =>
       play[s] = entry[s] \/ reader[s].pc = "join" \/ handler[s].pc = "join"

Sound(s) == Rests(s) /\ OneWayIn(s) /\ SeatIsPlayed(s)
CountInv == /\ tick.pc = "idle" /\ stale = {} /\ elsewhere = {}
            /\ \A s \in Session : Sound(s)

\* A game that was recorded and is not over is played by somebody.
SeatedPlayed ==
  \A g \in seated : status[g] # "over" => \E s \in Session : play[s] = g /\ stage[s] # "gone"

LEMMA CountInit == Init => CountInv /\ SeatedPlayed
BY PresenceAssumption DEF Init, CountInv, SeatedPlayed, Sound, Rests, OneWayIn, SeatIsPlayed, Idle, NoTick, Game

\* A game that is over stays so.
OverStays == \A g \in Game : status[g] = "over" => status'[g] = "over"

LEMMA NextOverStays == PresenceTypes /\ [Next]_vars => OverStays
<1> SUFFICES ASSUME GamesOK, [Next]_vars PROVE OverStays
  BY DEF PresenceTypes
<1>1. ASSUME NEW g \in Game, GameStarts(g) \/ GameEnds(g) PROVE OverStays
  BY <1>1 DEF GameStarts, GameEnds, GamesOK, OverStays
<1>2. CASE status' = status
  BY <1>2 DEF OverStays
<1> QED BY <1>1, <1>2
    DEF Next, vars, games, ListenCreated, ListenEnded, Broadcast, Connect, Open, Register, ReaderStep,
        HandlerStep, Stop, CleanUp, GrowsOld, Tick, TickRead, TickWrite, TickFind, TickDelete, OtherFinds,
        OtherDeletes, FindMatch, Resume, ResumeStore, ResumeJoin, View, ViewSubscribe, TakeCreated, CreatedJoin, TakeEnded, EndedClear,
        EndedUnsubscribe, StopUnsubscribe, StopWait, DeleteEntry, PublishLeft, Game

\* A session of which nothing changes stays sound.
SameFor(s) ==
  /\ stage'[s] = stage[s] /\ entry'[s] = entry[s] /\ play'[s] = play[s] /\ match'[s] = match[s]
  /\ reader'[s] = reader[s] /\ handler'[s] = handler[s] /\ eventCh'[s] = eventCh[s]

LEMMA StaysSound ==
  ASSUME NEW s \in Session, PresenceTypes, Sound(s), SameFor(s), OverStays
  PROVE  Sound(s)'
<1>1. Rests(s)' /\ OneWayIn(s)'
  BY DEF SameFor, Sound, Rests, OneWayIn, Away
<1>2. SeatIsPlayed(s)'
  BY DEF SameFor, Sound, SeatIsPlayed, PresenceTypes, ReaderOK, OverStays, Game
<1> QED BY <1>1, <1>2 DEF Sound

LEMMA OneMoves ==
  ASSUME PresenceTypes, CountInv, OverStays, UNCHANGED tickers, stale' \subseteq stale,
         NEW s \in Session, \A t \in Session : t # s => SameFor(t), Sound(s)'
  PROVE  CountInv'
<1> SUFFICES ASSUME NEW t \in Session, t # s PROVE Sound(t)'
  BY DEF CountInv, tickers
<1> QED BY StaysSound DEF CountInv

LEMMA NobodyMoves ==
  ASSUME PresenceTypes, CountInv, OverStays, UNCHANGED <<tickers, stale, stage, entry, local, threads>>
  PROVE  CountInv'
<1>1. ASSUME NEW t \in Session PROVE Sound(t)'
  BY StaysSound DEF CountInv, SameFor, local, threads
<1> QED BY <1>1 DEF CountInv, tickers

\* A call of the ready server takes effect and reports so.
LEMMA ReplyIsOk ==
  ASSUME ~RedisMayFail, NEW ok \in BOOLEAN, NEW applied \in BOOLEAN, RedisReply(ok, applied)
  PROVE  ok /\ applied
BY DEF RedisReply

\* What the goroutines of one session do next.
LEMMA EventArrives ==
  ASSUME PresenceTypes, CountInv, OverStays, UNCHANGED <<tickers, stale, stage, entry, local, reader, handler>>,
         NEW e \in Event, NEW ss, Deliver(e, ss),
         e.kind = "created" => \A s \in ss \cap Session : match[s] = e.game
  PROVE  CountInv'
<1> SUFFICES ASSUME NEW s \in Session PROVE Sound(s)'
  BY DEF CountInv, tickers
<1> USE DEF PresenceTypes
<1>1. eventCh[s] \in Seq(Event)
  BY SeqOfMore DEF QueueOK, GamesOK, Heard
<1>2. Sound(s) /\ UNCHANGED <<stage, entry, play, match, reader, handler>>
  BY DEF CountInv, local
<1>3. CASE s \in ss /\ stage[s] \in {"open", "stopping", "closing"}
  <2>1. eventCh'[s] = Append(eventCh[s], e) /\ (e.kind = "created" => match[s] = e.game)
    BY <1>3 DEF Deliver
  <2>2. OneWayIn(s)'
    BY <1>1, <1>2, <1>3, <2>1 DEF Sound, OneWayIn, Deliver
  <2>3. Rests(s)'
    BY <1>2, <1>3 DEF Sound, Rests, Away
  <2>4. SeatIsPlayed(s)'
    BY <1>2 DEF Sound, SeatIsPlayed, ReaderOK, OverStays, Game
  <2> QED BY <2>2, <2>3, <2>4 DEF Sound
<1>4. CASE ~(s \in ss /\ stage[s] \in {"open", "stopping", "closing"})
  BY <1>2, <1>4, StaysSound DEF Deliver, SameFor
<1> QED BY <1>3, <1>4

LEMMA ConnectCounts ==
  ASSUME PresenceTypes, CountInv, OverStays, ~RedisMayFail,
         NEW s \in Session, Connect(s) \/ Open(s) \/ Register(s)
  PROVE  CountInv'
<1> USE DEF PresenceTypes
<1>1. CASE Connect(s)
  <2>1. Put(s, NoGame) /\ stage' = [stage EXCEPT ![s] = "added"]
    BY <1>1, ReplyIsOk DEF Connect
  <2>2. Sound(s)'
    BY <1>1, <2>1, PresenceAssumption
    DEF Put, CountInv, Sound, Rests, OneWayIn, SeatIsPlayed, Away, Connect, local, threads, LocalOK, HashOK,
        Game, Idle
  <2> QED BY <1>1, <2>1, <2>2, OneMoves DEF Put, Connect, local, threads, SameFor, LocalOK, HashOK
<1>2. CASE Open(s)
  <2>1. Sound(s)'
    BY <1>2 DEF CountInv, Sound, Rests, OneWayIn, SeatIsPlayed, Away, Open, games, hash, local, threads, LocalOK
  <2> QED BY <1>2, <2>1, OneMoves DEF Open, hash, local, threads, SameFor, LocalOK
<1>3. CASE Register(s)
  BY <1>3, NobodyMoves DEF Register, hash
<1> QED BY <1>1, <1>2, <1>3

LEMMA ReaderCounts ==
  ASSUME PresenceTypes, CountInv, OverStays, ~RedisMayFail, NEW s \in Session, ReaderStep(s)
  PROVE  CountInv'
<1> USE DEF PresenceTypes
<1>1. ASSUME NEW g \in OwnGame, FindMatch(s, g) PROVE CountInv'
  <2>1. ASSUME NEW i \in 1..Len(eventCh[s]) PROVE eventCh[s][i].kind # "created"
    <3>1. PICK q \in Seq(heard) : q = eventCh[s]
      BY DEF QueueOK
    <3>2. q[i] \in Heard
      BY <3>1 DEF GamesOK
    <3> QED BY <1>1, <3>1, <3>2, PresenceAssumption DEF CountInv, Sound, OneWayIn, FindMatch, Heard, Game
  <2>2. OneWayIn(s)'
    BY <1>1, <2>1, PresenceAssumption DEF CountInv, Sound, OneWayIn, FindMatch, CanRead, threads, HandlerOK, Idle, Game
  <2>3. Rests(s)' /\ SeatIsPlayed(s)'
    BY <1>1 DEF CountInv, Sound, Rests, SeatIsPlayed, Away, FindMatch, games, hash, threads
  <2> QED BY <1>1, <2>2, <2>3, OneMoves DEF FindMatch, hash, threads, SameFor, LocalOK, Sound
<1>2. ASSUME NEW g \in OwnGame, Resume(s, g) PROVE CountInv'
  <2>1. Sound(s)'
    BY <1>2 DEF CountInv, Sound, Rests, OneWayIn, SeatIsPlayed, Away, Resume, Reads, CanRead,
       games, hash, local, ReaderOK, Idle
  <2> QED BY <1>2, <2>1, OneMoves DEF Resume, Reads, hash, local, SameFor, ReaderOK
<1>3. ASSUME NEW g \in Game, View(s, g) PROVE CountInv'
  <2>1. Sound(s)'
    BY <1>3 DEF CountInv, Sound, Rests, OneWayIn, SeatIsPlayed, Away, View, Reads, CanRead,
       games, hash, ReaderOK, Idle
  <2> QED BY <1>3, <2>1, OneMoves DEF View, Reads, hash, SameFor, ReaderOK
<1>4. CASE ResumeStore(s)
  <2>1. Sound(s)'
    BY <1>4, PresenceAssumption DEF CountInv, Sound, Rests, OneWayIn, SeatIsPlayed, Away, ResumeStore, Reads,
       games, hash, LocalOK, ReaderOK, HandlerOK, Idle, Game
  <2> QED BY <1>4, <2>1, OneMoves DEF ResumeStore, Reads, hash, SameFor, ReaderOK, LocalOK
<1>5. CASE ResumeJoin(s)
  <2>1. entry' = [entry EXCEPT ![s] = reader[s].game] /\ stale' = stale \ {s} /\ play' = play
    BY <1>5, ReplyIsOk DEF ResumeJoin, Join, Put
  <2>2. Sound(s)'
    BY <1>5, <2>1, PresenceAssumption DEF CountInv, Sound, Rests, OneWayIn, SeatIsPlayed, Away, ResumeJoin,
       ReaderDone, games, HashOK, ReaderOK, HandlerOK, Idle, Game
  <2> QED BY <1>5, <2>1, <2>2, OneMoves DEF ResumeJoin, ReaderDone, SameFor, ReaderOK, HashOK
<1>6. CASE ViewSubscribe(s)
  <2>1. Sound(s)'
    BY <1>6 DEF CountInv, Sound, Rests, OneWayIn, SeatIsPlayed, Away, ViewSubscribe, ReaderDone,
       games, hash, local, ReaderOK, Idle
  <2> QED BY <1>6, <2>1, OneMoves DEF ViewSubscribe, ReaderDone, hash, local, SameFor, ReaderOK
<1> QED BY <1>1, <1>2, <1>3, <1>4, <1>5, <1>6 DEF ReaderStep

LEMMA HandlerCounts ==
  ASSUME PresenceTypes, CountInv, OverStays, ~RedisMayFail, NEW s \in Session, HandlerStep(s)
  PROVE  CountInv'
<1> USE DEF PresenceTypes
<1>1. CASE TakeCreated(s)
  <2>1. PICK q \in Seq(heard) : q = eventCh[s]
    BY DEF QueueOK
  <2>2. /\ q # <<>> /\ Head(q) = q[1] /\ Head(q).kind = "created" /\ Head(q) \in Heard
        /\ eventCh' = [eventCh EXCEPT ![s] = Tail(q)]
    BY <1>1, <2>1 DEF TakeCreated, Receives, GamesOK
  <2>3. Head(q).game \in OwnGame /\ match[s] = Head(q).game /\ play' = [play EXCEPT ![s] = Head(q).game]
        /\ handler' = [handler EXCEPT ![s] = [pc |-> "join", game |-> Head(q).game]]
    BY <1>1, <2>1, <2>2 DEF CountInv, Sound, OneWayIn, TakeCreated, Handles, Heard
  <2>4. \A i \in 1..Len(Tail(q)) : i + 1 \in 1..Len(q) /\ Tail(q)[i] = q[i + 1]
    BY <2>1, <2>2
  <2>5. OneWayIn(s)'
    BY <1>1, <2>1, <2>2, <2>3, <2>4
    DEF CountInv, Sound, OneWayIn, TakeCreated, LocalOK, HandlerOK, QueueOK
  <2>6. Rests(s)' /\ SeatIsPlayed(s)'
    BY <1>1, <2>3, PresenceAssumption
    DEF CountInv, Sound, Rests, OneWayIn, SeatIsPlayed, Away, TakeCreated, Receives, games, hash,
        LocalOK, HandlerOK, Game
  <2> QED BY <1>1, <2>2, <2>3, <2>5, <2>6, OneMoves
      DEF TakeCreated, hash, SameFor, LocalOK, HandlerOK, QueueOK, Sound
<1>2. CASE CreatedJoin(s)
  <2>1. entry' = [entry EXCEPT ![s] = handler[s].game] /\ stale' = stale \ {s} /\ play' = play
    BY <1>2, ReplyIsOk DEF CreatedJoin, Join, Put
  <2>2. Sound(s)'
    BY <1>2, <2>1, PresenceAssumption DEF CountInv, Sound, Rests, OneWayIn, SeatIsPlayed, Away, CreatedJoin,
       HandlerDone, games, HashOK, ReaderOK, HandlerOK, Idle, Game
  <2> QED BY <1>2, <2>1, <2>2, OneMoves DEF CreatedJoin, HandlerDone, SameFor, HandlerOK, HashOK
<1>3. CASE TakeEnded(s)
  <2>1. PICK q \in Seq(heard) : q = eventCh[s]
    BY DEF QueueOK
  <2>2. /\ q # <<>> /\ Head(q) \in Heard /\ Head(q).kind = "ended" /\ Head(q) \in heard
        /\ eventCh' = [eventCh EXCEPT ![s] = Tail(q)]
    BY <1>3, <2>1 DEF TakeEnded, Receives, GamesOK
  <2>3. PICK g \in Game : Head(q).game = g /\ Ended(g) \in heard
    BY <2>2 DEF Heard, Event, Ended
  <2>4. /\ status[g] = "over"
        /\ play' = IF play[s] = g THEN [play EXCEPT ![s] = NoGame] ELSE play
        /\ handler' = [handler EXCEPT ![s] = [pc |-> "clear", game |-> g]]
    BY <1>3, <2>1, <2>3 DEF TakeEnded, Handles, GamesOK
  <2>5. \A i \in 1..Len(Tail(q)) : i + 1 \in 1..Len(q) /\ Tail(q)[i] = q[i + 1]
    BY <2>1, <2>2
  <2>6. OneWayIn(s)'
    BY <1>3, <2>1, <2>2, <2>4, <2>5
    DEF CountInv, Sound, OneWayIn, TakeEnded, LocalOK, HandlerOK, QueueOK
  <2>7. Rests(s)' /\ SeatIsPlayed(s)'
    BY <1>3, <2>4, PresenceAssumption
    DEF CountInv, Sound, Rests, OneWayIn, SeatIsPlayed, Away, TakeEnded, Receives, games, hash,
        LocalOK, HandlerOK, Game, Idle
  <2> QED BY <1>3, <2>2, <2>4, <2>6, <2>7, OneMoves
      DEF TakeEnded, hash, SameFor, LocalOK, HandlerOK, QueueOK, Sound
<1>4. CASE EndedClear(s)
  <2>1. entry' = [entry EXCEPT ![s] = NoGame] /\ stale' = stale \ {s}
    BY <1>4, ReplyIsOk DEF EndedClear, Put
  <2>2. Sound(s)'
    BY <1>4, <2>1, PresenceAssumption DEF CountInv, Sound, Rests, OneWayIn, SeatIsPlayed, Away, EndedClear,
       Handles, games, local, HashOK, ReaderOK, HandlerOK, Idle, Game
  <2> QED BY <1>4, <2>1, <2>2, OneMoves DEF EndedClear, Handles, local, SameFor, HandlerOK, HashOK
<1>5. CASE EndedUnsubscribe(s)
  <2>1. Sound(s)'
    BY <1>5 DEF CountInv, Sound, Rests, OneWayIn, SeatIsPlayed, Away, EndedUnsubscribe, HandlerDone,
       games, hash, HandlerOK, Idle
  <2> QED BY <1>5, <2>1, OneMoves DEF EndedUnsubscribe, HandlerDone, hash, SameFor, HandlerOK
<1> QED BY <1>1, <1>2, <1>3, <1>4, <1>5 DEF HandlerStep

LEMMA CleanUpCounts ==
  ASSUME PresenceTypes, CountInv, OverStays, ~RedisMayFail,
         NEW s \in Session, Stop(s) \/ CleanUp(s)
  PROVE  CountInv'
<1> USE DEF PresenceTypes
<1>1. CASE Stop(s)
  <2>1. Sound(s)'
    BY <1>1 DEF CountInv, Sound, Rests, OneWayIn, SeatIsPlayed, Away, Stop, Goes, games, hash, local, threads,
       LocalOK
  <2> QED BY <1>1, <2>1, OneMoves DEF Stop, Goes, hash, local, threads, SameFor, LocalOK
<1>2. CASE StopUnsubscribe(s)
  <2>1. Sound(s)'
    BY <1>2 DEF CountInv, Sound, Rests, OneWayIn, SeatIsPlayed, Away, StopUnsubscribe, Goes, games, hash, local,
       threads, LocalOK
  <2> QED BY <1>2, <2>1, OneMoves DEF StopUnsubscribe, Goes, hash, local, threads, SameFor, LocalOK
<1>3. CASE StopWait(s)
  <2>1. Sound(s)'
    BY <1>3 DEF CountInv, Sound, Rests, OneWayIn, SeatIsPlayed, Away, StopWait, Goes, games, hash, local,
       LocalOK, QueueOK
  <2> QED BY <1>3, <2>1, OneMoves DEF StopWait, Goes, hash, local, SameFor, LocalOK, QueueOK
<1>4. CASE DeleteEntry(s)
  <2>0. Delete({s}) /\ ((Goes(s, "leaving") /\ UNCHANGED local) \/ Discard(s))
    BY <1>4, ReplyIsOk DEF DeleteEntry
  <2>1. /\ \A t \in Session : entry'[t] = IF t = s THEN Absent ELSE entry[t]
        /\ stale' = stale \ {s}
        /\ \A t \in Session : t # s => UNCHANGED <<stage[t], play[t], match[t]>>
        /\ stage'[s] \in {"leaving", "gone"} /\ reader' = reader /\ handler' = handler /\ eventCh' = eventCh
    BY <1>4, <2>0 DEF DeleteEntry, Delete, Goes, Discard, Forget, local, threads, LocalOK
  <2>2. Sound(s)'
    BY <1>4, <2>1, PresenceAssumption DEF CountInv, Sound, Rests, OneWayIn, SeatIsPlayed, Away, DeleteEntry,
       games, Idle, Game
  <2> QED BY <1>4, <2>1, <2>2, OneMoves DEF DeleteEntry, SameFor
<1>5. CASE PublishLeft(s)
  <2>0. /\ \A t \in Session : t # s => UNCHANGED <<stage[t], play[t], match[t]>>
        /\ stage'[s] = "gone" /\ UNCHANGED <<entry, stale, reader, handler, eventCh>>
    BY <1>5 DEF PublishLeft, Goes, Discard, Forget, local, threads, LocalOK
  <2>1. Sound(s)'
    BY <1>5, <2>0, PresenceAssumption DEF CountInv, Sound, Rests, OneWayIn, SeatIsPlayed, Away, PublishLeft,
       games, Idle, Game
  <2> QED BY <1>5, <2>0, <2>1, OneMoves DEF PublishLeft, SameFor
<1> QED BY <1>1, <1>2, <1>3, <1>4, <1>5 DEF CleanUp

LEMMA NextCounts ==
  ASSUME PresenceTypes, CountInv, ~RedisMayFail, ~MayRefresh, [Next]_vars
  PROVE  CountInv'
<1>0. OverStays
  BY NextOverStays
<1>1. ASSUME NEW g \in OwnGame, GameStarts(g) PROVE CountInv'
  BY <1>0, <1>1, NobodyMoves DEF GameStarts, hash
<1>2. ASSUME NEW g \in OwnGame, ListenCreated(g) PROVE CountInv'
  <2>1. Created(g) \in Event /\ \A s \in AskedFor(g) \cap Session : match[s] = Created(g).game
    BY DEF Created, Event, AskedFor, Game
  <2> QED BY <1>0, <1>2, <2>1, EventArrives DEF ListenCreated, hash
<1>3. ASSUME NEW g \in Game, GameEnds(g) PROVE CountInv'
  BY <1>0, <1>3, NobodyMoves DEF GameEnds, hash
<1>4. ASSUME NEW g \in Game, ListenEnded(g) PROVE CountInv'
  <2>1. Ended(g) \in Event /\ Ended(g).kind # "created"
    BY DEF Ended, Event
  <2> QED BY <1>0, <1>4, <2>1, EventArrives DEF ListenEnded, hash
<1>5. ASSUME NEW s \in Session, Broadcast(s) PROVE CountInv'
  <2>1. Created(match[s]) \in Event /\ \A t \in {s} \cap Session : match[t] = Created(match[s]).game
    BY <1>5 DEF Broadcast, Created, PresenceTypes, GamesOK, Heard
  <2> QED BY <1>0, <1>5, <2>1, EventArrives DEF Broadcast, hash
<1>6. CASE Tick
  BY <1>6 DEF Tick, TickRead, TickWrite, TickFind, TickDelete, CountInv
<1>8. (OtherFinds \/ OtherDeletes \/ \E s \in Session : GrowsOld(s)) => FALSE
  BY DEF OtherFinds, OtherDeletes, GrowsOld, CountInv
<1>7. CASE UNCHANGED vars
  BY <1>0, <1>7, NobodyMoves DEF vars, hash
<1> QED BY <1>0, <1>1, <1>2, <1>3, <1>4, <1>5, <1>6, <1>7, <1>8, ConnectCounts, ReaderCounts, HandlerCounts, CleanUpCounts
    DEF Next

\* While Redis answers and the ticker is off, a session that was cleaned up has no
\* entry: none of its goroutines writes one after the deletion.
THEOREM NoOrphanHolds ==
  ASSUME ~RedisMayFail, ~MayRefresh
  PROVE  Spec => []NoOrphan
<1>1. PresenceTypes /\ CountInv /\ [Next]_vars
        => PresenceTypes' /\ CountInv'
  BY NextTypes, NextCounts
<1>2. CountInv => NoOrphan
  BY DEF CountInv, Sound, Rests, NoOrphan
<1> QED BY <1>1, <1>2, TypesInit, CountInit, PTL DEF Spec

\* While Redis answers and the ticker is off, what the scripts count is true of a
\* game that is not over: a session at rest is recorded in the game it plays.
THEOREM CountedIsPlayedHolds ==
  ASSUME ~RedisMayFail, ~MayRefresh
  PROVE  Spec => []CountedIsPlayed
<1>1. PresenceTypes /\ CountInv /\ [Next]_vars
        => PresenceTypes' /\ CountInv'
  BY NextTypes, NextCounts
<1>2. PresenceTypes /\ CountInv => CountedIsPlayed
  BY PresenceAssumption
  DEF CountInv, Sound, SeatIsPlayed, PresenceTypes, HashOK, Seat, CountedIsPlayed, Idle, Game
<1> QED BY <1>1, <1>2, TypesInit, CountInit, PTL DEF Spec

-----------------------------------------------------------------------------
(* The last session out of the only game *)

OneGame == \A g, h \in OwnGame : g = h

LEMMA SeatsStay ==
  ASSUME PresenceTypes, SeatedPlayed, OverStays, seated' = seated,
         \A s \in Session :
           \/ play'[s] = play[s] /\ (stage'[s] = "gone" => stage[s] = "gone")
           \/ play[s] \notin OwnGame \/ status[play[s]] = "over"
  PROVE  SeatedPlayed'
<1> SUFFICES ASSUME NEW g \in seated, status'[g] # "over"
             PROVE  \E s \in Session : play'[s] = g /\ stage'[s] # "gone"
  BY DEF SeatedPlayed
<1>1. g \in OwnGame /\ g \in Game /\ status[g] # "over"
  BY DEF PresenceTypes, HashOK, OverStays, Game
<1>2. PICK s \in Session : play[s] = g /\ stage[s] # "gone"
  BY <1>1 DEF SeatedPlayed
<1> QED BY <1>1, <1>2

\* What a session joins it plays, or the game is over.
LEMMA JoinSeats ==
  ASSUME PresenceTypes, SeatedPlayed, OverStays, OneGame, ~RedisMayFail,
         NEW s \in Session, NEW g \in OwnGame, Join(s, g), stage' = stage, stage[s] # "gone",
         status[g] # "over" => play[s] = g
  PROVE  SeatedPlayed'
<1>1. seated' = seated \cup {g} /\ play' = play
  BY ReplyIsOk DEF Join
<1> SUFFICES ASSUME NEW h \in seated', status'[h] # "over"
             PROVE  \E t \in Session : play'[t] = h /\ stage'[t] # "gone"
  BY DEF SeatedPlayed
<1>2. h \in OwnGame /\ h = g /\ status[h] # "over"
  BY <1>1 DEF PresenceTypes, HashOK, OverStays, OneGame, Game
<1> QED BY <1>1, <1>2

LEMMA NextSeats ==
  ASSUME PresenceTypes, CountInv, SeatedPlayed, OneGame, ~RedisMayFail, ~MayRefresh, [Next]_vars
  PROVE  SeatedPlayed'
<1> USE DEF PresenceTypes
<1>0. OverStays
  BY NextOverStays
<1>1. ASSUME UNCHANGED <<seated, play>>, \A s \in Session : stage'[s] = "gone" => stage[s] = "gone"
      PROVE  SeatedPlayed'
  BY <1>0, <1>1, SeatsStay
<1>2. ASSUME NEW s \in Session, ResumeStore(s) PROVE SeatedPlayed'
  <2>1. reader[s].game \in OwnGame /\ play' = [play EXCEPT ![s] = reader[s].game]
    BY <1>2 DEF ResumeStore, ReaderOK
  <2>2. \A t \in Session : play'[t] = play[t] \/ play[t] \notin OwnGame
    BY <2>1 DEF LocalOK, OneGame
  <2> QED BY <1>0, <1>2, <2>2, SeatsStay DEF ResumeStore, hash
<1>3. ASSUME NEW s \in Session, ResumeJoin(s) PROVE SeatedPlayed'
  BY <1>0, <1>3, JoinSeats DEF ResumeJoin, ReaderOK, CountInv, Sound, SeatIsPlayed, Rests, Away, Idle
<1>4. ASSUME NEW s \in Session, CreatedJoin(s) PROVE SeatedPlayed'
  BY <1>0, <1>4, JoinSeats DEF CreatedJoin, HandlerOK, CountInv, Sound, SeatIsPlayed, Rests, Away, Idle
<1>5. ASSUME NEW s \in Session, TakeCreated(s) PROVE SeatedPlayed'
  <2>1. /\ Head(eventCh[s]) \in heard /\ Head(eventCh[s]).kind = "created"
    BY <1>5, TakeKeeps DEF TakeCreated, Receives
  <2>2. Head(eventCh[s]).game \in OwnGame
    BY <2>1 DEF GamesOK, Heard
  <2>3. \A t \in Session : play'[t] = play[t] \/ play[t] \notin OwnGame
    BY <1>5, <2>2 DEF TakeCreated, LocalOK, OneGame
  <2> QED BY <1>0, <1>5, <2>3, SeatsStay DEF TakeCreated, hash
<1>6. ASSUME NEW s \in Session, TakeEnded(s) PROVE SeatedPlayed'
  <2>1. /\ Head(eventCh[s]) \in heard /\ Head(eventCh[s]).kind = "ended"
    BY <1>6, TakeKeeps DEF TakeEnded, Receives
  <2>2. PICK g \in Game : Head(eventCh[s]).game = g /\ Ended(g) \in heard
    BY <2>1 DEF GamesOK, Heard, Event, Ended
  <2>3. /\ status[g] = "over"
        /\ play' = IF play[s] = g THEN [play EXCEPT ![s] = NoGame] ELSE play
    BY <1>6, <2>2 DEF TakeEnded, GamesOK
  <2>4. \A t \in Session : play'[t] = play[t] \/ status[play[t]] = "over"
    BY <2>3 DEF LocalOK
  <2> QED BY <1>0, <1>6, <2>4, SeatsStay DEF TakeEnded, hash
<1>7. ASSUME NEW s \in Session, DeleteEntry(s) PROVE SeatedPlayed'
  <2>1. /\ Delete({s}) /\ seated' = seated
        /\ \/ Goes(s, "leaving") /\ UNCHANGED local
           \/ Discard(s) /\ (play[s] = NoGame \/ InSomeGame(s) # {})
    BY <1>7, ReplyIsOk DEF DeleteEntry
  <2>2. CASE Goes(s, "leaving") /\ UNCHANGED local
    BY <1>1, <2>1, <2>2 DEF Goes, local, LocalOK
  <2>3. CASE Discard(s) /\ play[s] = NoGame
    <3>1. play[s] \notin OwnGame /\ \A t \in Session : t # s => play'[t] = play[t] /\ stage'[t] = stage[t]
      BY <2>3, PresenceAssumption DEF Discard, Forget, Goes, local, LocalOK, Game
    <3> QED BY <1>0, <2>1, <3>1, SeatsStay
  <2>4. CASE Discard(s) /\ InSomeGame(s) # {}
    <3>1. PICK t \in Session \ {s} : entry[t] \in Game
      BY <2>4 DEF InSomeGame
    <3>2. entry[t] \in OwnGame /\ play'[t] = play[t] /\ stage'[t] # "gone"
      BY <2>4, <3>1, PresenceAssumption
      DEF HashOK, Seat, Game, Discard, Forget, Goes, local, LocalOK, CountInv, Sound, Rests
    <3>3. status[entry[t]] # "over" => play[t] \in OwnGame
      BY <3>2 DEF CountInv, Sound, SeatIsPlayed, ReaderOK, HandlerOK, OneGame
    <3> SUFFICES ASSUME NEW g \in seated, status'[g] # "over"
                 PROVE  play'[t] = g
      BY <2>1, <3>2 DEF SeatedPlayed
    <3>4. g \in OwnGame /\ g = entry[t] /\ status[g] # "over"
      BY <1>0, <3>2 DEF HashOK, OneGame, OverStays, Game
    <3> QED BY <3>2, <3>3, <3>4 DEF OneGame
  <2> QED BY <2>1, <2>2, <2>3, <2>4
<1>8. ASSUME NEW s \in Session, PublishLeft(s) PROVE SeatedPlayed'
  <2>1. /\ seated' = seated \ {play[s]}
        /\ \A t \in Session : t # s => play'[t] = play[t] /\ stage'[t] = stage[t]
    BY <1>8 DEF PublishLeft, Discard, Forget, Goes, local, LocalOK
  <2> SUFFICES ASSUME NEW g \in seated', status'[g] # "over"
               PROVE  \E t \in Session : play'[t] = g /\ stage'[t] # "gone"
    BY DEF SeatedPlayed
  <2>2. g \in seated /\ g # play[s] /\ status[g] # "over"
    BY <1>0, <2>1 DEF HashOK, OverStays, Game
  <2>3. PICK t \in Session : play[t] = g /\ stage[t] # "gone"
    BY <2>2 DEF SeatedPlayed
  <2>4. play'[t] = g /\ stage'[t] # "gone"
    BY <2>1, <2>2, <2>3
  <2> QED BY <2>4
<1>9. CASE Tick
  BY <1>9 DEF Tick, TickRead, TickWrite, TickFind, TickDelete, CountInv
<1>10. ASSUME NEW s \in Session, Connect(s) PROVE SeatedPlayed'
  <2>1. stage' = [stage EXCEPT ![s] = "added"]
    BY <1>10, ReplyIsOk DEF Connect
  <2> QED BY <1>1, <1>10, <2>1 DEF Connect, local, LocalOK
<1>11. ASSUME NEW s \in Session, Open(s) \/ Stop(s) \/ StopUnsubscribe(s) \/ StopWait(s)
       PROVE  SeatedPlayed'
  <2>1. \E next \in {"open", "stopping", "closing", "cleaning"} : stage' = [stage EXCEPT ![s] = next]
    BY <1>11 DEF Open, Stop, StopUnsubscribe, StopWait, Goes
  <2>2. \A t \in Session : stage'[t] = "gone" => stage[t] = "gone"
    BY <2>1 DEF LocalOK
  <2> QED BY <1>1, <1>11, <2>2 DEF Open, Stop, StopUnsubscribe, StopWait, hash, local
<1>12. (OtherFinds \/ OtherDeletes \/ \E s \in Session : GrowsOld(s)) => FALSE
  BY DEF OtherFinds, OtherDeletes, GrowsOld, CountInv
<1> QED BY <1>1, <1>2, <1>3, <1>4, <1>5, <1>6, <1>7, <1>8, <1>9, <1>10, <1>11, <1>12
    DEF Next, vars, hash, local, GameStarts, GameEnds, ListenCreated, ListenEnded, Broadcast, Register,
        ReaderStep, HandlerStep, CleanUp, FindMatch, Resume, View, ViewSubscribe, EndedClear,
        EndedUnsubscribe

\* While Redis answers and the ticker is off, a user with one game who has been seen
\* in it has a session that plays it until playerLeft is published: whatever the
\* order in which his sessions resume, are created for, and close, his departure is
\* reported.  (It may be reported early: see LastOutIsAnnounced.)
THEOREM LastOutIsAnnouncedHolds ==
  ASSUME ~RedisMayFail, ~MayRefresh, OneGame
  PROVE  Spec => []LastOutIsAnnounced
<1> DEFINE Inv == PresenceTypes /\ CountInv /\ SeatedPlayed
<1>1. Init => Inv
  BY TypesInit, CountInit
<1>2. Inv /\ [Next]_vars => Inv'
  BY NextTypes, NextCounts, NextSeats
<1>3. Inv => LastOutIsAnnounced
  <2> SUFFICES ASSUME Inv, NEW g \in seated, status[g] = "live"
               PROVE  \E s \in Session : play[s] = g /\ stage[s] \notin {"new", "gone"}
    BY DEF LastOutIsAnnounced
  <2>1. PICK s \in Session : play[s] = g /\ stage[s] # "gone"
    BY DEF SeatedPlayed
  <2>2. g # NoGame
    BY PresenceAssumption DEF PresenceTypes, HashOK, Game
  <2> QED BY <2>1, <2>2 DEF CountInv, Sound, Rests
<1> QED BY <1>1, <1>2, <1>3, PTL DEF Spec
=============================================================================
