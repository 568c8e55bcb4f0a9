-------------------------- MODULE FollowersProofs --------------------------
(***************************************************************************)
(* Theorems about the parts that follow the events of the game and auth    *)
(* services, for any sets of games, users and accounts and any bounds: the *)
(* chat's room follows its game, an account's acknowledged update is kept, *)
(* a bot's board is in step and the reader of its connection never sends   *)
(* on a closed channel, a rated user's row tells what his history tells,   *)
(* one refresh settles the list of live games.  The last section is about  *)
(* all parts together.                                                     *)
(***************************************************************************)
EXTENDS Followers, FiniteSetTheorems, InductionLemmas

-----------------------------------------------------------------------------
(* Chat *)

\* A goroutine that is under way has a game.
ChatThreadsOK ==
  /\ onGame.pc # "idle" => onGame.game \in Game
  /\ onMsg.pc # "idle" => onMsg.game \in Game

ChatTypeInv == ChatTypeOK /\ ChatThreadsOK

LEMMA ChatTypeInit == ChatInit => ChatTypeInv
BY ChatAssumption DEF ChatInit, ChatTypeInv, ChatTypeOK, ChatThreadsOK, Free

\* A fault is recorded, and none is forgotten.
LEMMA OneFault ==
  ASSUME faults \in [Game -> SUBSET Fault], NEW g \in Game, NEW what \in Fault, Fails(g, what)
  PROVE  /\ faults' \in [Game -> SUBSET Fault] /\ what \in faults'[g]
         /\ \A h \in Game : faults[h] \subseteq faults'[h]
BY DEF Fails

LEMMA FaultsGrow ==
  ASSUME ChatTypeInv, [ChatNext]_chatVars
  PROVE  /\ faults' \in [Game -> SUBSET Fault]
         /\ \A h \in Game : faults[h] \subseteq faults'[h]
<1> DEFINE Grown == /\ faults' \in [Game -> SUBSET Fault]
                    /\ \A h \in Game : faults[h] \subseteq faults'[h]
<1>a. /\ faults \in [Game -> SUBSET Fault]
      /\ onGame.pc # "idle" => onGame.game \in Game
  BY DEF ChatTypeInv, ChatTypeOK, ChatThreadsOK
<1>b. faults' = faults => Grown
  BY <1>a
<1>c. ASSUME NEW g \in Game, NEW what \in Fault, Fails(g, what) PROVE Grown
  BY <1>a, <1>c, OneFault
<1> HIDE DEF Grown
<1>1. ASSUME NEW g \in Game, TakeCreated(g) PROVE Grown
  BY <1>1, <1>b, <1>c DEF TakeCreated, Fault
<1>2. ASSUME NEW g \in Game, TakeEnded(g) PROVE Grown
  BY <1>2, <1>b, <1>c DEF TakeEnded, Fault
<1>3. ASSUME NEW g \in Game, TakeMessage(g) PROVE Grown
  BY <1>3, <1>b DEF TakeMessage
<1>4. ASSUME AddGameChat PROVE Grown
  BY <1>4, <1>a, <1>b, <1>c DEF AddGameChat, Fault
<1>5. ASSUME PublishCreated PROVE Grown
  BY <1>5, <1>a, <1>b, <1>c DEF PublishCreated, ChatPublishes, Fault
<1>6. ASSUME DeleteGameChat PROVE Grown
  BY <1>6, <1>a, <1>b, <1>c DEF DeleteGameChat, Fault
<1>7. ASSUME PublishEnded PROVE Grown
  BY <1>7, <1>a, <1>b, <1>c DEF PublishEnded, ChatPublishes, Fault
<1>8. ASSUME PublishApproved PROVE Grown
  BY <1>8, <1>b DEF PublishApproved
<1>9. ASSUME ChatCrash PROVE Grown
  <2>1. \A g \in Game : Undone(g) \subseteq Fault
    BY DEF Undone, Fault
  <2> QED
    BY <1>9, <1>a, <2>1 DEF ChatCrash, Grown
<1>10. ASSUME NEW g \in Game, NEW kind \in Kinds, Redeliver(g, kind) PROVE Grown
  BY <1>10, <1>b, <1>c DEF Redeliver, Fault
<1>11. ASSUME UNCHANGED chatVars PROVE Grown
  BY <1>11, <1>b DEF chatVars
<1>12. Grown
  BY <1>1, <1>2, <1>3, <1>4, <1>5, <1>6, <1>7, <1>8, <1>9, <1>10, <1>11 DEF ChatNext
<1> QED
  BY <1>12 DEF Grown

LEMMA ChatTypeStep == ChatTypeInv /\ [ChatNext]_chatVars => ChatTypeInv'
<1> SUFFICES ASSUME ChatTypeInv, [ChatNext]_chatVars PROVE ChatTypeInv'
  OBVIOUS
<1>f. faults' \in [Game -> SUBSET Fault]
  BY FaultsGrow
<1> USE ChatAssumption DEF ChatTypeInv, ChatTypeOK, ChatThreadsOK, Free
<1>1. ASSUME NEW g \in Game, TakeCreated(g) PROVE ChatTypeInv'
  BY <1>1, <1>f DEF TakeCreated, Kinds
<1>2. ASSUME NEW g \in Game, TakeEnded(g) PROVE ChatTypeInv'
  BY <1>2, <1>f DEF TakeEnded, Kinds
<1>3. ASSUME NEW g \in Game, TakeMessage(g) PROVE ChatTypeInv'
  BY <1>3, <1>f DEF TakeMessage
<1>4. CASE AddGameChat
  BY <1>4, <1>f DEF AddGameChat, GoOn
<1>5. CASE PublishCreated
  BY <1>5, <1>f DEF PublishCreated, ChatPublishes, GoOn
<1>6. CASE DeleteGameChat
  <2>1. keys' \subseteq Game /\ told' \in [Game -> [created: Nat, ended: Nat, deleted: Nat, late: Nat]]
    BY <1>6 DEF DeleteGameChat
  <2> QED
    BY <1>6, <1>f, <2>1 DEF DeleteGameChat, GoOn
<1>7. CASE PublishEnded
  BY <1>7, <1>f DEF PublishEnded, ChatPublishes, GoOn
<1>8. CASE PublishApproved
  BY <1>8, <1>f DEF PublishApproved
<1>9. CASE ChatCrash
  BY <1>9, <1>f DEF ChatCrash
<1>10. ASSUME NEW g \in Game, NEW kind \in Kinds, Redeliver(g, kind) PROVE ChatTypeInv'
  <2>1. taken' \in [Game -> SUBSET Kinds] /\ crashes' \in 0..MaxCrashes
    BY <1>10 DEF Redeliver
  <2> QED
    BY <1>10, <1>f, <2>1 DEF Redeliver
<1>11. CASE UNCHANGED chatVars
  BY <1>11, <1>f DEF chatVars
<1> QED
  BY <1>1, <1>2, <1>3, <1>4, <1>5, <1>6, <1>7, <1>8, <1>9, <1>10, <1>11 DEF ChatNext

\* Every reachable state of the chat service is well typed, whatever fails and
\* however often it restarts (chatservice, service.go, event.go, cach.go).
THEOREM ChatTypeCorrect == ChatSpec => [](ChatTypeOK /\ ChatThreadsOK)
<1>1. ChatInit => ChatTypeInv
  BY ChatTypeInit
<1>2. ChatTypeInv /\ [ChatNext]_chatVars => ChatTypeInv'
  BY ChatTypeStep
<1> QED
  BY <1>1, <1>2, PTL DEF ChatSpec, ChatTypeInv

-----------------------------------------------------------------------------
(* A chat is announced once for each time its key is set *)

\* The key of a chat that was announced is there, or was deleted after.
Announcing(g) == onGame.pc = "created" /\ onGame.game = g
KeyGuards ==
  \A g \in Game :
    /\ told[g].created <= told[g].deleted + 1
    /\ g \notin keys \/ Announcing(g) => told[g].created <= told[g].deleted
    /\ Announcing(g) => g \in keys

LEMMA KeyGuardsStep ==
  ChatTypeInv /\ KeyGuards /\ [ChatNext]_chatVars => KeyGuards'
<1> SUFFICES ASSUME ChatTypeInv, KeyGuards, [ChatNext]_chatVars,
                    NEW h \in Game
             PROVE  (/\ told[h].created <= told[h].deleted + 1
                     /\ h \notin keys \/ Announcing(h) => told[h].created <= told[h].deleted
                     /\ Announcing(h) => h \in keys)'
  BY DEF KeyGuards
<1> DEFINE Fact == (/\ told[h].created <= told[h].deleted + 1
                    /\ h \notin keys \/ Announcing(h) => told[h].created <= told[h].deleted
                    /\ Announcing(h) => h \in keys)
<1> USE ChatAssumption DEF ChatTypeInv, ChatTypeOK, ChatThreadsOK, Free, KeyGuards, Announcing
<1>1. ASSUME NEW g \in Game, TakeCreated(g) PROVE Fact'
  BY <1>1 DEF TakeCreated
<1>2. ASSUME NEW g \in Game, TakeEnded(g) PROVE Fact'
  BY <1>2 DEF TakeEnded
<1>3. ASSUME NEW g \in Game, TakeMessage(g) PROVE Fact'
  BY <1>3 DEF TakeMessage
<1>4. CASE AddGameChat
  BY <1>4 DEF AddGameChat, GoOn
<1>5. CASE PublishCreated
  BY <1>5 DEF PublishCreated, ChatPublishes, GoOn
<1>6. CASE DeleteGameChat
  BY <1>6 DEF DeleteGameChat, GoOn
<1>7. CASE PublishEnded
  BY <1>7 DEF PublishEnded, ChatPublishes, GoOn
<1>8. CASE PublishApproved
  BY <1>8 DEF PublishApproved
<1>9. CASE ChatCrash
  BY <1>9 DEF ChatCrash
<1>10. ASSUME NEW g \in Game, NEW kind \in Kinds, Redeliver(g, kind) PROVE Fact'
  BY <1>10 DEF Redeliver
<1>11. CASE UNCHANGED chatVars
  BY <1>11 DEF chatVars
<1> QED
  BY <1>1, <1>2, <1>3, <1>4, <1>5, <1>6, <1>7, <1>8, <1>9, <1>10, <1>11 DEF ChatNext

\* Whatever fails, restarts or is delivered again, a chat is announced again only
\* after its key was deleted (addGameChat's SETNX).
THEOREM ChatAnnouncedOnceHolds == ChatSpec => []ChatAnnouncedOnce
<1>1. ChatInit => ChatTypeInv /\ KeyGuards
  <2>1. ASSUME ChatInit PROVE KeyGuards
    <3>1. \A g \in Game : told[g].created = told[g].deleted /\ told[g].deleted \in Nat
      BY <2>1 DEF ChatInit
    <3>2. onGame.pc # "created"
      BY <2>1 DEF ChatInit, Free
    <3>3. \A g \in Game : told[g].created <= told[g].deleted + 1 /\ told[g].created <= told[g].deleted
      <4> TAKE g \in Game
      <4>1. \A n \in Nat : n <= n + 1 /\ n <= n
        OBVIOUS
      <4> QED
        BY <3>1, <4>1
    <3>4. \A g \in Game : ~Announcing(g)
      BY <3>2 DEF Announcing
    <3> QED
      BY <3>3, <3>4 DEF KeyGuards
  <2> QED
    BY <2>1, ChatTypeInit
<1>2. ChatTypeInv /\ KeyGuards /\ [ChatNext]_chatVars => (ChatTypeInv /\ KeyGuards)'
  BY ChatTypeStep, KeyGuardsStep
<1>3. ChatTypeInv /\ KeyGuards => ChatAnnouncedOnce
  BY DEF KeyGuards, ChatAnnouncedOnce
<1> QED
  BY <1>1, <1>2, <1>3, PTL DEF ChatSpec

-----------------------------------------------------------------------------
(* A message that comes after the end of its chat is the last *)

\* A chat in memory has not been ended since it was opened, and is not being
\* ended; a message under way has room before the bound.
LateOnce ==
  /\ onGame.pc \in {"delete", "ended"} => onGame.game \notin chats
  /\ \A g \in Game :
       /\ told[g].late <= told[g].ended
       /\ g \in chats => told[g].ended = 0
       /\ onMsg.pc = "approve" /\ onMsg.game = g =>
            told[g].ended = 0 \/ told[g].late + 1 <= told[g].ended

LEMMA LateOnceStep ==
  ChatTypeInv /\ LateOnce /\ [ChatNext]_chatVars => LateOnce'
<1> SUFFICES ASSUME ChatTypeInv, LateOnce, [ChatNext]_chatVars PROVE LateOnce'
  OBVIOUS
<1> USE ChatAssumption DEF ChatTypeInv, ChatTypeOK, ChatThreadsOK, Free, LateOnce
<1>1. ASSUME NEW g \in Game, TakeCreated(g) PROVE LateOnce'
  BY <1>1 DEF TakeCreated
<1>2. ASSUME NEW g \in Game, TakeEnded(g) PROVE LateOnce'
  BY <1>2 DEF TakeEnded
<1>3. ASSUME NEW g \in Game, TakeMessage(g) PROVE LateOnce'
  BY <1>3 DEF TakeMessage
<1>4. CASE AddGameChat
  BY <1>4 DEF AddGameChat, GoOn
<1>5. CASE PublishCreated
  BY <1>5 DEF PublishCreated, ChatPublishes, GoOn
<1>6. CASE DeleteGameChat
  BY <1>6 DEF DeleteGameChat, GoOn
<1>7. CASE PublishEnded
  BY <1>7 DEF PublishEnded, ChatPublishes, GoOn
<1>8. CASE PublishApproved
  BY <1>8 DEF PublishApproved
<1>9. CASE ChatCrash
  BY <1>9 DEF ChatCrash
<1>10. ASSUME NEW g \in Game, NEW kind \in Kinds, Redeliver(g, kind) PROVE LateOnce'
  BY <1>10 DEF Redeliver
<1>11. CASE UNCHANGED chatVars
  BY <1>11 DEF chatVars
<1> QED
  BY <1>1, <1>2, <1>3, <1>4, <1>5, <1>6, <1>7, <1>8, <1>9, <1>10, <1>11 DEF ChatNext

\* Of the messages of a chat at most one is approved after the chat's end was
\* announced: the goroutine of the messages looks the chat up before it publishes.
THEOREM AtMostOneLateMessageHolds == ChatSpec => []AtMostOneLateMessage
<1>1. ChatInit => ChatTypeInv /\ LateOnce
  <2>1. ChatInit => LateOnce
    BY DEF ChatInit, LateOnce, Free
  <2> QED
    BY <2>1, ChatTypeInit
<1>2. ChatTypeInv /\ LateOnce /\ [ChatNext]_chatVars => (ChatTypeInv /\ LateOnce)'
  BY ChatTypeStep, LateOnceStep
<1>3. ChatTypeInv /\ LateOnce => AtMostOneLateMessage
  BY DEF LateOnce, AtMostOneLateMessage
<1> QED
  BY <1>1, <1>2, <1>3, PTL DEF ChatSpec

-----------------------------------------------------------------------------
(* The chat of a game, and what sets them apart *)

\* What ChatFollowsGame says of a game that is not in hand, said of every step of
\* the goroutine of the games: the chat it opens is in memory already, the one it
\* ends no more.
At(g, pcs) == onGame.game = g /\ onGame.pc \in pcs
FollowsAt(g) ==
  /\ At(g, {"setnx", "created"}) => g \in chats
  /\ At(g, {"delete", "ended"}) => g \notin chats
  /\ At(g, {"created"}) => g \in keys
  /\ InMemory(g)
  /\ g \in chats \ keys => After(g, {"unset"}) \/ At(g, {"setnx"})
  /\ "ended" \in taken[g] /\ g \in keys => After(g, {"kept", "missed", "late"}) \/ At(g, {"delete"})
  /\ g \in keys /\ told[g].created = 0 => After(g, {"silent"}) \/ At(g, {"created"})
  /\ "ended" \in taken[g] /\ told[g].created > 0 /\ told[g].ended = 0
       => After(g, {"unsaid", "missed", "late"}) \/ At(g, {"delete", "ended"})

LEMMA FollowsStep ==
  ASSUME ChatTypeInv, NEW h \in Game, FollowsAt(h), [ChatNext]_chatVars
  PROVE  FollowsAt(h)'
<1>a. /\ chats \subseteq Game /\ keys \subseteq Game /\ taken \in [Game -> SUBSET Kinds]
      /\ onGame \in [pc: {"idle", "setnx", "created", "delete", "ended"}, game: Game \cup {NoGame}]
      /\ told \in [Game -> [created: Nat, ended: Nat, deleted: Nat, late: Nat]]
      /\ faults \in [Game -> SUBSET Fault] /\ NoGame \notin Game
      /\ onGame.pc # "idle" => onGame.game \in Game
  BY ChatAssumption DEF ChatTypeInv, ChatTypeOK, ChatThreadsOK
<1>b. \A which : After(h, which) => After(h, which)'
  BY FaultsGrow DEF After
<1>c. \A what : what \in faults'[h] => \A which : what \in which => After(h, which)'
  BY DEF After
<1>d. \A what \in Fault : Fails(h, what) => \A which : what \in which => After(h, which)'
  BY <1>a, <1>c, OneFault
<1>e. After(h, {"late"}) => /\ After(h, {"kept", "missed", "late"})'
                            /\ After(h, {"unsaid", "missed", "late"})'
  BY FaultsGrow DEF After
<1> USE DEF FollowsAt, At, InMemory, Free, Kinds
<1>1. ASSUME NEW g \in Game, TakeCreated(g) PROVE FollowsAt(h)'
  BY <1>1, <1>a, <1>b, <1>d DEF TakeCreated, Fault
<1>2. ASSUME NEW g \in Game, TakeEnded(g) PROVE FollowsAt(h)'
  BY <1>2, <1>a, <1>b, <1>d DEF TakeEnded, Fault
<1>3. ASSUME NEW g \in Game, TakeMessage(g) PROVE FollowsAt(h)'
  BY <1>3, <1>a, <1>b DEF TakeMessage
<1>4. CASE AddGameChat
  <2>1. CASE onGame.game = h
    <3>1. UNCHANGED <<chats, taken, told>> /\ onGame.pc = "setnx" /\ h \in chats
      BY <1>4, <2>1 DEF AddGameChat
    <3>2. CASE h \in keys /\ h \in keys' /\ onGame' = Free
      BY <1>a, <1>b, <3>1, <3>2
    <3>3. CASE h \notin keys /\ h \in keys' /\ onGame' = [onGame EXCEPT !.pc = "created"]
      <4>1. onGame'.pc = "created" /\ onGame'.game = h
        BY <1>a, <2>1, <3>3
      <4> QED
        BY <1>b, <1>e, <2>1, <3>1, <3>3, <4>1
    <3>4. CASE keys' = keys /\ onGame' = Free /\ Fails(h, "unset")
      BY <1>a, <1>b, <1>d, <3>1, <3>4 DEF Fault
    <3> QED
      BY <1>4, <1>a, <2>1, <3>2, <3>3, <3>4 DEF AddGameChat, GoOn
  <2>2. CASE onGame.game # h
    <3>1. UNCHANGED <<chats, taken, told>> /\ (h \in keys' <=> h \in keys) /\ onGame'.game # h
      BY <1>4, <1>a, <2>2 DEF AddGameChat, GoOn
    <3> QED
      BY <1>b, <2>2, <3>1
  <2> QED
    BY <2>1, <2>2
<1>5. CASE PublishCreated
  <2>1. /\ UNCHANGED <<chats, keys, taken>> /\ onGame.pc = "created" /\ onGame' = Free
        /\ \A g \in Game : told'[g].ended = told[g].ended /\ told'[g].created >= told[g].created
    BY <1>5, <1>a DEF PublishCreated, ChatPublishes, GoOn
  <2>2. CASE onGame.game = h
    <3>1. told'[h].created # 0 \/ (told' = told /\ Fails(h, "silent"))
      BY <1>5, <1>a, <2>2 DEF PublishCreated, ChatPublishes
    <3>2. h \in chats /\ h \in keys /\ onGame'.pc = "idle"
      BY <2>1, <2>2
    <3>3. CASE told'[h].created # 0
      BY <1>b, <1>e, <2>1, <3>2, <3>3
    <3>4. CASE told' = told /\ Fails(h, "silent")
      <4>1. After(h, {"silent"})'
        BY <1>d, <3>4 DEF Fault
      <4> QED
        BY <1>b, <1>e, <2>1, <3>2, <3>4, <4>1
    <3> QED
      BY <3>1, <3>3, <3>4
  <2>3. CASE onGame.game # h
    <3>1. told'[h] = told[h]
      BY <1>5, <1>a, <2>3 DEF PublishCreated, ChatPublishes
    <3> QED
      BY <1>a, <1>b, <2>1, <2>3, <3>1
  <2> QED
    BY <2>2, <2>3
<1>6. CASE DeleteGameChat
  BY <1>6, <1>a, <1>b, <1>d DEF DeleteGameChat, GoOn, Fault
<1>7. CASE PublishEnded
  BY <1>7, <1>a, <1>b, <1>d DEF PublishEnded, ChatPublishes, GoOn, Fault
<1>8. CASE PublishApproved
  BY <1>8, <1>a, <1>b DEF PublishApproved
<1>9. CASE ChatCrash
  <2>1. faults'[h] = faults[h] \cup Undone(h)
    BY <1>9 DEF ChatCrash
  <2>2. /\ At(h, {"created"}) => After(h, {"silent"})'
        /\ At(h, {"delete"}) => After(h, {"kept", "missed", "late"})'
        /\ At(h, {"delete", "ended"}) => After(h, {"unsaid", "missed", "late"})'
        /\ taken'[h] = {"created"} => After(h, {"lost", "again"})'
    BY <1>c, <2>1 DEF Undone
  <2> QED
    BY <1>9, <1>a, <1>b, <2>2 DEF ChatCrash
<1>10. ASSUME NEW g \in Game, NEW kind \in Kinds, Redeliver(g, kind) PROVE FollowsAt(h)'
  BY <1>10, <1>a, <1>b, <1>d DEF Redeliver, Fault
<1>11. CASE UNCHANGED chatVars
  BY <1>11, <1>b DEF chatVars
<1> QED
  BY <1>1, <1>2, <1>3, <1>4, <1>5, <1>6, <1>7, <1>8, <1>9, <1>10, <1>11 DEF ChatNext

\* Whatever fails, restarts, comes again or in another order, and whatever other
\* games do meanwhile: an open chat, its key and what its players were told are
\* those of its game's state, but after the faults ChatFollowsGame names. So a game
\* in progress has its chat unless a restart forgot it, and one that has ended has
\* none unless its creation was taken after its end (chatservice, event.go:31-121).
THEOREM ChatFollowsGameHolds == ChatSpec => []ChatFollowsGame
<1> DEFINE Inv == ChatTypeInv /\ \A g \in Game : FollowsAt(g)
<1>1. ChatInit => Inv
  <2>1. ASSUME ChatInit, NEW g \in Game PROVE FollowsAt(g)
    BY <2>1, ChatAssumption DEF ChatInit, FollowsAt, Free, At, InMemory
  <2> QED
    BY <2>1, ChatTypeInit
<1>2. Inv /\ [ChatNext]_chatVars => Inv'
  BY ChatTypeStep, FollowsStep
<1>3. Inv => ChatFollowsGame
  <2> SUFFICES ASSUME Inv, NEW g \in Game, onGame.game # g
               PROVE  InMemory(g) /\ InRedis(g) /\ PlayersKnow(g)
    BY DEF ChatFollowsGame
  <2>1. FollowsAt(g) /\ \A pcs : ~At(g, pcs)
    BY DEF At
  <2> QED
    BY <2>1 DEF FollowsAt, InRedis, PlayersKnow, After
<1> QED
  BY <1>1, <1>2, <1>3, PTL DEF ChatSpec

-----------------------------------------------------------------------------
(* Accounts *)

LoginRec  == [pc: {"new", "create", "publish", "done"}, email: AnyEmail \cup {NoId}, google: BOOLEAN]
UserRec   == [id: Login \cup {NoId}, secret: BOOLEAN]
CreatedEv == [id: Login, email: AnyEmail, name: Value]
ProfileRec == [email: AnyEmail \cup {NoId}, name: Value, bio: Value]
ChangeRec == [pc: {"new", "write", "done"}, id: Login \cup {NoId}, sets: SUBSET Field, exists: BOOLEAN]

\* What the auth service writes, and what it is about to write.
AuthOK ==
  /\ login \in [Login -> LoginRec] /\ users \in [Email -> UserRec]
  /\ token \in [Login -> Login \cup {NoId}] /\ bus \subseteq CreatedEv
  /\ \A r \in Login : login[r].pc \in {"create", "publish"} => login[r].email \in Email

\* What the profile service writes: the fields that were acknowledged among it.
ProfileOK ==
  /\ profile \in [Login -> ProfileRec] /\ change \in [Change -> ChangeRec]
  /\ acked \in [Login -> SUBSET Field]
  /\ \A c \in Change : change[c].pc = "write" => change[c].id \in Login
  /\ \A i, j \in Login : i # j /\ profile[i].email = profile[j].email => profile[i].email = NoId
  /\ \A r \in Login : /\ "name" \in acked[r] => profile[r].name = "own"
                      /\ "bio" \in acked[r] => profile[r].bio = "own"

\* The updates as they must be.
ChangesOK == /\ change \in [Change -> ChangeRec]
             /\ \A c \in Change : change[c].pc = "write" => change[c].id \in Login

LEMMA ProfileFrame ==
  ASSUME ProfileOK, profile' = profile, acked' = acked, ChangesOK'
  PROVE  ProfileOK'
<1>1. profile' \in [Login -> ProfileRec] /\ acked' \in [Login -> SUBSET Field]
  BY DEF ProfileOK
<1>2. \A i, j \in Login : i # j /\ profile'[i].email = profile'[j].email => profile'[i].email = NoId
  BY DEF ProfileOK
<1>3. \A r \in Login : /\ "name" \in acked'[r] => profile'[r].name = "own"
                       /\ "bio" \in acked'[r] => profile'[r].bio = "own"
  BY DEF ProfileOK
<1> QED BY <1>1, <1>2, <1>3 DEF ProfileOK, ChangesOK

LEMMA AccountsTypes == AuthOK /\ ProfileOK => AccountsTypeOK
BY DEF AuthOK, ProfileOK, AccountsTypeOK, LoginRec, UserRec, CreatedEv, ProfileRec, ChangeRec

LEMMA AccountsStart == AccountsInit => AuthOK /\ ProfileOK
<1> SUFFICES ASSUME AccountsInit PROVE AuthOK /\ ProfileOK
  OBVIOUS
<1>1. AuthOK
  <2>1. [pc |-> "new", email |-> NoId, google |-> FALSE] \in LoginRec /\ NoUser \in UserRec
    BY DEF LoginRec, UserRec, NoUser
  <2>2. \A r \in Login : login[r].pc = "new"
    BY DEF AccountsInit
  <2> QED BY <2>1, <2>2 DEF AccountsInit, AuthOK
<1>2. ProfileOK
  <2>1. NoRow \in ProfileRec /\ Idle \in ChangeRec
    BY DEF NoRow, Idle, ProfileRec, ChangeRec, Value
  <2>2. \A c \in Change : change[c].pc = "new"
    BY DEF AccountsInit, Idle
  <2>3. \A r \in Login : profile[r].email = NoId /\ acked[r] = {}
    BY DEF AccountsInit, NoRow
  <2> QED BY <2>1, <2>2, <2>3 DEF AccountsInit, ProfileOK
<1> QED BY <1>1, <1>2

\* What a step of request r may write beside the state of its goroutine.
TokenGoes(r) == token' = token \/ \E id \in Login \cup {NoId} : token' = [token EXCEPT ![r] = id]
UsersGo(r)   == users' = users \/ \E f \in Email, s \in BOOLEAN :
                                     users' = [users EXCEPT ![f] = [id |-> r, secret |-> s]]
LoginIs(r, p, e, g) == login' = [login EXCEPT ![r] = [pc |-> p, email |-> e, google |-> g]]

\* A request takes a step: its goroutine has another pc and perhaps its email.
LEMMA LoginStep ==
  ASSUME AuthOK, NEW r \in Login, NEW p \in {"new", "create", "publish", "done"},
         NEW e \in AnyEmail \cup {NoId}, NEW g \in BOOLEAN,
         p \in {"create", "publish"} => e \in Email,
         LoginIs(r, p, e, g), TokenGoes(r), UsersGo(r), bus' \subseteq CreatedEv
  PROVE  AuthOK'
<1>1. login' \in [Login -> LoginRec]
  BY DEF AuthOK, LoginRec, LoginIs
<1>2. users' \in [Email -> UserRec]
  <2>1. \A s \in BOOLEAN : [id |-> r, secret |-> s] \in UserRec
    BY DEF UserRec
  <2> QED BY <2>1 DEF AuthOK, UsersGo
<1>3. token' \in [Login -> Login \cup {NoId}]
  BY DEF AuthOK, TokenGoes
<1>4. \A q \in Login : login'[q].pc \in {"create", "publish"} => login'[q].email \in Email
  BY DEF AuthOK, LoginIs
<1> QED BY <1>1, <1>2, <1>3, <1>4 DEF AuthOK

\* Another pc only.
LEMMA LoginGoes ==
  ASSUME AuthOK, NEW r \in Login, NEW p
  PROVE  /\ [login EXCEPT ![r].pc = p]
               = [login EXCEPT ![r] = [pc |-> p, email |-> login[r].email, google |-> login[r].google]]
         /\ login[r].email \in AnyEmail \cup {NoId} /\ login[r].google \in BOOLEAN
<1>1. login[r] \in LoginRec
  BY DEF AuthOK
<1>2. \A x \in LoginRec : [x EXCEPT !.pc = p] = [pc |-> p, email |-> x.email, google |-> x.google]
  BY DEF LoginRec
<1>3. [login[r] EXCEPT !.pc = p] = [pc |-> p, email |-> login[r].email, google |-> login[r].google]
  BY <1>1, <1>2
<1> QED BY <1>1, <1>3 DEF LoginRec

LEMMA AuthStep ==
  ASSUME AuthOK, NEW r \in Login,
         \/ \E e \in Email : GoogleAuth(r, e) \/ PasswordAuth(r, e)
         \/ CreateUser(r) \/ PublishUser(r) \/ GuestLogin(r)
  PROVE  AuthOK' /\ UNCHANGED <<profile, change, acked>>
<1>0. Email \subseteq AnyEmail /\ r \in AnyEmail /\ bus \subseteq CreatedEv
  BY DEF AnyEmail, AuthOK
<1>1. ASSUME NEW e \in Email, GoogleAuth(r, e) \/ PasswordAuth(r, e) PROVE AuthOK'
  <2>1. PICK p \in {"create", "done"}, g \in BOOLEAN : LoginIs(r, p, e, g)
    BY <1>1 DEF GoogleAuth, PasswordAuth, Begins, LoginIs
  <2>2. users[e].id \in Login \cup {NoId}
    BY DEF AuthOK, UserRec
  <2>3. /\ token' = token \/ token' = [token EXCEPT ![r] = users[e].id]
        /\ users' = users /\ bus' = bus
    BY <1>1 DEF GoogleAuth, PasswordAuth
  <2>4. TokenGoes(r) /\ UsersGo(r) /\ bus' \subseteq CreatedEv
    BY <1>0, <2>2, <2>3 DEF TokenGoes, UsersGo
  <2> QED BY <1>0, <2>1, <2>4, LoginStep
<1>2. ASSUME CreateUser(r) PROVE AuthOK'
  <2>1. PICK p \in {"publish", "done"}, e \in Email, g \in BOOLEAN : LoginIs(r, p, e, g)
    <3>1. PICK p \in {"publish", "done"} : login' = [login EXCEPT ![r].pc = p]
      BY <1>2 DEF CreateUser, Ends
    <3>2. login[r].email \in Email
      BY <1>2 DEF CreateUser, AuthOK
    <3>3. LoginIs(r, p, login[r].email, login[r].google)
      BY <3>1, LoginGoes DEF LoginIs
    <3>4. PICK e \in Email, g \in BOOLEAN : e = login[r].email /\ g = login[r].google
      BY <3>2, LoginGoes
    <3>5. LoginIs(r, p, e, g)
      BY <3>3, <3>4 DEF LoginIs
    <3> QED BY <3>5
  <2>2. login[r].email \in Email
    BY <1>2 DEF CreateUser, AuthOK
  <2>3. TokenGoes(r)
    BY <1>2 DEF CreateUser, Ends, TokenGoes
  <2>4. UsersGo(r)
    <3>1. (~login[r].google) \in BOOLEAN
      OBVIOUS
    <3> QED BY <1>2, <2>2, <3>1 DEF CreateUser, UsersGo
  <2>5. bus' \subseteq CreatedEv
    BY <1>0, <1>2 DEF CreateUser
  <2> QED BY <1>0, <2>1, <2>3, <2>4, <2>5, LoginStep
<1>3. ASSUME PublishUser(r) PROVE AuthOK'
  <2>2. login[r].email \in Email
    BY <1>3 DEF PublishUser, AuthOK
  <2>1. PICK e \in Email, g \in BOOLEAN : LoginIs(r, "done", e, g)
    <3>1. login' = [login EXCEPT ![r].pc = "done"]
      BY <1>3 DEF PublishUser, Ends
    <3> QED BY <2>2, <3>1, LoginGoes DEF LoginIs
  <2>3. TokenGoes(r)
    BY <1>3 DEF PublishUser, Ends, TokenGoes
  <2>4. bus' \subseteq CreatedEv
    <3>1. \A n \in {"given", ""} : [id |-> r, email |-> login[r].email, name |-> n] \in CreatedEv
      BY <1>0, <2>2 DEF CreatedEv, Value
    <3>2. \/ bus' = bus
          \/ \E n \in {"given", ""} : bus' = bus \cup {[id |-> r, email |-> login[r].email, name |-> n]}
      BY <1>3 DEF PublishUser
    <3> QED BY <1>0, <3>1, <3>2
  <2>5. UsersGo(r)
    BY <1>3 DEF PublishUser, UsersGo
  <2> QED BY <1>0, <2>1, <2>3, <2>4, <2>5, LoginStep
<1>4. ASSUME GuestLogin(r) PROVE AuthOK'
  <2>1. PICK g \in BOOLEAN : LoginIs(r, "done", r, g)
    <3>1. login' = [login EXCEPT ![r] = [login[r] EXCEPT !.pc = "done", !.email = r]]
      <4>1. login' = [login EXCEPT ![r].pc = "done", ![r].email = r]
        BY <1>4 DEF GuestLogin
      <4> QED BY <4>1 DEF AuthOK
    <3>2. PICK x \in LoginRec : x = login[r]
      BY DEF AuthOK
    <3>3. x.google \in BOOLEAN /\ x = [pc |-> x.pc, email |-> x.email, google |-> x.google]
      BY DEF LoginRec
    <3>4. [x EXCEPT !.pc = "done", !.email = r] = [pc |-> "done", email |-> r, google |-> x.google]
      <4> DEFINE y == [x EXCEPT !.pc = "done"]
      <4>1. \A z \in LoginRec : [z EXCEPT !.pc = "done"] = [pc |-> "done", email |-> z.email, google |-> z.google]
        BY DEF LoginRec
      <4>2. y = [pc |-> "done", email |-> x.email, google |-> x.google] /\ y \in LoginRec
        BY <4>1 DEF LoginRec
      <4>3. \A z \in LoginRec : [z EXCEPT !.email = r] = [pc |-> z.pc, email |-> r, google |-> z.google]
        BY DEF LoginRec
      <4>4. [y EXCEPT !.email = r] = [pc |-> "done", email |-> r, google |-> x.google]
        <5>1. y.pc = "done" /\ y.google = x.google
          BY <4>2
        <5> HIDE DEF y
        <5> QED BY <4>2, <4>3, <5>1
      <4>5. [x EXCEPT !.pc = "done", !.email = r] = [y EXCEPT !.email = r]
        BY Zenon
      <4> QED BY <4>4, <4>5, Zenon
    <3> QED BY <3>1, <3>2, <3>3, <3>4 DEF LoginIs
  <2>3. TokenGoes(r) /\ UsersGo(r)
    BY <1>4 DEF GuestLogin, TokenGoes, UsersGo
  <2>4. bus' \subseteq CreatedEv
    <3>1. [id |-> r, email |-> r, name |-> "given"] \in CreatedEv
      BY <1>0 DEF CreatedEv, Value
    <3> QED BY <1>0, <1>4, <3>1 DEF GuestLogin
  <2> QED BY <1>0, <2>1, <2>3, <2>4, LoginStep
<1>5. UNCHANGED <<profile, change, acked>>
  BY DEF GoogleAuth, PasswordAuth, CreateUser, PublishUser, GuestLogin
<1> QED BY <1>1, <1>2, <1>3, <1>4, <1>5

\* A row is written: it is its owner's only one with that email, and what was
\* acknowledged of it is kept.
LEMMA ProfileStep ==
  ASSUME ProfileOK, NEW id \in Login, NEW row \in ProfileRec,
         row.email = profile[id].email \/ EmailFree(id, row.email),
         profile' = [profile EXCEPT ![id] = row],
         acked' \in [Login -> SUBSET Field], \A q \in Login \ {id} : acked'[q] = acked[q],
         "name" \in acked'[id] => row.name = "own", "bio" \in acked'[id] => row.bio = "own",
         ChangesOK'
  PROVE  ProfileOK'
<1>1. \A q \in Login : profile'[q] = IF q = id THEN row ELSE profile[q]
  BY DEF ProfileOK
<1>2. profile' \in [Login -> ProfileRec]
  BY DEF ProfileOK
<1>3. \A i, j \in Login : i # j /\ profile'[i].email = profile'[j].email => profile'[i].email = NoId
  <2> SUFFICES ASSUME NEW i \in Login, NEW j \in Login, i # j, profile'[i].email = profile'[j].email
               PROVE  profile'[i].email = NoId
    OBVIOUS
  <2>1. CASE i # id /\ j # id
    BY <1>1, <2>1 DEF ProfileOK
  <2>2. CASE i = id
    BY <1>1, <2>2 DEF ProfileOK, EmailFree
  <2>3. CASE j = id
    BY <1>1, <2>3 DEF ProfileOK, EmailFree
  <2> QED BY <2>1, <2>2, <2>3
<1>4. \A r \in Login : /\ "name" \in acked'[r] => profile'[r].name = "own"
                       /\ "bio" \in acked'[r] => profile'[r].bio = "own"
  BY <1>1 DEF ProfileOK
<1> QED BY <1>2, <1>3, <1>4 DEF ProfileOK, ChangesOK

LEMMA HandleStep ==
  ASSUME AuthOK, ProfileOK, NEW e \in bus, HandleUserCreated(e)
  PROVE  AuthOK' /\ ProfileOK'
<1>1. e \in CreatedEv
  BY DEF AuthOK
<1>2. AuthOK'
  <2>1. bus' \subseteq bus /\ login' = login /\ users' = users /\ token' = token
    BY DEF HandleUserCreated
  <2> QED BY <2>1 DEF AuthOK
<1>3. change' = change /\ acked' = acked
  BY DEF HandleUserCreated
<1>4. ASSUME profile' = profile PROVE ProfileOK'
  <2>1. ChangesOK'
    BY <1>3 DEF ProfileOK, ChangesOK
  <2> QED BY <1>3, <1>4, <2>1, ProfileFrame
<1>5. ASSUME profile' # profile PROVE ProfileOK'
  <2> DEFINE row == [email |-> e.email, name |-> e.name, bio |-> ""]
  <2>1. profile' = [profile EXCEPT ![e.id] = row] /\ profile[e.id] = NoRow /\ EmailFree(e.id, e.email)
    BY <1>5 DEF HandleUserCreated
  <2>2. e.id \in Login /\ row \in ProfileRec /\ row.email = e.email
    BY <1>1 DEF CreatedEv, ProfileRec, Value
  <2>3. profile[e.id].name # "own" /\ profile[e.id].bio # "own"
    <3>1. NoRow.name = "" /\ NoRow.bio = ""
      BY DEF NoRow
    <3> QED BY <2>1, <3>1
  <2>4. "name" \notin acked[e.id] /\ "bio" \notin acked[e.id]
    BY <2>2, <2>3 DEF ProfileOK
  <2>5. /\ acked' \in [Login -> SUBSET Field] /\ \A q \in Login \ {e.id} : acked'[q] = acked[q]
        /\ "name" \notin acked'[e.id] /\ "bio" \notin acked'[e.id]
    BY <1>3, <2>4 DEF ProfileOK
  <2>6. ChangesOK'
    BY <1>3 DEF ProfileOK, ChangesOK
  <2>7. EmailFree(e.id, row.email)
    BY <2>1, <2>2
  <2> HIDE DEF row
  <2> QED BY <2>1, <2>2, <2>5, <2>6, <2>7, ProfileStep
<1> QED BY <1>2, <1>4, <1>5

\* Setting the two fields of a profile.
LEMMA SetBoth ==
  ASSUME NEW x \in ProfileRec, NEW n \in Value, NEW b \in Value
  PROVE  /\ [x EXCEPT !.name = n, !.bio = b] = [email |-> x.email, name |-> n, bio |-> b]
         /\ [email |-> x.email, name |-> n, bio |-> b] \in ProfileRec
<1> DEFINE y == [x EXCEPT !.name = n]
<1>1. \A z \in ProfileRec : [z EXCEPT !.name = n] = [email |-> z.email, name |-> n, bio |-> z.bio]
  BY DEF ProfileRec
<1>2. y = [email |-> x.email, name |-> n, bio |-> x.bio] /\ y \in ProfileRec
  BY <1>1 DEF ProfileRec
<1>3. \A z \in ProfileRec : [z EXCEPT !.bio = b] = [email |-> z.email, name |-> z.name, bio |-> b]
  BY DEF ProfileRec
<1>4. [y EXCEPT !.bio = b] = [email |-> x.email, name |-> n, bio |-> b]
  <2>1. y.email = x.email /\ y.name = n
    BY <1>2
  <2> HIDE DEF y
  <2> QED BY <1>2, <1>3, <2>1
<1>5. [x EXCEPT !.name = n, !.bio = b] = [y EXCEPT !.bio = b]
  BY Zenon
<1>6. [email |-> x.email, name |-> n, bio |-> b] \in ProfileRec
  BY DEF ProfileRec
<1> QED BY <1>4, <1>5, <1>6, Zenon

LEMMA ChangeStep ==
  ASSUME AuthOK, ProfileOK, NEW c \in Change, EndChange(c) \/ \E r \in Login : BeginChange(c, r)
  PROVE  AuthOK' /\ ProfileOK'
<1>1. AuthOK'
  <2>1. bus' = bus /\ login' = login /\ users' = users /\ token' = token
    BY DEF EndChange, BeginChange
  <2> QED BY <2>1 DEF AuthOK
<1>2. ASSUME NEW r \in Login, BeginChange(c, r) PROVE ProfileOK'
  <2>1. PICK sets \in SUBSET Field, x \in BOOLEAN :
          change' = [change EXCEPT ![c] = [pc |-> "write", id |-> token[r], sets |-> sets, exists |-> x]]
    BY <1>2 DEF BeginChange
  <2>2. token[r] \in Login
    BY <1>2 DEF BeginChange, AuthOK
  <2>3. [pc |-> "write", id |-> token[r], sets |-> sets, exists |-> x] \in ChangeRec
    BY <2>2 DEF ChangeRec
  <2>4. ChangesOK'
    BY <2>1, <2>2, <2>3 DEF ProfileOK, ChangesOK
  <2>5. profile' = profile /\ acked' = acked
    BY <1>2 DEF BeginChange
  <2> QED BY <2>4, <2>5, ProfileFrame
<1>3. ASSUME EndChange(c) PROVE ProfileOK'
  <2> DEFINE id == change[c].id
             sets == change[c].sets
             done == [pc |-> "done", id |-> id, sets |-> sets, exists |-> change[c].exists]
  <2>1. change[c] \in ChangeRec /\ change[c].pc = "write" /\ id \in Login /\ sets \subseteq Field
    BY <1>3 DEF EndChange, ProfileOK, ChangeRec
  <2>2. change' = [change EXCEPT ![c] = done] /\ done \in ChangeRec
    <3>1. \A x \in ChangeRec : [x EXCEPT !.pc = "done"]
                = [pc |-> "done", id |-> x.id, sets |-> x.sets, exists |-> x.exists]
      BY DEF ChangeRec
    <3>2. change' = [change EXCEPT ![c] = [change[c] EXCEPT !.pc = "done"]]
      BY <1>3 DEF EndChange
    <3> QED BY <2>1, <3>1, <3>2 DEF ChangeRec
  <2>3. ChangesOK'
    BY <2>2 DEF ProfileOK, ChangesOK
  <2>4. CASE profile' = profile /\ acked' = acked
    BY <2>3, <2>4, ProfileFrame
  <2>5. CASE ~(profile' = profile /\ acked' = acked)
    <3> DEFINE old == IF change[c].exists THEN profile[id] ELSE [NoRow EXCEPT !.email = EmailOf(id)]
               row == [email |-> old.email,
                       name |-> IF "name" \in sets THEN "own" ELSE old.name,
                       bio |-> IF "bio" \in sets THEN "own" ELSE old.bio]
    <3>1. /\ change[c].exists \/ (profile[id] = NoRow /\ EmailFree(id, EmailOf(id)))
          /\ profile' = [profile EXCEPT ![id] =
                           [old EXCEPT !.name = IF "name" \in sets THEN "own" ELSE @,
                                       !.bio = IF "bio" \in sets THEN "own" ELSE @]]
          /\ acked' = [acked EXCEPT ![id] = @ \cup sets]
      BY <1>3, <2>5 DEF EndChange
    <3>2. EmailOf(id) \in AnyEmail \cup {NoId}
      BY <2>1, LoginGoes DEF EmailOf
    <3>3. [NoRow EXCEPT !.email = EmailOf(id)] = [email |-> EmailOf(id), name |-> "", bio |-> ""]
      <4>1. \A x \in ProfileRec, e \in AnyEmail \cup {NoId} :
              [x EXCEPT !.email = e] = [email |-> e, name |-> x.name, bio |-> x.bio]
        BY DEF ProfileRec
      <4>2. NoRow \in ProfileRec /\ NoRow.name = "" /\ NoRow.bio = ""
        BY DEF NoRow, ProfileRec, Value
      <4> HIDE DEF id
      <4> QED BY <3>2, <4>1, <4>2
    <3>4. old \in ProfileRec
      BY <2>1, <3>2, <3>3 DEF ProfileOK, ProfileRec, Value
    <3>5. [old EXCEPT !.name = IF "name" \in sets THEN "own" ELSE @,
                      !.bio = IF "bio" \in sets THEN "own" ELSE @] = row /\ row \in ProfileRec
      <4> DEFINE n == IF "name" \in sets THEN "own" ELSE old.name
                 b == IF "bio" \in sets THEN "own" ELSE old.bio
      <4>1. n \in Value /\ b \in Value
        <5> HIDE DEF old, sets
        <5> QED BY <3>4 DEF ProfileRec, Value
      <4>2. [old EXCEPT !.name = n, !.bio = b] = [email |-> old.email, name |-> n, bio |-> b]
            /\ [email |-> old.email, name |-> n, bio |-> b] \in ProfileRec
        <5> HIDE DEF old, n, b
        <5> QED BY <3>4, <4>1, SetBoth
      <4> QED BY <4>2, Zenon
    <3>6. row.email = profile[id].email \/ EmailFree(id, row.email)
      BY <3>1, <3>3
    <3>7. acked' \in [Login -> SUBSET Field] /\ \A q \in Login \ {id} : acked'[q] = acked[q]
      BY <2>1, <3>1 DEF ProfileOK
    <3>8. acked'[id] = acked[id] \cup sets
      BY <2>1, <3>1 DEF ProfileOK
    <3>9. "name" \in acked[id] => old.name = "own"
      BY <2>1, <3>1 DEF ProfileOK, NoRow
    <3>10. "bio" \in acked[id] => old.bio = "own"
      BY <2>1, <3>1 DEF ProfileOK, NoRow
    <3>11. ("name" \in acked'[id] => row.name = "own") /\ ("bio" \in acked'[id] => row.bio = "own")
      <4> HIDE DEF old, id, sets
      <4> QED BY <3>8, <3>9, <3>10
    <3> HIDE DEF row, old, id, sets
    <3> QED BY <2>1, <2>3, <3>1, <3>5, <3>6, <3>7, <3>11, ProfileStep
  <2> QED BY <2>4, <2>5
<1> QED BY <1>1, <1>2, <1>3

\* What a user was told is saved stays, whatever user.created events come late or
\* again and whatever else is updated at the same time.
THEOREM AcknowledgedUpdateKeptHolds == AccountsSpec => [](AccountsTypeOK /\ AcknowledgedUpdateKept)
<1>1. AuthOK /\ ProfileOK /\ [AccountsNext]_accountVars => (AuthOK /\ ProfileOK)'
  <2> SUFFICES ASSUME AuthOK, ProfileOK, [AccountsNext]_accountVars PROVE AuthOK' /\ ProfileOK'
    OBVIOUS
  <2>1. ASSUME NEW r \in Login,
               \/ \E e \in Email : GoogleAuth(r, e) \/ PasswordAuth(r, e)
               \/ CreateUser(r) \/ PublishUser(r) \/ GuestLogin(r)
        PROVE  AuthOK' /\ ProfileOK'
    BY <2>1, AuthStep DEF ProfileOK
  <2>2. ASSUME NEW e \in bus, HandleUserCreated(e) PROVE AuthOK' /\ ProfileOK'
    BY <2>2, HandleStep
  <2>3. ASSUME NEW c \in Change, EndChange(c) \/ \E r \in Login : BeginChange(c, r)
        PROVE  AuthOK' /\ ProfileOK'
    BY <2>3, ChangeStep
  <2>4. CASE UNCHANGED accountVars
    BY <2>4 DEF accountVars, AuthOK, ProfileOK
  <2> QED BY <2>1, <2>2, <2>3, <2>4 DEF AccountsNext
<1>2. ProfileOK => AcknowledgedUpdateKept
  <2> SUFFICES ASSUME ProfileOK, NEW r \in Login, NEW f \in acked[r] PROVE profile[r][f] = "own"
    BY DEF AcknowledgedUpdateKept
  <2>1. f \in {"name", "bio"}
    BY DEF ProfileOK, Field
  <2>2. CASE f = "name"
    <3>1. profile[r].name = "own"
      BY <2>2 DEF ProfileOK
    <3> QED BY <2>2, <3>1, Zenon
  <2>3. CASE f = "bio"
    <3>1. profile[r].bio = "own"
      BY <2>3 DEF ProfileOK
    <3> QED BY <2>3, <3>1, Zenon
  <2> QED BY <2>1, <2>2, <2>3
<1> QED BY <1>1, <1>2, AccountsStart, AccountsTypes, PTL DEF AccountsSpec


-----------------------------------------------------------------------------
(* The bots of the Go client *)

WorkRec == [todo: Seq(Sub), hand: Sub \cup {NoSub},
            next: {"none", "find", "subscribe", "stop", "wsStop", "clear"}]

\* While main sets up its connection and its game it subscribes; afterwards it
\* does so no more.
Dialling  == {"login", "dial", "listen", "welcome"}
Finding   == {"find", "liveGame", "match", "listenReply", "ask", "reply"}
Joining   == {"subscribe", "run"}
EndsFor(n) == pc["main"] = "unsub" /\ work["main"].next = n
SettingUp == \/ pc["main"] \in Dialling \cup Finding \cup Joining
             \/ EndsFor("find") \/ EndsFor("subscribe")

\* Where each goroutine may be; only the three that stop something end subscriptions.
BotPlaces ==
  /\ DOMAIN pc = Threads
  /\ pc["reader"] \in {"none", "read", "publish", "select", "wsStop", "handing", "exit", "panic"}
  /\ pc["writer"] \in {"none", "select", "wsStop", "handing", "exit"}
  /\ pc["viewer"] \in {"none", "run"}
  /\ pc["onChat"] \in {"none", "take", "exit"}
  /\ pc["onMove"] \in {"none", "take", "send", "exit"}
  /\ conn = "none" => pc["reader"] = "none" /\ pc["writer"] = "none"
  /\ SettingUp => pc["onEnd"] = "none" /\ pc["stopper"] = "none"

\* A subscription that is in hand is off the list until it is closed.
BotHands ==
  /\ work \in [Stoppers -> WorkRec] /\ subs \subseteq Sub /\ shut \subseteq Sub
  /\ subs \cap shut = {}
  /\ \A t \in Stoppers : /\ pc[t] = "unsub" \/ work[t] = NoWork
                         /\ pc[t] = "unsub" /\ work[t].hand = NoSub => work[t].todo # <<>>
                         /\ work[t].hand \notin subs
  /\ pc["reader"] = "publish" => reading.todo \subseteq subs

\* What is closed and what is being ended as long as main may subscribe.
BotStages ==
  /\ pc["main"] \in Dialling => shut = {}
  /\ pc["main"] \in Finding \/ EndsFor("find") => shut \subseteq {"welcome"}
  /\ pc["main"] \in Joining \/ EndsFor("subscribe") => shut \subseteq {"welcome", "reply"}
  /\ EndsFor("find") => /\ work["main"].todo \in Seq({"welcome"})
                        /\ work["main"].hand \in {"welcome", NoSub}
  /\ EndsFor("subscribe") => /\ work["main"].todo \in Seq({"reply"})
                             /\ work["main"].hand \in {"reply", NoSub}

BotSafe == BotPlaces /\ BotHands /\ BotStages

LEMMA NoWorkType == NoWork \in WorkRec /\ NoWork.hand = NoSub /\ NoSub \notin Sub
<1>1. <<>> \in Seq(Sub)
  OBVIOUS
<1> QED BY <1>1, BotAssumption DEF NoWork, WorkRec

LEMMA BotStart == BotInit => BotSafe
<1> SUFFICES ASSUME BotInit PROVE BotSafe
  OBVIOUS
<1>1. /\ DOMAIN pc = Threads /\ pc["main"] = "login"
      /\ \A t \in Threads \ {"main"} : pc[t] = "none"
  <2>1. "main" \in Threads /\ pc = [t \in Threads |-> IF t = "main" THEN "login" ELSE "none"]
    BY DEF BotInit, Threads, Stoppers
  <2> QED BY <2>1
<1>2. /\ work = [t \in Stoppers |-> NoWork] /\ shut = {} /\ conn = "none"
      /\ subs \subseteq Sub
  BY DEF BotInit, BotSubs, Sub
<1>3. BotPlaces
  BY <1>1, <1>2 DEF BotPlaces, Threads, Stoppers
<1>4. BotHands
  <2>1. \A t \in Stoppers : work[t] = NoWork
    BY <1>2
  <2> QED BY <1>1, <1>2, <2>1, NoWorkType DEF BotHands, Threads, Stoppers
<1>5. BotStages
  BY <1>1, <1>2 DEF BotStages, Dialling, Finding, Joining, EndsFor
<1> QED BY <1>3, <1>4, <1>5 DEF BotSafe

\* Goroutines that end no subscriptions go on to other places.
LEMMA AllGoOn ==
  ASSUME BotSafe, DOMAIN pc' = Threads, UNCHANGED <<work, subs, shut, reading>>,
         pc'["reader"] = pc["reader"]
           \/ pc'["reader"] \in {"read", "select", "wsStop", "handing", "exit", "panic"},
         pc'["writer"] = pc["writer"] \/ pc'["writer"] \in {"select", "wsStop", "handing", "exit"},
         pc'["viewer"] = pc["viewer"] \/ pc'["viewer"] = "run",
         pc'["onChat"] = pc["onChat"] \/ pc'["onChat"] \in {"none", "take", "exit"},
         pc'["onMove"] = pc["onMove"] \/ pc'["onMove"] \in {"take", "send", "exit"},
         conn' = "none" => /\ conn = "none" /\ pc'["reader"] = pc["reader"]
                           /\ pc'["writer"] = pc["writer"],
         \A t \in Stoppers : pc'[t] = pc[t] \/ (pc[t] # "unsub" /\ pc'[t] # "unsub"),
         \/ pc'["main"] = pc["main"]
         \/ /\ pc'["main"] \in Dialling => pc["main"] \in Dialling
            /\ pc'["main"] \in Finding => pc["main"] \in Dialling \cup Finding
            /\ pc'["main"] \in Joining => pc["main"] \in Dialling \cup Finding \cup Joining,
         SettingUp' => pc'["onEnd"] = "none" /\ pc'["stopper"] = "none"
  PROVE  BotSafe'
<1>1. BotPlaces'
  BY DEF BotPlaces, BotSafe
<1>2. BotHands'
  <2>1. \A q \in Stoppers : /\ pc'[q] = "unsub" \/ work[q] = NoWork
                            /\ pc'[q] = "unsub" /\ work[q].hand = NoSub => work[q].todo # <<>>
                            /\ work[q].hand \notin subs
    BY DEF BotHands, BotSafe
  <2>2. pc'["reader"] = "publish" => pc["reader"] = "publish"
    OBVIOUS
  <2> QED BY <2>1, <2>2 DEF BotHands, BotSafe
<1>3. BotStages'
  <2>1. "main" \in Stoppers
    BY DEF Stoppers
  <2> QED BY <2>1 DEF BotStages, BotSafe, EndsFor, Dialling, Finding, Joining
<1> QED BY <1>1, <1>2, <1>3 DEF BotSafe

\* One of them does.
LEMMA GoesOn ==
  ASSUME BotSafe, NEW t \in Threads, NEW p, Goes(t, p),
         UNCHANGED <<work, subs, shut, reading, conn>>,
         pc[t] # "unsub", p # "unsub",
         t = "reader" => /\ p \in {"read", "select", "wsStop", "handing", "exit", "panic"}
                         /\ pc[t] # "none",
         t = "writer" => p \in {"select", "wsStop", "handing", "exit"} /\ pc[t] # "none",
         t = "viewer" => p = "run",
         t = "onChat" => p \in {"take", "exit"},
         t = "onMove" => p \in {"take", "send", "exit"},
         t \in {"onEnd", "stopper"} => pc[t] # "none",
         t = "main" => /\ p \in Dialling => pc[t] \in Dialling
                       /\ p \in Finding => pc[t] \in Dialling \cup Finding
                       /\ p \in Joining => pc[t] \in Dialling \cup Finding \cup Joining
  PROVE  BotSafe'
<1>1. pc' = [pc EXCEPT ![t] = p] /\ DOMAIN pc = Threads
  BY DEF Goes, BotSafe, BotPlaces
<1>2. \A q \in Threads : pc'[q] = IF q = t THEN p ELSE pc[q]
  BY <1>1
<1>3. DOMAIN pc' = Threads
  BY <1>1
<1>4. {"reader", "writer", "viewer", "onChat", "onMove", "onEnd", "stopper", "main"} = Threads
      /\ Stoppers \subseteq Threads /\ "main" \in Stoppers
  BY DEF Threads, Stoppers
<1>5. SettingUp' => SettingUp
  BY <1>2, <1>4 DEF SettingUp, EndsFor, Dialling, Finding, Joining
<1>6. SettingUp' => pc'["onEnd"] = "none" /\ pc'["stopper"] = "none"
  BY <1>2, <1>4, <1>5 DEF BotPlaces, BotSafe
<1>7. conn' = "none" => /\ conn = "none" /\ pc'["reader"] = pc["reader"]
                        /\ pc'["writer"] = pc["writer"]
  BY <1>2, <1>4 DEF BotPlaces, BotSafe
<1>8. \A q \in Stoppers : pc'[q] = pc[q] \/ (pc[q] # "unsub" /\ pc'[q] # "unsub")
  BY <1>2, <1>4
<1> QED BY <1>2, <1>3, <1>4, <1>6, <1>7, <1>8, AllGoOn

\* Nobody moves, or it is only told what does not matter here.
LEMMA StaysPut ==
  ASSUME BotSafe, UNCHANGED <<pc, work, subs, shut, reading>>, conn' = conn \/ conn' # "none"
  PROVE  BotSafe'
<1>1. BotPlaces'
  BY DEF BotSafe, BotPlaces, SettingUp, EndsFor
<1>2. BotHands'
  BY DEF BotSafe, BotHands
<1>3. BotStages'
  BY DEF BotSafe, BotStages, EndsFor
<1> QED BY <1>1, <1>2, <1>3 DEF BotSafe

LEMMA Names == /\ Threads = {"reader", "writer", "viewer", "onChat", "onMove", "onEnd", "stopper", "main"}
               /\ Stoppers = {"main", "stopper", "onEnd"} /\ Stoppers \subseteq Threads
BY DEF Threads, Stoppers

\* The steps of main that leave the subscriptions alone.
LEMMA MainGoesOn ==
  ASSUME BotSafe,
         \/ LogIn \/ StartViewer \/ GetUserLiveGame \/ FindMatch \/ Ask \/ FirstMove
         \/ SendMove("main", "serve", "gameStop") \/ Over \/ RandomStop
  PROVE  BotSafe'
<1> USE Names
<1>1. ASSUME NEW from \in Dialling \cup Finding, NEW to \in Dialling \cup Finding,
             from \in Finding => to \in Finding, Request(from, to)
      PROVE  BotSafe'
  <2>1. PICK p \in {to, "stop"} : Goes("main", p) /\ pc["main"] = from
    BY <1>1 DEF Request
  <2>2. UNCHANGED <<work, subs, shut, reading, conn>>
    BY <1>1 DEF Request, ps, net
  <2>3. p # "unsub" /\ from # "unsub" /\ p \notin Joining
    BY <2>1 DEF Dialling, Finding, Joining
  <2>4. (p \in Dialling => from \in Dialling) /\ (p \in Finding => from \in Dialling \cup Finding)
    BY <1>1, <2>1 DEF Dialling, Finding
  <2> QED BY <2>1, <2>2, <2>3, <2>4, GoesOn
<1>2. CASE LogIn
  BY <1>1, <1>2 DEF LogIn, Dialling, Finding
<1>3. CASE GetUserLiveGame
  BY <1>1, <1>3 DEF GetUserLiveGame, Dialling, Finding
<1>4. CASE FindMatch
  BY <1>1, <1>4 DEF FindMatch, Dialling, Finding
<1>5. CASE StartViewer
  <2>1. /\ pc["main"] = "find" /\ UNCHANGED <<work, subs, shut, reading, conn>>
        /\ pc' = [pc EXCEPT !["main"] = "liveGame", !["viewer"] = "run"]
    BY <1>5 DEF StartViewer, ps, net
  <2>2. DOMAIN pc = Threads
    BY DEF BotSafe, BotPlaces
  <2>3. /\ DOMAIN pc' = Threads /\ pc'["main"] = "liveGame" /\ pc'["viewer"] = "run"
        /\ \A t \in Threads \ {"main", "viewer"} : pc'[t] = pc[t]
    BY <2>1, <2>2
  <2>4. "liveGame" \in Finding /\ "liveGame" \notin Dialling \cup Joining /\ "find" \in Finding
    BY DEF Dialling, Finding, Joining
  <2>5. pc["onEnd"] = "none" /\ pc["stopper"] = "none"
    BY <2>1, <2>4 DEF BotSafe, BotPlaces, SettingUp
  <2> QED BY <2>1, <2>3, <2>4, <2>5, AllGoOn
<1>6. CASE Ask
  <2>1. PICK p \in {"reply", "stop"} : Goes("main", p) /\ pc["main"] = "ask"
    BY <1>6 DEF Ask
  <2>2. UNCHANGED <<work, subs, shut, reading, conn>>
    BY <1>6 DEF Ask, ps
  <2>3. pc["main"] \in Finding /\ p \notin Dialling \cup Joining
    BY <2>1 DEF Dialling, Finding, Joining
  <2> QED BY <2>1, <2>2, <2>3, GoesOn
<1>7. CASE FirstMove \/ SendMove("main", "serve", "gameStop") \/ Over
  <2>1. PICK p \in {"send", "serve", "gameStop", "stop"} :
          Goes("main", p) /\ pc["main"] \in {"first", "send", "wait"}
    BY <1>7 DEF FirstMove, SendMove, Over
  <2>2. UNCHANGED <<work, subs, shut, reading, conn>>
    BY <1>7 DEF FirstMove, SendMove, Over, ps, net
  <2>3. p \notin Dialling \cup Finding \cup Joining
    BY <2>1 DEF Dialling, Finding, Joining
  <2> QED BY <2>1, <2>2, <2>3, GoesOn
<1>8. CASE RandomStop
  BY <1>8, GoesOn DEF RandomStop, ps, net
<1> QED BY <1>2, <1>3, <1>4, <1>5, <1>6, <1>7, <1>8

\* The steps at which other goroutines begin.
LEMMA OthersBegin ==
  ASSUME BotSafe, Dial \/ Run \/ Serve
  PROVE  BotSafe'
<1> USE Names
<1>0. DOMAIN pc = Threads
  BY DEF BotSafe, BotPlaces
<1>1. CASE Dial
  <2>1. pc["main"] = "dial" /\ UNCHANGED <<work, subs, shut, reading>>
    BY <1>1 DEF Dial, ps
  <2>2. CASE /\ pc' = [pc EXCEPT !["main"] = "listen", !["reader"] = "read", !["writer"] = "select"]
             /\ conn' = "up"
    <3>1. /\ DOMAIN pc' = Threads /\ pc'["main"] = "listen" /\ pc'["reader"] = "read"
          /\ pc'["writer"] = "select"
          /\ \A t \in Threads \ {"main", "reader", "writer"} : pc'[t] = pc[t]
      BY <1>0, <2>2
    <3>2. pc["main"] \in Dialling /\ pc'["main"] \notin Finding \cup Joining
      BY <2>1, <3>1 DEF Dialling, Finding, Joining
    <3>3. pc["onEnd"] = "none" /\ pc["stopper"] = "none"
      BY <3>2 DEF BotSafe, BotPlaces, SettingUp
    <3> QED BY <2>1, <2>2, <3>1, <3>2, <3>3, AllGoOn
  <2>3. CASE Goes("main", "stop") /\ conn' = conn
    <3>1. "stop" \notin Dialling \cup Finding \cup Joining
      BY DEF Dialling, Finding, Joining
    <3> QED BY <2>1, <2>3, <3>1, GoesOn
  <2> QED BY <1>1, <2>2, <2>3 DEF Dial
<1>2. CASE Run
  <2>1. pc["main"] = "run" /\ UNCHANGED <<work, subs, shut, reading, conn>>
    BY <1>2 DEF Run, ps, net
  <2>2. ASSUME NEW p \in {"first", "serve"}, NEW q \in {"none", "take"},
               pc' = [pc EXCEPT !["main"] = p, !["stopper"] = "sleep", !["onChat"] = q]
        PROVE  BotSafe'
    <3>1. /\ DOMAIN pc' = Threads /\ pc'["main"] = p /\ pc'["stopper"] = "sleep"
          /\ pc'["onChat"] = q
          /\ \A t \in Threads \ {"main", "stopper", "onChat"} : pc'[t] = pc[t]
      BY <1>0, <2>2
    <3>2. pc'["main"] \notin Dialling \cup Finding \cup Joining /\ pc'["main"] # "unsub"
          /\ pc["main"] \in Joining
      BY <2>1, <3>1 DEF Dialling, Finding, Joining
    <3>3. pc["stopper"] = "none" /\ ~SettingUp'
      BY <3>2 DEF BotSafe, BotPlaces, SettingUp, EndsFor
    <3>4. conn' = "none" => conn = "none"
      BY <2>1
    <3> QED BY <2>1, <3>1, <3>2, <3>3, <3>4, AllGoOn
  <2>3. CASE Goes("main", "stop")
    <3>1. "stop" \notin Dialling \cup Finding \cup Joining
      BY DEF Dialling, Finding, Joining
    <3> QED BY <2>1, <2>3, <3>1, GoesOn
  <2>4. \/ \E p \in {"first", "serve"}, q \in {"none", "take"} :
             pc' = [pc EXCEPT !["main"] = p, !["stopper"] = "sleep", !["onChat"] = q]
        \/ Goes("main", "stop")
    BY <1>2 DEF Run
  <2> QED BY <2>2, <2>3, <2>4
<1>3. CASE Serve
  <2>1. pc["main"] = "serve" /\ UNCHANGED <<work, subs, shut, reading, conn>>
    BY <1>3 DEF Serve, ps, net
  <2>2. pc' = [t \in Threads |-> IF t \in {"onMove", "onEnd", "onChat"} /\ pc[t] = "none" THEN "take"
                                 ELSE IF t = "main" THEN "wait" ELSE pc[t]]
    BY <1>3 DEF Serve
  <2>4. DOMAIN pc' = Threads
    BY <2>2
  <2>5. /\ pc'["main"] = "wait" /\ pc'["reader"] = pc["reader"] /\ pc'["writer"] = pc["writer"]
        /\ pc'["viewer"] = pc["viewer"] /\ pc'["stopper"] = pc["stopper"]
        /\ \A t \in {"onMove", "onEnd", "onChat"} : pc'[t] = IF pc[t] = "none" THEN "take" ELSE pc[t]
    BY <2>2
  <2>6. pc'["main"] \notin Dialling \cup Finding \cup Joining /\ ~SettingUp'
    BY <2>5 DEF SettingUp, EndsFor, Dialling, Finding, Joining
  <2>7. conn' = "none" => conn = "none"
    BY <2>1
  <2>8. \A t \in Stoppers : pc'[t] = pc[t] \/ (pc[t] # "unsub" /\ pc'[t] # "unsub")
    BY <2>1, <2>5
  <2> QED BY <2>1, <2>4, <2>5, <2>6, <2>7, <2>8, AllGoOn
<1> QED BY <1>1, <1>2, <1>3

\* Only main, stopper and onEnd get to the places of a stop.
LEMMA WhoStops ==
  ASSUME BotSafe, NEW t \in Threads
  PROVE  /\ pc[t] \in {"stop", "unsub", "ifGame", "again", "gameStop", "clear"} => t \in Stoppers
         /\ pc[t] = "none" \/ t \notin {"reader", "writer"} \/ conn # "none"
         /\ pc[t] \in {"wsStop", "handing"} => t \in Stoppers \cup {"reader", "writer"}
BY Names DEF BotSafe, BotPlaces

LEMMA NotSetUp == \A p \in {"stop", "exit", "handing", "ifGame", "again", "panic", "gameStop", "take", "clear", "wsStop"} :
                    p \notin Dialling \cup Finding \cup Joining
BY DEF Dialling, Finding, Joining

\* The steps of a stop that leave the subscriptions alone.
LEMMA StopGoesOn ==
  ASSUME BotSafe, NEW t \in Threads,
         \/ WsStop(t) \/ IfGame(t) \/ ReadsAgain(t) \/ ClearGame(t)
         \/ StopBot(t) /\ once.bot # "no"
         \/ StopGame(t) /\ once.game # "no"
  PROVE  BotSafe'
<1> USE Names, WhoStops, NotSetUp
<1>1. ASSUME NEW p \in {"exit", "ifGame", "again", "panic", "gameStop", "take", "stop"},
             Goes(t, p), UNCHANGED <<work, subs, shut, reading, conn>>,
             pc[t] \in {"stop", "ifGame", "again", "gameStop", "clear"},
             p = "stop" => t = "main"
      PROVE  BotSafe'
  BY <1>1, GoesOn
<1>2. CASE WsStop(t)
  <2>1. pc[t] = "wsStop" /\ UNCHANGED <<work, subs, shut, reading, conn>>
    BY <1>2 DEF WsStop, ps, net
  <2>2. PICK p \in {"exit", "ifGame", "handing"} :
          Goes(t, p) /\ (t \in {"reader", "writer"} => p \in {"exit", "handing"})
    BY <1>2 DEF WsStop, AfterWs
  <2> QED BY <2>1, <2>2, GoesOn
<1>3. CASE IfGame(t)
  BY <1>1, <1>3 DEF IfGame, ps, net
<1>4. CASE ReadsAgain(t)
  BY <1>1, <1>4 DEF ReadsAgain, ps, net
<1>5. CASE ClearGame(t)
  <2>1. pc[t] = "clear" /\ UNCHANGED <<work, subs, shut, reading, conn>>
    BY <1>5 DEF ClearGame, ps, net
  <2>2. PICK p \in {"exit", "take", "stop"} : Goes(t, p) /\ (p = "stop" => t = "main")
    BY <1>5 DEF ClearGame, AfterGame
  <2> QED BY <1>1, <2>1, <2>2
<1>6. CASE StopBot(t) /\ once.bot # "no"
  BY <1>1, <1>6 DEF StopBot, ps, net
<1>7. CASE StopGame(t) /\ once.game # "no"
  <2>1. pc[t] = "gameStop" /\ UNCHANGED <<work, subs, shut, reading, conn>>
    BY <1>7 DEF StopGame, ps, net
  <2>2. PICK p \in {"exit", "take", "stop"} : Goes(t, p) /\ (p = "stop" => t = "main")
    BY <1>7 DEF StopGame, AfterGame
  <2> QED BY <1>1, <2>1, <2>2
<1> QED BY <1>2, <1>3, <1>4, <1>5, <1>6, <1>7

\* The connection is closed: one goroutine hands over, another takes.
LEMMA CloseGoesOn ==
  ASSUME BotSafe, NEW t \in Threads, NEW r \in Threads, CloseConn(t, r)
  PROVE  BotSafe'
<1> USE Names
<1>1. /\ pc[t] = "handing" /\ r \in {"reader", "writer"} /\ r # t /\ pc[r] = "select"
      /\ pc' = [pc EXCEPT ![t] = AfterWs(t), ![r] = "exit"] /\ conn' = "closed"
      /\ UNCHANGED <<work, subs, shut, reading>>
  BY DEF CloseConn, ps
<1>2. AfterWs(t) \in {"exit", "ifGame"} /\ (t \in {"reader", "writer"} => AfterWs(t) = "exit")
  BY DEF AfterWs
<1>3. DOMAIN pc = Threads
  BY DEF BotSafe, BotPlaces
<1>4. /\ DOMAIN pc' = Threads /\ pc'[t] = AfterWs(t) /\ pc'[r] = "exit"
      /\ \A q \in Threads \ {t, r} : pc'[q] = pc[q]
  BY <1>1, <1>3
<1>5. t \in Stoppers \cup {"reader", "writer"}
  BY <1>1, WhoStops
<1>6. pc'["main"] = pc["main"] \/ pc'["main"] \notin Dialling \cup Finding \cup Joining \cup {"unsub"}
  BY <1>1, <1>2, <1>4 DEF Dialling, Finding, Joining
<1>7. SettingUp' => SettingUp
  BY <1>1, <1>6 DEF SettingUp, EndsFor
<1>8. SettingUp' => pc'["onEnd"] = "none" /\ pc'["stopper"] = "none"
  BY <1>1, <1>4, <1>7 DEF BotSafe, BotPlaces
<1> QED BY <1>1, <1>2, <1>4, <1>5, <1>6, <1>8, AllGoOn

\* The goroutines that follow messages, the gateway and the writer.
LEMMA FollowingGoesOn ==
  ASSUME BotSafe,
         \/ HandleMoveApproved \/ SendMove("onMove", "take", "take") \/ HandleGameEnd
         \/ LoopEnds("onMove", "move") \/ LoopEnds("onEnd", "end") \/ LoopEnds("onChat", "chat")
         \/ PingFails
  PROVE  BotSafe'
<1> USE Names
<1>1. UNCHANGED <<work, subs, shut, reading, conn>>
  BY DEF HandleMoveApproved, SendMove, HandleGameEnd, LoopEnds, PingFails, ps, net
<1>2. \/ UNCHANGED pc
      \/ \E p \in {"take", "send", "exit"} : Goes("onMove", p) /\ pc["onMove"] # "unsub"
      \/ \E p \in {"gameStop", "exit"} : Goes("onEnd", p) /\ pc["onEnd"] = "take"
      \/ Goes("onChat", "exit") /\ pc["onChat"] # "unsub"
      \/ Goes("writer", "wsStop") /\ pc["writer"] = "select"
  BY DEF HandleMoveApproved, SendMove, HandleGameEnd, LoopEnds, PingFails
<1> QED BY <1>1, <1>2, GoesOn, StaysPut

LEMMA NobodyGoesOn ==
  ASSUME BotSafe,
         \/ HandleChat \/ HandleView \/ HandleBotEnd \/ RandomView \/ ChatGenerator \/ Resigner
         \/ Answer \/ Opponent \/ Extra \/ LoseConn \/ WriteMessage
  PROVE  BotSafe'
<1> USE Names
<1>1. CASE WriteMessage
  <2>1. UNCHANGED <<work, subs, shut, reading, conn>>
    BY <1>1 DEF WriteMessage, ps
  <2>2. UNCHANGED pc \/ (Goes("writer", "wsStop") /\ pc["writer"] = "select")
    BY <1>1 DEF WriteMessage
  <2> QED BY <2>1, <2>2, GoesOn, StaysPut
<1>2. CASE LoseConn
  BY <1>2, StaysPut DEF LoseConn, ps
<1>3. CASE Answer \/ Opponent \/ Extra
  BY <1>3, StaysPut DEF Answer, Opponent, Extra, ps
<1>4. CASE HandleChat \/ HandleView \/ HandleBotEnd \/ RandomView \/ ChatGenerator \/ Resigner
  BY <1>4, StaysPut DEF HandleChat, HandleView, HandleBotEnd, RandomView, ChatGenerator, Resigner, ps, net
<1> QED BY <1>1, <1>2, <1>3, <1>4

\* The reader takes a message to those who are listed now, and one after the
\* other gets it.
LEMMA ReaderGoesOn ==
  ASSUME BotSafe, ReadMessage \/ PublishNext
  PROVE  BotSafe'
<1> USE Names
<1>0. DOMAIN pc = Threads
  BY DEF BotSafe, BotPlaces
<1>1. UNCHANGED <<work, subs, shut, conn>>
  BY DEF ReadMessage, PublishNext, ps, net
<1>2. ASSUME DOMAIN pc' = Threads, \A q \in Threads \ {"reader"} : pc'[q] = pc[q],
             pc'["reader"] \in {"read", "publish", "select", "wsStop", "panic"},
             pc["reader"] \in {"read", "publish"},
             pc'["reader"] = "publish" => reading'.todo \subseteq subs
      PROVE  BotSafe'
  <2>1. /\ DOMAIN pc' = Threads
        /\ \A q \in Threads \ {"reader"} : pc'[q] = pc[q]
    BY <1>2
  <2>2. SettingUp' => SettingUp
    BY <1>1, <2>1 DEF SettingUp, EndsFor
  <2>3. BotPlaces'
    BY <1>1, <1>2, <2>1, <2>2 DEF BotSafe, BotPlaces
  <2>4. BotHands'
    <3>1. \A q \in Stoppers : /\ pc'[q] = "unsub" \/ work'[q] = NoWork
                              /\ pc'[q] = "unsub" /\ work'[q].hand = NoSub => work'[q].todo # <<>>
                              /\ work'[q].hand \notin subs'
      BY <1>1, <2>1 DEF BotHands, BotSafe
    <3>2. pc'["reader"] = "publish" => reading'.todo \subseteq subs'
      BY <1>1, <1>2, <2>1
    <3> QED BY <1>1, <3>1, <3>2 DEF BotHands, BotSafe
  <2>5. BotStages'
    BY <1>1, <2>1 DEF BotSafe, BotStages, EndsFor
  <2> QED BY <2>3, <2>4, <2>5 DEF BotSafe
<1>3. CASE ReadMessage
  <2>1. pc["reader"] = "read"
    BY <1>3 DEF ReadMessage
  <2>2. CASE Goes("reader", "publish") /\ reading' = [msg |-> Head(wire), todo |-> {s \in subs : TopicOf[s] = Head(wire).topic}]
    <3>1. reading'.todo \subseteq subs
      BY <2>2
    <3> QED BY <1>0, <1>2, <2>1, <2>2, <3>1 DEF Goes
  <2>3. CASE Goes("reader", "wsStop")
    BY <1>0, <1>2, <2>1, <2>3 DEF Goes
  <2> QED BY <1>3, <2>2, <2>3 DEF ReadMessage
<1>4. CASE PublishNext
  <2>1. pc["reader"] = "publish" /\ reading.todo \subseteq subs
    BY <1>4 DEF PublishNext, BotSafe, BotHands
  <2>2. ASSUME NEW todo \in SUBSET subs, Published(todo) PROVE BotSafe'
    <3>1. CASE todo = {}
      <4>1. PICK p \in {"select", "read"} : Goes("reader", p)
        BY <2>2, <3>1 DEF Published
      <4> QED BY <1>0, <1>2, <2>1, <4>1 DEF Goes
    <3>2. CASE todo # {}
      <4>1. pc' = pc /\ reading' = [reading EXCEPT !.todo = todo]
        BY <2>2, <3>2 DEF Published
      <4>2. reading'.todo = todo \/ reading'.todo = reading.todo
        BY <4>1
      <4> QED BY <1>0, <1>2, <2>1, <4>1, <4>2
    <3> QED BY <3>1, <3>2
  <2>3. CASE Goes("reader", "panic")
    BY <1>0, <1>2, <2>1, <2>3 DEF Goes
  <2>4. \/ \E s \in reading.todo : Published(reading.todo \ {s})
        \/ Goes("reader", "panic") \/ Published({})
    BY <1>4, <2>1 DEF PublishNext
  <2>5. CASE \E s \in reading.todo : Published(reading.todo \ {s})
    <3>1. PICK s \in reading.todo : Published(reading.todo \ {s})
      BY <2>5
    <3>2. PICK todo \in SUBSET subs : todo = reading.todo \ {s}
      BY <2>1
    <3>3. Published(todo)
      BY <3>1, <3>2 DEF Published
    <3> QED BY <2>2, <3>3
  <2> QED BY <2>2, <2>3, <2>4, <2>5
<1> QED BY <1>3, <1>4

\* main subscribes while it sets up: nobody ends anything then.
LEMMA SubscribesOn ==
  ASSUME BotSafe, NEW s \in Sub, NEW p, Subscribes(s), Goes("main", p),
         UNCHANGED <<work, reading, conn>>, SettingUp, s \notin shut,
         pc["main"] # "unsub", p # "unsub", p \notin Dialling \/ pc["main"] \in Dialling,
         p \in Finding => pc["main"] \in Dialling \cup Finding
  PROVE  BotSafe'
<1> USE Names
<1>1. /\ DOMAIN pc' = Threads /\ pc'["main"] = p
      /\ \A q \in Threads \ {"main"} : pc'[q] = pc[q]
  BY DEF BotSafe, BotPlaces, Goes
<1>2. pc["onEnd"] = "none" /\ pc["stopper"] = "none" /\ pc["main"] \in Dialling \cup Finding \cup Joining
  BY DEF BotSafe, BotPlaces, SettingUp, EndsFor
<1>3. subs' = subs \cup {s} /\ shut' = shut /\ pc["reader"] # "publish"
  BY DEF Subscribes, CanLock
<1>4. \A q \in Stoppers : work[q] = NoWork /\ pc[q] # "unsub"
  BY <1>2 DEF BotSafe, BotHands
<1>5. BotPlaces'
  BY <1>1, <1>2 DEF BotSafe, BotPlaces
<1>6. BotHands'
  <2>1. \A q \in Stoppers : work[q].hand \notin subs'
    BY <1>4, NoWorkType, <1>3 DEF BotSafe, BotHands
  <2> QED BY <1>1, <1>3, <1>4, <2>1 DEF BotSafe, BotHands
<1>7. BotStages'
  BY <1>1, <1>2, <1>3 DEF BotSafe, BotStages, EndsFor, Dialling, Finding, Joining
<1> QED BY <1>5, <1>6, <1>7 DEF BotSafe

LEMMA ListensOn ==
  ASSUME BotSafe,
         \/ Listen("welcome", "listen", "welcome") \/ Listen("reply", "listenReply", "ask")
         \/ AddBasicSubs
  PROVE  BotSafe'
<1> USE Names
<1>1. CASE Listen("welcome", "listen", "welcome")
  <2>1. /\ pc["main"] = "listen" /\ Subscribes("welcome") /\ Goes("main", "welcome")
        /\ UNCHANGED <<work, reading, conn>>
    BY <1>1 DEF Listen, net
  <2>2. /\ pc["main"] \in Dialling /\ "welcome" \in Dialling /\ "welcome" \notin Finding
        /\ "welcome" \in Sub
    BY <2>1 DEF Dialling, Finding, Sub
  <2>3. SettingUp /\ shut = {}
    BY <2>2 DEF SettingUp, BotSafe, BotStages
  <2> QED BY <2>1, <2>2, <2>3, SubscribesOn
<1>2. CASE Listen("reply", "listenReply", "ask")
  <2>1. /\ pc["main"] = "listenReply" /\ Subscribes("reply") /\ Goes("main", "ask")
        /\ UNCHANGED <<work, reading, conn>>
    BY <1>2 DEF Listen, net
  <2>2. /\ pc["main"] \in Finding /\ "ask" \notin Dialling /\ "reply" \in Sub
    BY <2>1 DEF Dialling, Finding, Sub
  <2>3. SettingUp /\ "reply" \notin shut
    BY <2>2 DEF SettingUp, BotSafe, BotStages
  <2> QED BY <2>1, <2>2, <2>3, SubscribesOn
<1>3. CASE AddBasicSubs
  <2>1. PICK i \in DOMAIN GameSubs : /\ Subscribes(GameSubs[i])
                                     /\ Goes("main", IF i = Len(GameSubs) THEN "run" ELSE "subscribe")
    BY <1>3 DEF AddBasicSubs
  <2>2. PICK s \in {"move", "end", "chat"} : s = GameSubs[i]
    BY DEF GameSubs
  <2>3. PICK p \in {"run", "subscribe"} : Goes("main", p)
    BY <2>1
  <2>4. pc["main"] = "subscribe" /\ UNCHANGED <<work, reading, conn>>
    BY <1>3 DEF AddBasicSubs, net
  <2>5. Subscribes(s) /\ s \in Sub
    BY <2>1, <2>2 DEF Subscribes, Sub
  <2>6. pc["main"] \in Joining /\ p \notin Dialling \cup Finding
    BY <2>3, <2>4 DEF Dialling, Finding, Joining
  <2>7. SettingUp /\ s \notin shut
    BY <2>2, <2>6 DEF SettingUp, BotSafe, BotStages
  <2> QED BY <2>3, <2>4, <2>5, <2>6, <2>7, SubscribesOn
<1> QED BY <1>1, <1>2, <1>3

\* A goroutine starts to end subscriptions.
LEMMA EndingOn ==
  ASSUME BotSafe, NEW t \in Stoppers, NEW todo \in Seq(Sub), todo # <<>>,
         NEW next \in {"none", "find", "subscribe", "stop", "wsStop", "clear"},
         Ending(t, todo, next), UNCHANGED <<subs, shut, reading, conn>>, pc[t] # "unsub",
         t # "main" => pc[t] # "none",
         t = "main" /\ next = "find" => pc[t] = "welcome" /\ todo \in Seq({"welcome"}),
         t = "main" /\ next = "subscribe" => pc[t] = "reply" /\ todo \in Seq({"reply"})
  PROVE  BotSafe'
<1> USE Names
<1> DEFINE w == [todo |-> todo, hand |-> NoSub, next |-> next]
<1>1. /\ DOMAIN pc' = Threads /\ pc'[t] = "unsub"
      /\ \A q \in Threads \ {t} : pc'[q] = pc[q]
  BY DEF BotSafe, BotPlaces, Ending, Goes
<1>2. work \in [Stoppers -> WorkRec] /\ w \in WorkRec
  BY DEF BotSafe, BotHands, WorkRec
<1>3. w.todo = todo /\ w.hand = NoSub /\ w.next = next
  OBVIOUS
<1>4. work' = [work EXCEPT ![t] = w]
  BY DEF Ending
<1> HIDE DEF w
<1>5. /\ work' \in [Stoppers -> WorkRec] /\ work'[t] = w
      /\ \A q \in Stoppers \ {t} : work'[q] = work[q]
  BY <1>2, <1>4
<1>6. SettingUp' => SettingUp
  <2>1. CASE t # "main"
    BY <1>1, <1>5, <2>1 DEF SettingUp, EndsFor
  <2>2. CASE t = "main"
    BY <1>1, <1>3, <1>5, <2>2 DEF SettingUp, EndsFor, Dialling, Finding, Joining
  <2> QED BY <2>1, <2>2
<1>7. BotPlaces'
  BY <1>1, <1>6 DEF BotSafe, BotPlaces
<1>8. BotHands'
  <2>1. \A q \in Stoppers : /\ pc'[q] = "unsub" \/ work'[q] = NoWork
                            /\ pc'[q] = "unsub" /\ work'[q].hand = NoSub => work'[q].todo # <<>>
                            /\ work'[q].hand \notin subs
    <3> TAKE q \in Stoppers
    <3>1. CASE q = t
      BY <1>1, <1>3, <1>5, <3>1, NoWorkType DEF BotSafe, BotHands
    <3>2. CASE q # t
      BY <1>1, <1>5, <3>2 DEF BotSafe, BotHands
    <3> QED BY <3>1, <3>2
  <2> QED BY <1>1, <1>5, <2>1 DEF BotSafe, BotHands
<1>9. BotStages'
  <2>1. CASE t # "main"
    BY <1>1, <1>5, <2>1 DEF BotSafe, BotStages, EndsFor
  <2>2. CASE t = "main"
    <3>1. pc'["main"] \notin Dialling \cup Finding \cup Joining
      BY <1>1, <2>2 DEF Dialling, Finding, Joining
    <3>2. (next = "find" => shut = {}) /\ (next = "subscribe" => shut \subseteq {"welcome"})
      BY <2>2 DEF BotSafe, BotStages, Dialling, Finding
    <3> QED BY <1>1, <1>3, <1>5, <2>2, <3>1, <3>2 DEF BotStages, EndsFor
  <2> QED BY <2>1, <2>2
<1> QED BY <1>7, <1>8, <1>9 DEF BotSafe

LEMMA StartsEnding ==
  ASSUME BotSafe, Welcomed \/ Replied \/ \E t \in Threads : StopBot(t) \/ StopGame(t)
  PROVE  BotSafe'
<1> USE Names
<1>1. /\ <<"welcome">> \in Seq(Sub) /\ <<"welcome">> \in Seq({"welcome"}) /\ <<"welcome">> # <<>>
      /\ <<"reply">> \in Seq(Sub) /\ <<"reply">> \in Seq({"reply"}) /\ <<"reply">> # <<>>
      /\ BotSubs \in Seq(Sub) /\ BotSubs # <<>> /\ GameSubs \in Seq(Sub) /\ GameSubs # <<>>
  BY DEF Sub, BotSubs, GameSubs
<1>2. CASE Welcomed
  <2>1. PICK next \in {"find", "stop"} : Ending("main", <<"welcome">>, next)
    BY <1>2 DEF Welcomed
  <2>2. pc["main"] = "welcome" /\ UNCHANGED <<subs, shut, reading, conn>>
    BY <1>2 DEF Welcomed, net
  <2> QED BY <1>1, <2>1, <2>2, EndingOn
<1>3. CASE Replied
  <2>1. PICK next \in {"subscribe", "stop"} : Ending("main", <<"reply">>, next)
    BY <1>3 DEF Replied
  <2>2. pc["main"] = "reply" /\ UNCHANGED <<subs, shut, reading, conn>>
    BY <1>3 DEF Replied, net
  <2> QED BY <1>1, <2>1, <2>2, EndingOn
<1>4. ASSUME NEW t \in Threads, StopBot(t) PROVE BotSafe'
  <2>1. CASE once.bot = "no"
    <3>1. pc[t] = "stop" /\ UNCHANGED <<subs, shut, reading, conn>>
      BY <1>4 DEF StopBot, ps, net
    <3>2. Ending(t, BotSubs, "wsStop")
      BY <1>4, <2>1 DEF StopBot
    <3> QED BY <1>1, <3>1, <3>2, WhoStops, EndingOn
  <2>2. CASE once.bot # "no"
    <3>1. StopBot(t) /\ once.bot # "no"
      BY <1>4, <2>2
    <3> QED BY <3>1, StopGoesOn, Zenon
  <2> QED BY <2>1, <2>2
<1>5. ASSUME NEW t \in Threads, StopGame(t) PROVE BotSafe'
  <2>1. CASE once.game = "no"
    <3>1. pc[t] = "gameStop" /\ UNCHANGED <<subs, shut, reading, conn>>
      BY <1>5 DEF StopGame, ps, net
    <3>2. Ending(t, GameSubs, "clear")
      BY <1>5, <2>1 DEF StopGame
    <3> QED BY <1>1, <3>1, <3>2, WhoStops, EndingOn
  <2>2. CASE once.game # "no"
    BY <1>5, <2>2, StopGoesOn
  <2> QED BY <2>1, <2>2
<1> QED BY <1>2, <1>3, <1>4, <1>5

\* A subscription is taken off the list, for which the reader must not be
\* publishing.
LEMMA RemovesOn ==
  ASSUME BotSafe, NEW t \in Stoppers, Unsubscribe(t), work[t].hand = NoSub
  PROVE  BotSafe'
<1> USE Names
<1>1. pc[t] = "unsub" /\ UNCHANGED <<reading, conn>>
  BY DEF Unsubscribe, net
<1>2. /\ pc["reader"] # "publish" /\ subs' = subs \ {Head(work[t].todo)} /\ pc' = pc /\ shut' = shut
      /\ work' = [work EXCEPT ![t].hand = Head(work[t].todo), ![t].todo = Tail(@)]
  BY DEF Unsubscribe, CanLock
<1>3. work \in [Stoppers -> WorkRec] /\ work[t] \in WorkRec /\ work[t].todo # <<>>
  BY <1>1 DEF BotSafe, BotHands
<1>4. PICK old \in WorkRec : old = work[t]
  BY <1>3
<1>5. PICK s \in Sub, rest \in Seq(Sub) : s = Head(old.todo) /\ rest = Tail(old.todo)
  <2>1. old.todo \in Seq(Sub) /\ old.todo # <<>>
    BY <1>3, <1>4 DEF WorkRec
  <2>2. Head(old.todo) \in Sub
    BY <2>1
  <2>3. Tail(old.todo) \in Seq(Sub)
    BY <2>1
  <2> QED BY <2>2, <2>3
<1> DEFINE new == [todo |-> rest, hand |-> s, next |-> old.next]
<1>6. [old EXCEPT !.hand = s, !.todo = rest] = new /\ new \in WorkRec
  <2>1. \A x \in WorkRec : [x EXCEPT !.hand = s] = [todo |-> x.todo, hand |-> s, next |-> x.next]
    BY DEF WorkRec
  <2>2. \A x \in WorkRec : [x EXCEPT !.todo = rest] = [todo |-> rest, hand |-> x.hand, next |-> x.next]
    BY DEF WorkRec
  <2> DEFINE y == [old EXCEPT !.hand = s]
  <2>3. y = [todo |-> old.todo, hand |-> s, next |-> old.next] /\ y \in WorkRec
    BY <2>1 DEF WorkRec
  <2>4. y.hand = s /\ y.next = old.next
    BY <2>3
  <2>5. [old EXCEPT !.hand = s, !.todo = rest] = [y EXCEPT !.todo = rest]
    BY Zenon
  <2>6. new \in WorkRec
    BY DEF WorkRec
  <2> HIDE DEF y
  <2> QED BY <2>2, <2>3, <2>4, <2>5, <2>6
<1>7. new.todo = rest /\ new.hand = s /\ new.next = old.next
  OBVIOUS
<1>8. work' = [work EXCEPT ![t] = new]
  <2>1. work' = [work EXCEPT ![t] = [work[t] EXCEPT !.hand = Head(work[t].todo), !.todo = Tail(work[t].todo)]]
    BY <1>2, <1>3
  <2>2. [work[t] EXCEPT !.hand = Head(work[t].todo), !.todo = Tail(work[t].todo)] = new
    BY <1>4, <1>5, <1>6
  <2> QED BY <2>1, <2>2, Zenon
<1> HIDE DEF new
<1>9. /\ work' \in [Stoppers -> WorkRec] /\ work'[t] = new
      /\ \A q \in Stoppers \ {t} : work'[q] = work[q]
  BY <1>3, <1>6, <1>8
<1>10. subs' = subs \ {s}
  BY <1>2, <1>4, <1>5
<1>11. SettingUp' => SettingUp
  BY <1>2, <1>4, <1>7, <1>9 DEF SettingUp, EndsFor
<1>12. BotPlaces'
  BY <1>1, <1>2, <1>11 DEF BotSafe, BotPlaces
<1>13. BotHands'
  <2>1. \A q \in Stoppers : /\ pc'[q] = "unsub" \/ work'[q] = NoWork
                            /\ pc'[q] = "unsub" /\ work'[q].hand = NoSub => work'[q].todo # <<>>
                            /\ work'[q].hand \notin subs'
    <3> TAKE q \in Stoppers
    <3>1. CASE q = t
      BY <1>1, <1>2, <1>7, <1>9, <1>10, <3>1, NoWorkType
    <3>2. CASE q # t
      BY <1>2, <1>9, <1>10, <3>2 DEF BotSafe, BotHands
    <3> QED BY <3>1, <3>2
  <2> QED BY <1>2, <1>9, <1>10, <2>1 DEF BotSafe, BotHands
<1>14. BotStages'
  <2>1. CASE t # "main"
    BY <1>2, <1>9, <2>1 DEF BotSafe, BotStages, EndsFor
  <2>2. CASE t = "main"
    <3>1. \A x : old.todo \in Seq({x}) => s = x /\ rest \in Seq({x})
      <4> SUFFICES ASSUME NEW x, old.todo \in Seq({x}) PROVE s = x /\ rest \in Seq({x})
        OBVIOUS
      <4>1. old.todo # <<>>
        BY <1>3, <1>4
      <4>2. Head(old.todo) \in {x} /\ Tail(old.todo) \in Seq({x})
        BY <4>1
      <4> QED BY <1>5, <4>2
    <3>2. old.next = "find" => s = "welcome" /\ rest \in Seq({"welcome"})
      BY <1>1, <1>4, <2>2, <3>1 DEF BotSafe, BotStages, EndsFor
    <3>3. old.next = "subscribe" => s = "reply" /\ rest \in Seq({"reply"})
      BY <1>1, <1>4, <2>2, <3>1 DEF BotSafe, BotStages, EndsFor
    <3> QED BY <1>1, <1>2, <1>4, <1>7, <1>9, <2>2, <3>2, <3>3 DEF BotSafe, BotStages, EndsFor
  <2> QED BY <2>1, <2>2
<1> QED BY <1>12, <1>13, <1>14 DEF BotSafe

\* The channel of the one in hand is closed: nobody publishes to it any more.
LEMMA ClosesOn ==
  ASSUME BotSafe, NEW t \in Stoppers, Unsubscribe(t), work[t].hand # NoSub
  PROVE  BotSafe'
<1> USE Names
<1>1. pc[t] = "unsub" /\ UNCHANGED <<reading, conn>>
  BY DEF Unsubscribe, net
<1>2. shut' = shut \cup {work[t].hand} /\ subs' = subs /\ Ended(t)
  BY DEF Unsubscribe
<1>3. work \in [Stoppers -> WorkRec] /\ work[t] \in WorkRec /\ DOMAIN pc = Threads
  BY DEF BotSafe, BotHands, BotPlaces
<1>4. PICK old \in WorkRec : old = work[t]
  BY <1>3
<1>5. old.hand \in Sub /\ old.hand \notin subs
  BY <1>4 DEF WorkRec, BotSafe, BotHands
<1>6. t # "main" => ~SettingUp
  BY <1>1 DEF BotSafe, BotPlaces
<1>7. (t = "main" /\ old.next = "find" => shut \subseteq {"welcome"} /\ old.hand = "welcome")
      /\ (t = "main" /\ old.next = "subscribe" => shut \subseteq {"welcome", "reply"} /\ old.hand = "reply")
  BY <1>1, <1>4, <1>5, NoWorkType DEF BotSafe, BotStages, EndsFor
<1>8. CASE old.todo = <<>>
  <2>1. Goes(t, old.next) /\ work' = [work EXCEPT ![t] = NoWork]
    BY <1>2, <1>4, <1>8 DEF Ended
  <2>2. /\ DOMAIN pc' = Threads /\ pc'[t] = old.next
        /\ \A q \in Threads \ {t} : pc'[q] = pc[q]
    BY <1>3, <2>1 DEF Goes
  <2>3. /\ work' \in [Stoppers -> WorkRec] /\ work'[t] = NoWork
        /\ \A q \in Stoppers \ {t} : work'[q] = work[q]
    BY <1>3, <2>1, NoWorkType
  <2>4. old.next \in {"none", "find", "subscribe", "stop", "wsStop", "clear"}
    BY DEF WorkRec
  <2>5. SettingUp' => SettingUp
    <3>1. CASE t # "main"
      BY <2>2, <2>3, <3>1 DEF SettingUp, EndsFor
    <3>2. CASE t = "main"
      BY <1>1, <1>4, <2>2, <2>4, <3>2 DEF SettingUp, EndsFor, Dialling, Finding, Joining
    <3> QED BY <3>1, <3>2
  <2>6. BotPlaces'
    BY <1>1, <1>6, <2>2, <2>5 DEF BotSafe, BotPlaces
  <2>7. BotHands'
    <3>1. \A q \in Stoppers : /\ pc'[q] = "unsub" \/ work'[q] = NoWork
                              /\ pc'[q] = "unsub" /\ work'[q].hand = NoSub => work'[q].todo # <<>>
                              /\ work'[q].hand \notin subs'
      <4> TAKE q \in Stoppers
      <4>1. CASE q = t
        BY <1>2, <2>2, <2>3, <2>4, <4>1, NoWorkType DEF BotSafe, BotHands
      <4>2. CASE q # t
        BY <1>2, <2>2, <2>3, <4>2 DEF BotSafe, BotHands
      <4> QED BY <4>1, <4>2
    <3>2. subs' \cap shut' = {} /\ shut' \subseteq Sub
      BY <1>2, <1>4, <1>5 DEF BotSafe, BotHands
    <3> QED BY <1>1, <1>2, <2>2, <2>3, <3>1, <3>2 DEF BotSafe, BotHands
  <2>8. BotStages'
    <3>1. CASE t # "main"
      BY <1>6, <2>2, <2>3, <3>1 DEF BotSafe, BotStages, EndsFor, SettingUp
    <3>2. CASE t = "main"
      BY <1>2, <1>4, <1>7, <2>2, <2>4, <3>2 DEF BotStages, EndsFor, Dialling, Finding, Joining
    <3> QED BY <3>1, <3>2
  <2> QED BY <2>6, <2>7, <2>8 DEF BotSafe
<1>9. CASE old.todo # <<>>
  <2> DEFINE new == [todo |-> old.todo, hand |-> NoSub, next |-> old.next]
  <2>1. pc' = pc /\ work' = [work EXCEPT ![t] = new] /\ new \in WorkRec
    <3>1. pc' = pc /\ work' = [work EXCEPT ![t].hand = NoSub]
      BY <1>2, <1>4, <1>9 DEF Ended
    <3>2. \A x \in WorkRec : [x EXCEPT !.hand = NoSub] = [todo |-> x.todo, hand |-> NoSub, next |-> x.next]
      BY DEF WorkRec
    <3>3. [work[t] EXCEPT !.hand = NoSub] = new
      BY <1>4, <3>2
    <3>4. new \in WorkRec
      BY DEF WorkRec
    <3> QED BY <3>1, <3>3, <3>4
  <2>2. new.todo = old.todo /\ new.hand = NoSub /\ new.next = old.next
    OBVIOUS
  <2> HIDE DEF new
  <2>3. /\ work' \in [Stoppers -> WorkRec] /\ work'[t] = new
        /\ \A q \in Stoppers \ {t} : work'[q] = work[q]
    BY <1>3, <2>1
  <2>4. SettingUp' => SettingUp
    BY <1>4, <2>1, <2>2, <2>3 DEF SettingUp, EndsFor
  <2>5. BotPlaces'
    BY <1>1, <2>1, <2>4 DEF BotSafe, BotPlaces
  <2>6. BotHands'
    <3>1. \A q \in Stoppers : /\ pc'[q] = "unsub" \/ work'[q] = NoWork
                              /\ pc'[q] = "unsub" /\ work'[q].hand = NoSub => work'[q].todo # <<>>
                              /\ work'[q].hand \notin subs'
      <4> TAKE q \in Stoppers
      <4>1. CASE q = t
        BY <1>1, <1>2, <1>9, <2>1, <2>2, <2>3, <4>1, NoWorkType DEF BotSafe, BotHands
      <4>2. CASE q # t
        BY <1>2, <2>1, <2>3, <4>2 DEF BotSafe, BotHands
      <4> QED BY <4>1, <4>2
    <3>2. subs' \cap shut' = {} /\ shut' \subseteq Sub
      BY <1>2, <1>4, <1>5 DEF BotSafe, BotHands
    <3> QED BY <1>1, <1>2, <2>1, <2>3, <3>1, <3>2 DEF BotSafe, BotHands
  <2>7. BotStages'
    <3>1. CASE t # "main"
      BY <1>6, <2>1, <2>3, <3>1 DEF BotSafe, BotStages, EndsFor, SettingUp
    <3>2. CASE t = "main"
      <4>1. pc'["main"] \notin Dialling \cup Finding \cup Joining
        BY <1>1, <2>1, <3>2 DEF Dialling, Finding, Joining
      <4> QED BY <1>1, <1>2, <1>4, <1>7, <2>1, <2>2, <2>3, <3>2, <4>1 DEF BotSafe, BotStages, EndsFor
    <3> QED BY <3>1, <3>2
  <2> QED BY <2>5, <2>6, <2>7 DEF BotSafe
<1> QED BY <1>8, <1>9

LEMMA BotSafeStep == BotSafe /\ [BotNext]_botVars => BotSafe'
<1> SUFFICES ASSUME BotSafe, [BotNext]_botVars PROVE BotSafe'
  OBVIOUS
<1>1. CASE Starting
  BY <1>1, MainGoesOn, OthersBegin, StartsEnding, ListensOn DEF Starting
<1>2. CASE Following
  BY <1>2, FollowingGoesOn, NobodyGoesOn DEF Following
<1>3. ASSUME NEW t \in Threads, WsStop(t) \/ IfGame(t) \/ ReadsAgain(t) \/ ClearGame(t) PROVE BotSafe'
  BY <1>3, StopGoesOn
<1>4. ASSUME NEW t \in Threads, StopBot(t) \/ StopGame(t) PROVE BotSafe'
  BY <1>4, StartsEnding
<1>5. ASSUME NEW t \in Threads, Unsubscribe(t) PROVE BotSafe'
  <2>1. t \in Stoppers
    BY <1>5, WhoStops DEF Unsubscribe
  <2> QED BY <1>5, <2>1, RemovesOn, ClosesOn
<1>6. ASSUME NEW t \in Threads, NEW r \in Threads, CloseConn(t, r) PROVE BotSafe'
  BY <1>6, CloseGoesOn
<1>7. CASE ReadMessage \/ PublishNext
  BY <1>7, ReaderGoesOn
<1>8. CASE WriteMessage \/ PingFails \/ Answer \/ Opponent \/ Extra \/ LoseConn
  BY <1>8, NobodyGoesOn, FollowingGoesOn
<1>9. CASE UNCHANGED botVars
  BY <1>9, StaysPut DEF botVars
<1> QED BY <1>1, <1>2, <1>3, <1>4, <1>5, <1>6, <1>7, <1>8, <1>9 DEF BotNext

\* The reader never sends on a closed channel, which is a panic: whichever
\* goroutines end subscriptions, at whatever time, the reader's list is of open
\* ones until it is through.
THEOREM NoSendAfterCloseHolds == BotSpec => []NoSendAfterClose
<1>1. BotSafe => NoSendAfterClose
  BY DEF BotSafe, BotHands, NoSendAfterClose
<1> QED BY <1>1, BotStart, BotSafeStep, PTL DEF BotSpec

\* A board fits if it lacks at most the opponent's last ply; one in step may
\* also be ahead of the service by the bot's own.
Fit(n) ==
  /\ n <= server.approved /\ server.approved <= n + 1
  /\ server.approved = n + 1 => ~Mine(server.approved)
InStep ==
  /\ board <= server.approved + 1 /\ server.approved <= board + 1
  /\ board = server.approved + 1 => Mine(board)
  /\ server.approved = board + 1 => ~Mine(server.approved)

\* No message of s is a ply; one at most is, the n-th.
NoPly(s) == \A i \in DOMAIN s : s[i].topic # "move"
OnePly(s, n) ==
  \A i \in DOMAIN s : s[i].topic = "move" =>
    s[i].index = n /\ \A j \in DOMAIN s : s[j].topic = "move" => i = j

\* Before the answer; between the answer and the start of the game; a ply that is
\* played and not sent; whoever plays on.
Seeking == pc["main"] \in Dialling \cup Finding \/ EndsFor("find")
Sitting == pc["main"] \in Joining \/ EndsFor("subscribe")
Opening == pc["main"] \in {"first", "send", "serve"}
Pending == pc["main"] = "send" \/ pc["onMove"] = "send"
Playing == hasGame \/ pc["onMove"] # "none" \/ Opening

BoardPhases ==
  /\ Seeking \/ Sitting \/ Opening => pc["onMove"] = "none"
  /\ Seeking \/ Sitting => ~hasGame /\ NoPly(out)
  /\ Sitting => Fit(board)
  /\ pc["main"] = "first" => board = server.approved /\ Mine(board + 1) /\ board < Plies /\ NoPly(out)
  /\ Pending => board = server.approved + 1 /\ Mine(board) /\ NoPly(out)
  /\ Playing => InStep /\ OnePly(out, board) /\ (NoPly(out) \/ board = server.approved + 1)

\* What a message may say: of a ply, that it is approved; of the game, while the
\* bot looks for one, a board that fits.
Known == {m \in Messages : /\ m.topic = "move" => m.index <= server.approved
                           /\ m.topic = "reply" /\ Seeking => Fit(m.index)}
Told(w, r, c) ==
  /\ w \in Seq(Known) /\ r \in [msg: Known, todo: SUBSET Sub]
  /\ \A s \in r.todo : TopicOf[s] = r.msg.topic
  /\ c \in [Sub -> Seq(Known)]
  /\ \A s \in Sub : Len(c[s]) <= SubCap /\ \A i \in DOMAIN c[s] : c[s][i].topic = TopicOf[s]

\* The answer that is still to be sent.
AnswerFits ==
  Seeking => (server.fresh => Fit(0)) /\ (server.feed = "fetched" => Fit(server.snap))

ServerRec == [fresh: BOOLEAN, white: BOOLEAN, approved: 0..Plies, over: BOOLEAN,
              feed: {"no", "asked", "fetched", "yes", "refused"}, snap: 0..Plies]
Onces == [{"bot", "game", "ws"} -> Threads \cup {"no", "done"}]

BotShape ==
  /\ conn \in {"none", "up", "lost", "closed"} /\ once \in Onces
  /\ hasGame \in BOOLEAN /\ viewed \in BOOLEAN /\ incidents \in 0..MaxIncidents
OutShape == out \in Seq(Messages) /\ Len(out) <= OutCap

BoardInv ==
  /\ BotSafe /\ BotShape /\ OutShape /\ server \in ServerRec /\ board \in 0..Plies
  /\ BoardPhases /\ AnswerFits /\ Told(wire, reading, chan)

LEMMA Alternates ==
  ASSUME server \in ServerRec, NEW n \in Nat
  PROVE  /\ Mine(n) \in BOOLEAN /\ (Mine(n + 1) <=> ~Mine(n)) /\ (Mine(n + 2) <=> Mine(n))
<1>1. server.white \in BOOLEAN
  BY DEF ServerRec
<1>2. ((n + 1) % 2 = 1) <=> ~(n % 2 = 1)
  OBVIOUS
<1>3. ((n + 2) % 2 = 1) <=> (n % 2 = 1)
  OBVIOUS
<1> QED BY <1>1, <1>2, <1>3 DEF Mine

LEMMA MsgType ==
  ASSUME NEW t \in {"welcome", "reply", "error", "move", "end", "chat", "view", "ask", "resign"},
         NEW n \in 0..Plies
  PROVE  Msg(t, n) \in Messages /\ Msg(t, n).topic = t /\ Msg(t, n).index = n
BY DEF Msg, Messages

\* A message that says nothing of a board is known at any time.
LEMMA NothingSaid ==
  ASSUME NEW t \in {"welcome", "error", "end", "chat", "view", "ask", "resign"}, NEW n \in {0, 1}
  PROVE  Msg(t, n) \in Known /\ Msg(t, n).topic = t /\ Msg(t, n) \in Messages
<1>1. n \in 0..Plies
  BY BotAssumption
<1> QED BY <1>1, MsgType DEF Known

LEMMA SeqGrows ==
  ASSUME NEW S, NEW T, S \subseteq T
  PROVE  /\ \A s \in Seq(S) : s \in Seq(T)
         /\ \A C : \A c \in [C -> Seq(S)] : c \in [C -> Seq(T)]
OBVIOUS

LEMMA PlyAfter ==
  ASSUME NEW s \in Seq(Messages), NEW m \in Messages, NEW s2, s2 = Append(s, m)
  PROVE  /\ s2 \in Seq(Messages) /\ Len(s2) = Len(s) + 1
         /\ NoPly(s) /\ m.topic # "move" => NoPly(s2)
         /\ \A n : OnePly(s, n) /\ m.topic # "move" => OnePly(s2, n)
         /\ \A n : NoPly(s) /\ m.index = n => OnePly(s2, n)
<1>1. s2 \in Seq(Messages) /\ Len(s2) = Len(s) + 1 /\ Len(s) \in Nat
  OBVIOUS
<1>2. DOMAIN s = 1..Len(s) /\ DOMAIN s2 = 1..(Len(s) + 1)
  BY <1>1
<1>3. s2[Len(s) + 1] = m /\ \A i \in 1..Len(s) : s2[i] = s[i]
  OBVIOUS
<1>4. \A i \in 1..(Len(s) + 1) : i = Len(s) + 1 \/ i \in 1..Len(s)
  BY <1>1
<1> QED BY <1>1, <1>2, <1>3, <1>4 DEF NoPly, OnePly

LEMMA PlyBefore ==
  ASSUME NEW s \in Seq(Messages), s # <<>>, NEW s2, s2 = Tail(s)
  PROVE  /\ s2 \in Seq(Messages) /\ Len(s2) = Len(s) - 1 /\ Head(s) \in Messages
         /\ NoPly(s) => NoPly(s2) /\ Head(s).topic # "move"
         /\ \A n : OnePly(s, n) => OnePly(s2, n)
         /\ \A n : OnePly(s, n) /\ Head(s).topic = "move" => NoPly(s2) /\ Head(s).index = n
<1>1. s2 \in Seq(Messages) /\ Len(s) \in Nat \ {0} /\ Len(s2) = Len(s) - 1 /\ Head(s) \in Messages
  OBVIOUS
<1>2. DOMAIN s = 1..Len(s) /\ DOMAIN s2 = 1..(Len(s) - 1)
  BY <1>1
<1>3. Head(s) = s[1] /\ \A i \in 1..(Len(s) - 1) : s2[i] = s[i + 1]
  OBVIOUS
<1>4. 1 \in DOMAIN s /\ \A i \in DOMAIN s2 : i + 1 \in DOMAIN s /\ i + 1 # 1
  BY <1>1, <1>2
<1>5. \A i, j \in DOMAIN s2 : i + 1 = j + 1 => i = j
  BY <1>1, <1>2
<1>6. \A i \in DOMAIN s2 : s2[i] = s[i + 1]
  BY <1>2, <1>3
<1>7. NoPly(s) => NoPly(s2) /\ Head(s).topic # "move"
  BY <1>3, <1>4, <1>6 DEF NoPly
<1>8. ASSUME NEW n, OnePly(s, n) PROVE OnePly(s2, n)
  BY <1>4, <1>5, <1>6, <1>8 DEF OnePly
<1>9. ASSUME NEW n, OnePly(s, n), Head(s).topic = "move" PROVE NoPly(s2) /\ Head(s).index = n
  BY <1>3, <1>4, <1>6, <1>9 DEF OnePly, NoPly
<1> QED BY <1>1, <1>7, <1>8, <1>9

LEMMA NoneIsOne == ASSUME NEW s, NoPly(s), NEW n PROVE OnePly(s, n)
BY DEF NoPly, OnePly

\* No goroutine comes to a phase but those that are in it.
NoNewPhase ==
  /\ Seeking' => Seeking
  /\ Sitting' => Sitting
  /\ Pending' => Pending
  /\ Playing' => Playing
  /\ pc'["main"] = "first" => pc["main"] = "first"
  /\ Seeking' \/ Sitting' \/ Opening' => pc'["onMove"] = "none"
  /\ Seeking' \/ Sitting' => ~hasGame'
OutKept ==
  /\ OutShape' /\ (NoPly(out) => NoPly(out'))
  /\ OnePly(out, board) => OnePly(out', board)

LEMMA KnownStays == ASSUME UNCHANGED server, Seeking' => Seeking PROVE Known \subseteq Known'
BY DEF Known, Fit, Mine

LEMMA ToldStays ==
  ASSUME NEW w, NEW r, NEW c, Told(w, r, c), Known \subseteq Known'
  PROVE  Told(w, r, c)'
<1>1. /\ w \in Seq(Known) /\ r \in [msg: Known, todo: SUBSET Sub]
      /\ \A s \in r.todo : TopicOf[s] = r.msg.topic
      /\ c \in [Sub -> Seq(Known)]
      /\ \A s \in Sub : Len(c[s]) <= SubCap /\ \A i \in DOMAIN c[s] : c[s][i].topic = TopicOf[s]
  BY DEF Told
<1>2. PICK K : K = Known
  OBVIOUS
<1>3. PICK L : L = Known'
  OBVIOUS
<1>4. w \in Seq(L) /\ c \in [Sub -> Seq(L)]
  BY <1>1, <1>2, <1>3, SeqGrows
<1>5. r \in [msg: L, todo: SUBSET Sub]
  BY <1>1, <1>2, <1>3
<1> QED BY <1>1, <1>3, <1>4, <1>5 DEF Told

LEMMA ToldGoesOn ==
  ASSUME UNCHANGED server, Seeking' => Seeking, Told(wire', reading', chan')
  PROVE  Told(wire, reading, chan)'
<1>1. PICK w, r, c : w = wire' /\ r = reading' /\ c = chan'
  OBVIOUS
<1>2. Told(w, r, c)'
  BY <1>1, KnownStays, ToldStays
<1> QED BY <1>1, <1>2 DEF Told

\* A step that brings nobody into a new phase and tells nothing new.
LEMMA BoardFrame ==
  ASSUME BoardInv, BotSafe', BotShape', UNCHANGED <<board, server>>, NoNewPhase, OutKept,
         Told(wire', reading', chan')
  PROVE  BoardInv'
<1>1. Told(wire, reading, chan)'
  BY ToldGoesOn DEF NoNewPhase
<1>2. BoardPhases'
  <2>1. (InStep => InStep') /\ (Fit(board) => Fit(board)')
    BY DEF InStep, Fit, Mine
  <2>2. Mine(board) <=> Mine(board)'
    BY DEF Mine
  <2>3. Mine(board + 1) <=> Mine(board + 1)'
    BY DEF Mine
  <2>4. OnePly(out, board) => OnePly(out, board)'
    BY DEF OutKept, OnePly
  <2>5. NoPly(out) => NoPly(out)'
    BY DEF OutKept, NoPly
  <2> QED BY <2>1, <2>2, <2>3, <2>4, <2>5 DEF BoardInv, BoardPhases, NoNewPhase
<1>3. AnswerFits'
  BY DEF BoardInv, AnswerFits, NoNewPhase, Fit, Mine
<1>4. server' \in ServerRec /\ board' \in 0..Plies /\ OutShape'
  BY DEF BoardInv, OutKept
<1> QED BY <1>1, <1>2, <1>3, <1>4 DEF BoardInv

\* What a step of one goroutine does to the phases.
LEMMA OthersStay ==
  ASSUME BoardInv, NEW t \in Threads \ {"main", "onMove"}, NEW p, Goes(t, p) \/ UNCHANGED pc,
         work'["main"].next = work["main"].next, hasGame' \in BOOLEAN, hasGame' => hasGame
  PROVE  NoNewPhase
<1>1. pc'["main"] = pc["main"] /\ pc'["onMove"] = pc["onMove"]
  BY Names DEF Goes, BoardInv, BotSafe, BotPlaces
<1> QED BY <1>1 DEF NoNewPhase, BoardInv, BotShape, BoardPhases, Seeking, Sitting, Opening, Pending, Playing, EndsFor

LEMMA MainGoes ==
  ASSUME BoardInv, NEW p, Goes("main", p), hasGame' \in BOOLEAN, hasGame' => hasGame,
         p \in Dialling \cup Finding => Seeking,
         p \in Joining => Sitting,
         p = "unsub" => /\ work'["main"].next = "find" => Seeking
                        /\ work'["main"].next = "subscribe" => Sitting,
         p # "first", p = "send" => pc["main"] = "send",
         p = "serve" => Opening
  PROVE  NoNewPhase
<1>1. pc'["main"] = p /\ pc'["onMove"] = pc["onMove"]
  BY Names DEF Goes, BoardInv, BotSafe, BotPlaces
<1>2. (Seeking' => Seeking) /\ (Sitting' => Sitting)
  BY <1>1 DEF Seeking, Sitting, EndsFor
<1>3. (Opening' => Opening) /\ (Pending' => Pending) /\ (Playing' => Playing)
  BY <1>1 DEF Opening, Pending, Playing
<1> QED BY <1>1, <1>2, <1>3 DEF NoNewPhase, BoardInv, BoardPhases

LEMMA OnMoveGoes ==
  ASSUME BoardInv, NEW p \in {"take", "exit"}, Goes("onMove", p), pc["onMove"] # "none",
         UNCHANGED <<work, hasGame>>
  PROVE  NoNewPhase
<1>1. pc'["main"] = pc["main"] /\ pc'["onMove"] = p
  BY Names DEF Goes, BoardInv, BotSafe, BotPlaces
<1>2. ~Seeking /\ ~Sitting /\ ~Opening /\ Playing
  BY DEF BoardInv, BoardPhases, Playing
<1> QED BY <1>1, <1>2 DEF NoNewPhase, Seeking, Sitting, Opening, Pending, Playing, EndsFor

LEMMA Counted == ASSUME BoardInv, Calm \/ Incident PROVE incidents' \in 0..MaxIncidents
BY BotAssumption DEF Calm, Incident, BoardInv, BotShape

\* A step that only moves goroutines.
LEMMA QuietStep ==
  ASSUME BoardInv, BotSafe', BotShape', NoNewPhase,
         UNCHANGED <<board, server, out, wire, reading, chan>>
  PROVE  BoardInv'
<1>1. OutKept
  BY DEF OutKept, OutShape, BoardInv
<1>2. Told(wire', reading', chan')
  BY DEF BoardInv
<1> QED BY <1>1, <1>2, BoardFrame

\* main on its way to the game.
LEMMA MainQuiet ==
  ASSUME BoardInv, BotSafe', LogIn \/ GetUserLiveGame \/ FindMatch \/ StartViewer \/ Over
  PROVE  BoardInv'
<1>1. UNCHANGED <<board, server, out, wire, reading, chan, work, hasGame, viewed, once, conn>>
  BY DEF LogIn, GetUserLiveGame, FindMatch, StartViewer, Over, Request, ps, net, me, Others
<1>2. Calm \/ Incident
  BY DEF LogIn, GetUserLiveGame, FindMatch, StartViewer, Over, Request, Others, Calm
<1>3. BotShape'
  BY <1>1, <1>2, Counted DEF BoardInv, BotShape
<1>4. hasGame' \in BOOLEAN /\ (hasGame' => hasGame)
  BY <1>1 DEF BoardInv, BotShape
<1>5. ASSUME NEW from \in Dialling \cup Finding, NEW to \in Dialling \cup Finding, Request(from, to)
      PROVE  NoNewPhase
  <2>1. PICK p \in {to, "stop"} : Goes("main", p) /\ pc["main"] = from
    BY <1>5 DEF Request
  <2>2. Seeking
    BY <2>1 DEF Seeking
  <2>3. p \notin Joining /\ p \notin {"unsub", "first", "send", "serve"}
    BY <2>1 DEF Dialling, Finding, Joining
  <2> QED BY <1>4, <2>1, <2>2, <2>3, MainGoes
<1>6. CASE LogIn \/ GetUserLiveGame \/ FindMatch
  <2>1. NoNewPhase
    BY <1>5, <1>6 DEF LogIn, GetUserLiveGame, FindMatch, Dialling, Finding
  <2> QED BY <1>1, <1>3, <2>1, QuietStep
<1>7. CASE StartViewer
  <2>1. pc' = [pc EXCEPT !["main"] = "liveGame", !["viewer"] = "run"] /\ pc["main"] = "find"
    BY <1>7 DEF StartViewer
  <2>2. pc'["main"] = "liveGame" /\ pc'["onMove"] = pc["onMove"]
    BY <2>1, Names DEF BoardInv, BotSafe, BotPlaces
  <2>3. Seeking /\ Seeking' /\ ~Sitting' /\ ~Opening' /\ pc["onMove"] = "none" /\ ~hasGame
    BY <2>1, <2>2 DEF Seeking, Sitting, Opening, EndsFor, Finding, Dialling, Joining, BoardInv, BoardPhases
  <2>4. NoNewPhase
    BY <1>1, <2>2, <2>3 DEF NoNewPhase, Pending, Playing, Opening
  <2> QED BY <1>1, <1>3, <2>4, QuietStep
<1>8. CASE Over
  <2>1. Goes("main", "stop")
    BY <1>8 DEF Over
  <2>2. NoNewPhase
    BY <1>4, <2>1, NotSetUp, MainGoes
  <2> QED BY <1>1, <1>3, <2>2, QuietStep
<1> QED BY <1>6, <1>7, <1>8

\* main subscribes.
LEMMA SubscribingQuiet ==
  ASSUME BoardInv, BotSafe', \/ AddBasicSubs
                             \/ Listen("welcome", "listen", "welcome")
                             \/ Listen("reply", "listenReply", "ask")
  PROVE  BoardInv'
<1>1. UNCHANGED <<board, server, out, wire, reading, chan, work, hasGame, viewed, once, conn, incidents>>
  BY DEF AddBasicSubs, Listen, Subscribes, net, me, Others
<1>2. BotShape' /\ hasGame' \in BOOLEAN /\ (hasGame' => hasGame)
  BY <1>1 DEF BoardInv, BotShape
<1>3. PICK p \in {"run", "subscribe", "welcome", "ask"} :
        /\ Goes("main", p)
        /\ p \in {"run", "subscribe"} => pc["main"] = "subscribe"
        /\ p \in {"welcome", "ask"} => pc["main"] \in {"listen", "listenReply"}
  <2>1. CASE AddBasicSubs
    <3>1. PICK i \in DOMAIN GameSubs : Goes("main", IF i = Len(GameSubs) THEN "run" ELSE "subscribe")
      BY <2>1 DEF AddBasicSubs
    <3> QED BY <2>1, <3>1 DEF AddBasicSubs
  <2>2. CASE ~AddBasicSubs
    BY <2>2 DEF Listen
  <2> QED BY <2>1, <2>2
<1>4. NoNewPhase
  BY <1>2, <1>3, MainGoes DEF Seeking, Sitting, Dialling, Finding, Joining
<1> QED BY <1>1, <1>2, <1>4, QuietStep

\* Goroutines that are not main and not onMove.
LEMMA OthersQuiet ==
  ASSUME BoardInv, BotSafe', RandomStop \/ PingFails \/ LoseConn \/ LoopEnds("onEnd", "end") \/ LoopEnds("onChat", "chat")
  PROVE  BoardInv'
<1>1. UNCHANGED <<board, server, out, wire, reading, chan, work, hasGame, viewed, once>>
  BY DEF RandomStop, PingFails, LoseConn, LoopEnds, ps, net, me, Others
<1>2. (Calm \/ Incident) /\ conn' \in {"lost", conn}
  BY DEF RandomStop, PingFails, LoseConn, LoopEnds, net, Others, Calm
<1>3. BotShape' /\ hasGame' \in BOOLEAN /\ (hasGame' => hasGame)
  BY <1>1, <1>2, Counted DEF BoardInv, BotShape
<1>4. \E t \in Threads \ {"main", "onMove"}, p \in {"stop", "wsStop", "exit"} : Goes(t, p) \/ UNCHANGED pc
  BY Names DEF RandomStop, PingFails, LoseConn, LoopEnds
<1>5. NoNewPhase
  BY <1>1, <1>3, <1>4, OthersStay
<1> QED BY <1>1, <1>3, <1>5, QuietStep

LEMMA MoveLoopEnds ==
  ASSUME BoardInv, BotSafe', LoopEnds("onMove", "move")
  PROVE  BoardInv'
<1>1. UNCHANGED <<board, server, out, wire, reading, chan, work, hasGame, viewed, once, conn, incidents>>
  BY DEF LoopEnds, ps, net, me, Others
<1>2. BotShape'
  BY <1>1 DEF BoardInv, BotShape
<1>3. Goes("onMove", "exit") /\ pc["onMove"] # "none"
  BY DEF LoopEnds
<1>4. NoNewPhase
  BY <1>1, <1>3, OnMoveGoes
<1> QED BY <1>1, <1>2, <1>4, QuietStep

\* Whoever stops something comes to no phase.
LEMMA StopperGoes ==
  ASSUME BoardInv, NEW t \in Stoppers \cup {"reader", "writer"},
         NEW p \in {"stop", "exit", "handing", "ifGame", "again", "panic", "gameStop", "take", "clear", "wsStop", "unsub"},
         Goes(t, p), hasGame' \in BOOLEAN, hasGame' => hasGame,
         t # "main" => work'["main"].next = work["main"].next,
         t = "main" /\ p = "unsub" => work'["main"].next \notin {"find", "subscribe"}
  PROVE  NoNewPhase
<1> USE Names
<1>1. CASE t # "main"
  <2>1. t \in Threads \ {"main", "onMove"}
    BY <1>1
  <2> QED BY <1>1, <2>1, OthersStay
<1>2. CASE t = "main" /\ p # "unsub"
  BY <1>2, NotSetUp, MainGoes
<1>3. CASE t = "main" /\ p = "unsub"
  <2>1. p \notin Dialling \cup Finding \cup Joining
    BY <1>3 DEF Dialling, Finding, Joining
  <2> QED BY <1>3, <2>1, MainGoes
<1> QED BY <1>1, <1>2, <1>3

LEMMA OnceType ==
  ASSUME NEW o \in Onces, NEW t \in Threads
  PROVE  /\ [o EXCEPT !.bot = t] \in Onces /\ [o EXCEPT !.game = t] \in Onces
         /\ [o EXCEPT !.ws = t] \in Onces
         /\ [o EXCEPT !.bot = "done"] \in Onces /\ [o EXCEPT !.game = "done"] \in Onces
         /\ [o EXCEPT !.ws = "done"] \in Onces
         /\ [[o EXCEPT !.game = "done"] EXCEPT !.bot = "done"] \in Onces
BY DEF Onces

\* The steps of a stop.
LEMMA StopQuiet ==
  ASSUME BoardInv, BotSafe', NEW t \in Threads,
         StopBot(t) \/ StopGame(t) \/ WsStop(t) \/ IfGame(t) \/ ReadsAgain(t) \/ ClearGame(t)
  PROVE  BoardInv'
<1> USE Names
<1>1. UNCHANGED <<board, server, out, wire, reading, chan, viewed, conn, incidents>>
  BY DEF StopBot, StopGame, WsStop, IfGame, ReadsAgain, ClearGame, ps, net, me, Others
<1>2. hasGame' \in BOOLEAN /\ (hasGame' => hasGame)
  <2>1. CASE ClearGame(t)
    BY <2>1 DEF ClearGame
  <2>2. CASE ~ClearGame(t)
    <3>1. hasGame' = hasGame
      BY <2>2 DEF StopBot, StopGame, WsStop, IfGame, ReadsAgain, me
    <3>2. hasGame \in BOOLEAN
      BY DEF BoardInv, BotShape
    <3> QED BY <3>1, <3>2
  <2> QED BY <2>1, <2>2
<1>3. t \in Stoppers \cup {"reader", "writer"}
  BY WhoStops DEF BoardInv, StopBot, StopGame, WsStop, IfGame, ReadsAgain, ClearGame
<1>4. once \in Onces /\ work \in [Stoppers -> WorkRec]
  BY DEF BoardInv, BotShape, BotSafe, BotHands
<1>5. once' \in Onces
  <2>1. \/ once' = once
        \/ once' = [once EXCEPT !.bot = t]
        \/ once' = [once EXCEPT !.game = t]
        \/ once' = [once EXCEPT !.ws = t]
        \/ once' = [once EXCEPT !.bot = "done"]
        \/ once' = [once EXCEPT !.game = "done"]
        \/ once' = [[once EXCEPT !.game = "done"] EXCEPT !.bot = "done"]
    BY DEF StopBot, StopGame, WsStop, IfGame, ReadsAgain, ClearGame, AfterGame, me
  <2>2. PICK o \in Onces : o = once
    BY <1>4
  <2> QED BY ZenonT(30), <2>1, <2>2, OnceType
<1>6. BotShape'
  BY <1>1, <1>2, <1>5 DEF BoardInv, BotShape
<1>7. NoNewPhase
  <2>1. ASSUME NEW p \in {"stop", "exit", "handing", "ifGame", "again", "panic", "gameStop", "take", "clear", "wsStop"},
               Goes(t, p), work' = work
        PROVE  NoNewPhase
    BY <1>2, <1>3, <2>1, StopperGoes
  <2>2. ASSUME NEW todo, NEW n \in {"wsStop", "clear"}, Ending(t, todo, n), t \in Stoppers
        PROVE  NoNewPhase
    <3>1. Goes(t, "unsub") /\ work' = [work EXCEPT ![t] = [todo |-> todo, hand |-> NoSub, next |-> n]]
      BY <2>2 DEF Ending
    <3>2. t # "main" => work'["main"] = work["main"]
      BY <1>4, <3>1
    <3>3. t = "main" => work'["main"].next = n
      BY <1>4, <3>1
    <3> QED BY <1>2, <1>3, <2>2, <3>1, <3>2, <3>3, StopperGoes
  <2>3. CASE StopBot(t)
    <3>1. t \in Stoppers
      BY <2>3, WhoStops DEF StopBot, BoardInv
    <3> QED BY <2>1, <2>2, <2>3, <3>1 DEF StopBot
  <2>4. CASE StopGame(t)
    <3>1. t \in Stoppers
      BY <2>4, WhoStops DEF StopGame, BoardInv
    <3> QED BY <2>1, <2>2, <2>4, <3>1 DEF StopGame, AfterGame
  <2>5. CASE WsStop(t)
    BY <2>1, <2>5 DEF WsStop, AfterWs
  <2>6. CASE IfGame(t) \/ ReadsAgain(t) \/ ClearGame(t)
    BY <2>1, <2>6 DEF IfGame, ReadsAgain, ClearGame, AfterGame
  <2> QED BY <2>3, <2>4, <2>5, <2>6
<1> QED BY <1>1, <1>6, <1>7, QuietStep

\* Subscriptions are ended; main goes on where it meant to.
LEMMA UnsubscribeQuiet ==
  ASSUME BoardInv, BotSafe', NEW t \in Stoppers, Unsubscribe(t)
  PROVE  BoardInv'
<1> USE Names
<1>1. /\ pc[t] = "unsub"
      /\ UNCHANGED <<board, server, out, wire, reading, chan, viewed, conn, incidents, once, hasGame>>
  BY DEF Unsubscribe, net, me, Others
<1>2. BotShape' /\ hasGame' \in BOOLEAN /\ (hasGame' => hasGame)
  BY <1>1 DEF BoardInv, BotShape
<1>3. work \in [Stoppers -> WorkRec] /\ DOMAIN pc = Threads
  BY DEF BoardInv, BotSafe, BotHands, BotPlaces
<1>4. CASE pc' = pc
  <2>1. work'["main"].next = work["main"].next
    <3>1. \/ work' = [work EXCEPT ![t].hand = Head(work[t].todo), ![t].todo = Tail(@)]
          \/ work' = [work EXCEPT ![t].hand = NoSub]
          \/ work' = [work EXCEPT ![t] = NoWork] /\ Goes(t, work[t].next)
      BY DEF Unsubscribe, Ended
    <3>2. \A x \in WorkRec : \A h, d : [x EXCEPT !.hand = h, !.todo = d].next = x.next /\ [x EXCEPT !.hand = h].next = x.next
      BY DEF WorkRec
    <3>3. CASE work' = [work EXCEPT ![t] = NoWork] /\ Goes(t, work[t].next)
      <4>1. work[t].next = "unsub"
        BY <1>1, <1>3, <1>4, <3>3 DEF Goes
      <4>2. work[t].next # "unsub"
        BY <1>3 DEF WorkRec
      <4> QED BY <4>1, <4>2
    <3>4. CASE work' = [work EXCEPT ![t].hand = Head(work[t].todo), ![t].todo = Tail(@)]
      <4>1. work' = [work EXCEPT ![t] = [work[t] EXCEPT !.hand = Head(work[t].todo), !.todo = Tail(work[t].todo)]]
        BY <1>3, <3>4
      <4>2. PICK new : new = [work[t] EXCEPT !.hand = Head(work[t].todo), !.todo = Tail(work[t].todo)]
        OBVIOUS
      <4>3. work' = [work EXCEPT ![t] = new] /\ new.next = work[t].next
        BY <1>3, <3>2, <4>1, <4>2
      <4> QED BY <1>3, <4>3
    <3>5. CASE work' = [work EXCEPT ![t].hand = NoSub]
      BY <1>3, <3>2, <3>5
    <3> QED BY <3>1, <3>3, <3>4, <3>5
  <2>2. "reader" \in Threads \ {"main", "onMove"}
    OBVIOUS
  <2> QED BY <1>1, <1>2, <1>4, <2>1, <2>2, OthersStay, QuietStep
<1>5. CASE pc' # pc
  <2>1. Goes(t, work[t].next) /\ work' = [work EXCEPT ![t] = NoWork]
    BY <1>5 DEF Unsubscribe, Ended
  <2>2. work[t].next \in {"none", "find", "subscribe", "stop", "wsStop", "clear"}
    BY <1>3 DEF WorkRec
  <2>3. CASE t = "main"
    <3>1. PICK p : p = work["main"].next
      OBVIOUS
    <3>2. p = "find" => Seeking
      BY <1>1, <2>3, <3>1 DEF Seeking, EndsFor
    <3>3. p = "subscribe" => Sitting
      BY <1>1, <2>3, <3>1 DEF Sitting, EndsFor
    <3>4. (p \in Dialling \cup Finding => p = "find") /\ (p \in Joining => p = "subscribe")
      BY <2>2, <2>3, <3>1 DEF Dialling, Finding, Joining
    <3>5. NoNewPhase
      BY <1>2, <2>1, <2>2, <2>3, <3>1, <3>2, <3>3, <3>4, MainGoes
    <3> QED BY <1>1, <1>2, <3>5, QuietStep
  <2>4. CASE t # "main"
    <3>1. work'["main"].next = work["main"].next
      BY <1>3, <2>1, <2>4
    <3>2. t \in Threads \ {"main", "onMove"}
      BY <2>4
    <3>3. NoNewPhase
      BY <1>2, <2>1, <3>1, <3>2, OthersStay
    <3> QED BY <1>1, <1>2, <3>3, QuietStep
  <2> QED BY <2>3, <2>4
<1> QED BY <1>4, <1>5

LEMMA ToldMore ==
  ASSUME NEW w, NEW r, NEW c, Told(w, r, c)
  PROVE  /\ Told(<<>>, r, c)
         /\ \A m \in Known : Told(Append(w, m), r, c)
         /\ w # <<>> => Head(w) \in Known /\ Told(Tail(w), r, c)
<1>1. <<>> \in Seq(Known)
  OBVIOUS
<1>2. \A m \in Known : Append(w, m) \in Seq(Known)
  BY DEF Told
<1>3. w # <<>> => Head(w) \in Known /\ Tail(w) \in Seq(Known)
  BY DEF Told
<1> QED BY <1>1, <1>2, <1>3 DEF Told

LEMMA ToldTaken ==
  ASSUME NEW w, NEW r, NEW c, Told(w, r, c), NEW s \in Sub, c[s] # <<>>, NEW c2, c2 = [c EXCEPT ![s] = Tail(@)]
  PROVE  Told(w, r, c2) /\ Head(c[s]) \in Known /\ Head(c[s]).topic = TopicOf[s]
<1>1. c \in [Sub -> Seq(Known)] /\ c[s] \in Seq(Known) /\ Len(c[s]) <= SubCap
      /\ \A i \in DOMAIN c[s] : c[s][i].topic = TopicOf[s]
  BY DEF Told
<1>2. PICK q \in Seq(Known) : q = c[s]
  BY <1>1
<1>3. PICK q2 \in Seq(Known) : q2 = Tail(q)
  <2>1. q # <<>>
    BY <1>2
  <2>2. Tail(q) \in Seq(Known)
    BY <2>1
  <2> QED BY <2>2
<1>4. /\ Len(q2) = Len(q) - 1 /\ Len(q) \in Nat /\ Head(q) \in Known /\ Head(q) = q[1] /\ 1 \in DOMAIN q
      /\ \A i \in DOMAIN q2 : i + 1 \in DOMAIN q /\ q2[i] = q[i + 1]
  BY <1>1, <1>2, <1>3
<1>5. c2 = [c EXCEPT ![s] = q2]
  BY <1>2, <1>3
<1>6. /\ c2 \in [Sub -> Seq(Known)] /\ c2[s] = q2
      /\ \A p \in Sub \ {s} : c2[p] = c[p]
  BY <1>1, <1>5
<1>7. Len(q2) <= SubCap
  BY <1>1, <1>2, <1>4, BotAssumption
<1>8. \A i \in DOMAIN q2 : q2[i].topic = TopicOf[s]
  BY <1>1, <1>2, <1>4
<1>9. \A p \in Sub : Len(c2[p]) <= SubCap /\ \A i \in DOMAIN c2[p] : c2[p][i].topic = TopicOf[p]
  BY <1>6, <1>7, <1>8 DEF Told
<1> QED BY <1>1, <1>2, <1>4, <1>6, <1>9 DEF Told

LEMMA ToldHeard ==
  ASSUME NEW w, NEW r, NEW c, Told(w, r, c), NEW s \in r.todo, Len(c[s]) < SubCap,
         NEW c2, c2 = [c EXCEPT ![s] = Append(@, r.msg)]
  PROVE  Told(w, r, c2)
<1>1. /\ c \in [Sub -> Seq(Known)] /\ s \in Sub /\ c[s] \in Seq(Known)
      /\ \A i \in DOMAIN c[s] : c[s][i].topic = TopicOf[s]
      /\ r.msg \in Known /\ r.msg.topic = TopicOf[s]
  BY DEF Told
<1>2. PICK q \in Seq(Known) : q = c[s]
  BY <1>1
<1>3. PICK q2 \in Seq(Known) : q2 = Append(q, r.msg)
  BY SMTT(20), <1>1, <1>2
<1>4. /\ Len(q2) = Len(q) + 1 /\ Len(q) \in Nat /\ q2[Len(q) + 1] = r.msg
      /\ DOMAIN q2 = 1..(Len(q) + 1) /\ DOMAIN q = 1..Len(q)
      /\ \A i \in DOMAIN q : q2[i] = q[i]
  BY <1>1, <1>2, <1>3
<1>5. c2 = [c EXCEPT ![s] = q2]
  BY <1>2, <1>3
<1>6. /\ c2 \in [Sub -> Seq(Known)] /\ c2[s] = q2
      /\ \A p \in Sub \ {s} : c2[p] = c[p]
  BY <1>1, <1>5
<1>7. Len(q2) <= SubCap
  BY <1>2, <1>4, BotAssumption
<1>8. \A i \in DOMAIN q2 : q2[i].topic = TopicOf[s]
  <2>1. \A i \in DOMAIN q2 : i = Len(q) + 1 \/ i \in DOMAIN q
    BY <1>4
  <2> QED BY <1>1, <1>2, <1>4, <2>1
<1>9. \A p \in Sub : Len(c2[p]) <= SubCap /\ \A i \in DOMAIN c2[p] : c2[p][i].topic = TopicOf[p]
  BY <1>6, <1>7, <1>8 DEF Told
<1> QED BY <1>6, <1>9 DEF Told

LEMMA TopicsOf ==
  /\ TopicOf["move"] = "move" /\ TopicOf["reply"] = "reply" /\ TopicOf["end"] = "end"
  /\ TopicOf["chat"] = "chat" /\ TopicOf["welcome"] = "welcome" /\ Sub \subseteq DOMAIN TopicOf
  /\ {"move", "reply", "end", "chat", "welcome", "botEnd", "botView"} = Sub
BY DEF TopicOf, Sub

\* The connection is set up, and closed.
LEMMA DialBoard == ASSUME BoardInv, BotSafe', Dial PROVE BoardInv'
<1> USE Names
<1>1. UNCHANGED <<board, server, out, reading, chan, work, hasGame, viewed, once>> /\ pc["main"] = "dial"
  BY DEF Dial, ps, me
<1>2. (Calm \/ Incident) /\ conn' \in {"up", conn}
  BY DEF Dial
<1>3. BotShape' /\ hasGame' \in BOOLEAN /\ (hasGame' => hasGame)
  BY <1>1, <1>2, Counted DEF BoardInv, BotShape
<1>4. NoNewPhase
  <2>1. CASE pc' = [pc EXCEPT !["main"] = "listen", !["reader"] = "read", !["writer"] = "select"]
    <3>1. pc'["main"] = "listen" /\ pc'["onMove"] = pc["onMove"]
      BY <2>1 DEF BoardInv, BotSafe, BotPlaces
    <3>2. Seeking /\ Seeking' /\ ~Sitting' /\ ~Opening' /\ pc["onMove"] = "none" /\ ~hasGame
      BY <1>1, <3>1 DEF Seeking, Sitting, Opening, EndsFor, Finding, Dialling, Joining, BoardInv, BoardPhases
    <3> QED BY <1>1, <3>1, <3>2 DEF NoNewPhase, Pending, Playing, Opening
  <2>2. CASE Goes("main", "stop")
    BY <1>3, <2>2, NotSetUp, MainGoes
  <2> QED BY <2>1, <2>2 DEF Dial
<1>5. OutKept
  BY <1>1 DEF OutKept, OutShape, BoardInv
<1>6. Told(wire', reading', chan')
  <2>1. wire' = wire \/ wire' = Append(<<>>, Msg("welcome", 0))
    BY DEF Dial
  <2>2. Msg("welcome", 0) \in Known
    BY NothingSaid
  <2>3. Told(wire, reading, chan) /\ Told(<<>>, reading, chan)
    BY ToldMore DEF BoardInv
  <2>4. Told(Append(<<>>, Msg("welcome", 0)), reading, chan)
    BY <2>2, <2>3, ToldMore
  <2> QED BY <1>1, <2>1, <2>3, <2>4
<1> QED BY <1>1, <1>3, <1>4, <1>5, <1>6, BoardFrame

LEMMA CloseBoard ==
  ASSUME BoardInv, BotSafe', NEW t \in Threads, NEW r \in Threads, CloseConn(t, r)
  PROVE  BoardInv'
<1> USE Names
<1>1. /\ UNCHANGED <<board, server, out, reading, chan, work, hasGame, viewed, incidents>>
      /\ conn' = "closed" /\ wire' = <<>> /\ once' = [once EXCEPT !.ws = "done"]
      /\ pc' = [pc EXCEPT ![t] = AfterWs(t), ![r] = "exit"]
      /\ pc[t] = "handing" /\ r \in {"reader", "writer"}
  BY DEF CloseConn, ps, Others
<1>2. t \in Stoppers \cup {"reader", "writer"}
  BY <1>1, WhoStops DEF BoardInv
<1>3. PICK o \in Onces : o = once
  BY DEF BoardInv, BotShape
<1>4. once' \in Onces
  BY <1>1, <1>3, OnceType
<1>5. BotShape' /\ hasGame' \in BOOLEAN /\ (hasGame' => hasGame)
  BY <1>1, <1>4 DEF BoardInv, BotShape
<1>6. NoNewPhase
  <2>1. pc'["main"] \in {"ifGame", pc["main"]} /\ pc'["onMove"] = pc["onMove"]
    BY <1>1, <1>2 DEF AfterWs, BoardInv, BotSafe, BotPlaces
  <2>2. CASE pc'["main"] = "ifGame"
    <3>1. ~Seeking' /\ ~Sitting' /\ ~Opening'
      BY <2>2 DEF Seeking, Sitting, Opening, EndsFor, Dialling, Finding, Joining
    <3> QED BY <1>5, <2>1, <2>2, <3>1 DEF NoNewPhase, Pending, Playing
  <2>3. CASE pc'["main"] = pc["main"]
    BY <1>1, <1>5, <2>1, <2>3 DEF NoNewPhase, BoardInv, BoardPhases, Seeking, Sitting, Opening, Pending, Playing, EndsFor
  <2> QED BY <2>1, <2>2, <2>3
<1>7. OutKept
  BY <1>1 DEF OutKept, OutShape, BoardInv
<1>8. Told(wire', reading', chan')
  BY <1>1, ToldMore DEF BoardInv
<1> QED BY <1>1, <1>5, <1>6, <1>7, <1>8, BoardFrame

\* A message that is no ply is sent, or none.
LEMMA SendKeeps ==
  ASSUME BoardInv, NEW m \in Messages, m.topic # "move", Sends(m) \/ UNCHANGED out
  PROVE  OutKept
<1>1. out \in Seq(Messages) /\ Len(out) <= OutCap
  BY DEF BoardInv, OutShape
<1>2. CASE UNCHANGED out
  BY <1>1, <1>2 DEF OutKept, OutShape
<1>3. CASE Sends(m)
  <2>1. Len(out) < OutCap
    BY <1>3 DEF Sends, Room
  <2>2. PICK o, o2 : o \in Seq(Messages) /\ o = out /\ o2 = out' /\ o2 = Append(o, m)
    BY <1>1, <1>3 DEF Sends
  <2>3. Len(o) \in Nat
    OBVIOUS
  <2>4. /\ o2 \in Seq(Messages) /\ Len(o2) = Len(o) + 1
        /\ NoPly(o) => NoPly(o2)
        /\ \A n : OnePly(o, n) => OnePly(o2, n)
    BY <2>2, PlyAfter
  <2>5. Len(o2) <= OutCap
    BY <2>1, <2>2, <2>3, <2>4, BotAssumption
  <2> QED BY <2>2, <2>4, <2>5 DEF OutKept, OutShape
<1> QED BY <1>2, <1>3

LEMMA AskBoard == ASSUME BoardInv, BotSafe', Ask PROVE BoardInv'
<1>1. UNCHANGED <<board, server, wire, reading, chan, work, hasGame, viewed, once, conn, incidents>> /\ pc["main"] = "ask"
  BY DEF Ask, ps, me, Others
<1>2. BotShape' /\ hasGame' \in BOOLEAN /\ (hasGame' => hasGame)
  BY <1>1 DEF BoardInv, BotShape
<1>3. PICK p \in {"reply", "stop"} : Goes("main", p)
  BY DEF Ask
<1>4. NoNewPhase
  BY <1>1, <1>2, <1>3, MainGoes DEF Seeking, Finding, Dialling, Joining
<1>5. OutKept
  BY NothingSaid, SendKeeps DEF Ask
<1>6. Told(wire', reading', chan')
  BY <1>1 DEF BoardInv
<1> QED BY <1>1, <1>2, <1>4, <1>5, <1>6, BoardFrame

LEMMA SendersBoard == ASSUME BoardInv, BotSafe', RandomView \/ ChatGenerator \/ Resigner PROVE BoardInv'
<1> USE Names
<1>1. UNCHANGED <<board, server, wire, reading, chan, work, hasGame, viewed, once, conn, pc>>
  BY DEF RandomView, ChatGenerator, Resigner, ps, me
<1>2. incidents' \in 0..MaxIncidents
  BY Counted DEF RandomView, ChatGenerator, Resigner
<1>3. BotShape' /\ hasGame' \in BOOLEAN /\ (hasGame' => hasGame)
  BY <1>1, <1>2 DEF BoardInv, BotShape
<1>4. NoNewPhase
  BY <1>1, <1>3, OthersStay
<1>5. PICK t \in {"view", "chat", "resign"} : Sends(Msg(t, 0))
  BY DEF RandomView, ChatGenerator, Resigner
<1>6. OutKept
  BY <1>5, NothingSaid, SendKeeps
<1>7. Told(wire', reading', chan')
  BY <1>1 DEF BoardInv
<1> QED BY <1>1, <1>3, <1>4, <1>6, <1>7, BoardFrame

\* Messages that say nothing of the board are taken.
LEMMA TakersBoard ==
  ASSUME BoardInv, BotSafe', HandleGameEnd \/ HandleChat \/ HandleView \/ HandleBotEnd
  PROVE  BoardInv'
<1> USE Names
<1>1. UNCHANGED <<board, server, wire, reading, work, hasGame, once, conn, incidents>>
  BY DEF HandleGameEnd, HandleChat, HandleView, HandleBotEnd, net, me, Others
<1>2. viewed' \in BOOLEAN
  <2>1. viewed \in BOOLEAN
    BY DEF BoardInv, BotShape
  <2>2. CASE HandleView
    BY <2>2 DEF HandleView
  <2>3. CASE HandleBotEnd
    <3>1. PICK a, b \in BOOLEAN : a = viewed /\ b = (Head(chan["botEnd"]).index = 0)
      BY <2>1
    <3>2. viewed' = (a /\ b)
      BY <2>3, <3>1 DEF HandleBotEnd
    <3>3. (a /\ b) \in BOOLEAN
      OBVIOUS
    <3> QED BY <3>2, <3>3
  <2>4. CASE ~HandleView /\ ~HandleBotEnd
    BY <2>1, <2>4 DEF HandleGameEnd, HandleChat, me
  <2> QED BY <2>2, <2>3, <2>4
<1>3. BotShape' /\ hasGame' \in BOOLEAN /\ (hasGame' => hasGame)
  BY <1>1, <1>2 DEF BoardInv, BotShape
<1>4. UNCHANGED pc \/ Goes("onEnd", "gameStop")
  BY DEF HandleGameEnd, HandleChat, HandleView, HandleBotEnd
<1>5. NoNewPhase
  BY <1>1, <1>3, <1>4, OthersStay
<1>6. \E t \in {"end", "chat"} : Sends(Msg(t, 0)) \/ UNCHANGED out
  BY DEF HandleGameEnd, HandleChat, HandleView, HandleBotEnd, net
<1>7. OutKept
  BY <1>6, NothingSaid, SendKeeps
<1>8. PICK s \in {"end", "chat", "botView", "botEnd"} : Receives(s)
  BY DEF HandleGameEnd, HandleChat, HandleView, HandleBotEnd
<1>9. Told(wire, reading, chan) /\ s \in Sub
  BY TopicsOf DEF BoardInv
<1>10. Told(wire, reading, chan')
  BY <1>8, <1>9, ToldTaken DEF Receives
<1>11. Told(wire', reading', chan')
  BY <1>1, <1>10
<1> QED BY <1>1, <1>3, <1>5, <1>7, <1>11, BoardFrame

LEMMA WelcomedBoard == ASSUME BoardInv, BotSafe', Welcomed PROVE BoardInv'
<1>1. UNCHANGED <<board, server, out, wire, reading, hasGame, viewed, once, conn, incidents>> /\ pc["main"] = "welcome"
  BY DEF Welcomed, net, me, Others
<1>2. BotShape' /\ hasGame' \in BOOLEAN /\ (hasGame' => hasGame)
  BY <1>1 DEF BoardInv, BotShape
<1>3. PICK n \in {"find", "stop"} : Ending("main", <<"welcome">>, n)
  BY DEF Welcomed
<1>4. work'["main"].next = n /\ Goes("main", "unsub")
  BY <1>3, Names DEF Ending, BoardInv, BotSafe, BotHands
<1>5. Seeking /\ "unsub" \notin Dialling \cup Finding \cup Joining
  BY <1>1 DEF Seeking, Dialling, Finding, Joining
<1>6. NoNewPhase
  BY <1>2, <1>4, <1>5, MainGoes
<1>7. OutKept
  BY <1>1 DEF OutKept, OutShape, BoardInv
<1>8. Told(wire, reading, chan) /\ "welcome" \in Sub
  BY TopicsOf DEF BoardInv
<1>9. Told(wire, reading, chan')
  BY <1>8, ToldTaken DEF Welcomed, Receives
<1>10. Told(wire', reading', chan')
  BY <1>1, <1>9
<1> QED BY <1>1, <1>2, <1>6, <1>7, <1>10, BoardFrame

\* A goroutine sends the ply it has just played, or finds no room for it.
LEMMA SendMoveBoard ==
  ASSUME BoardInv, BotSafe', NEW t \in {"main", "onMove"}, NEW after, NEW failed,
         SendMove(t, after, failed),
         t = "main" => after = "serve" /\ failed = "gameStop",
         t = "onMove" => after = "take" /\ failed = "take"
  PROVE  BoardInv'
<1> USE Names
<1>1. /\ UNCHANGED <<board, server, wire, reading, chan, work, hasGame, viewed, once, conn, incidents>>
      /\ pc[t] = "send"
  BY DEF SendMove, ps, me, Others
<1>2. BotShape' /\ hasGame' \in BOOLEAN /\ (hasGame' => hasGame)
  BY <1>1 DEF BoardInv, BotShape
<1>3. /\ NoPly(out) /\ board = server.approved + 1 /\ Mine(board) /\ Playing /\ InStep
      /\ t = "onMove" => ~Opening /\ pc["onMove"] # "none"
      /\ t = "main" => Opening /\ pc["onMove"] = "none"
  BY <1>1 DEF BoardInv, BoardPhases, Pending, Playing, Opening
<1>4. PICK p \in {after, failed} : Goes(t, p)
  BY DEF SendMove
<1>5. NoNewPhase
  <2>1. CASE t = "main"
    BY <1>2, <1>3, <1>4, <2>1, MainGoes DEF Dialling, Finding, Joining
  <2>2. CASE t = "onMove"
    BY <1>1, <1>3, <1>4, <2>2, OnMoveGoes
  <2> QED BY <2>1, <2>2
<1>6. CASE UNCHANGED out
  BY <1>1, <1>2, <1>5, <1>6, QuietStep
<1>7. CASE Sends(Msg("move", board))
  <2>1. board \in 0..Plies /\ out \in Seq(Messages) /\ Len(out) < OutCap
    BY <1>7 DEF BoardInv, OutShape, Sends, Room
  <2>2. PICK m \in Messages : m = Msg("move", board) /\ m.topic = "move" /\ m.index = board
    BY <2>1, MsgType
  <2>3. PICK o, o2 : o \in Seq(Messages) /\ o = out /\ o2 = out' /\ o2 = Append(o, m)
    BY <1>7, <2>1, <2>2 DEF Sends
  <2>4. o2 \in Seq(Messages) /\ Len(o2) = Len(o) + 1 /\ Len(o) \in Nat
    BY <2>3, PlyAfter
  <2>5. OnePly(o2, m.index)
    BY <1>3, <2>3, PlyAfter
  <2>6. OutShape'
    BY <2>1, <2>3, <2>4, BotAssumption DEF OutShape
  <2>7. InStep'
    BY <1>1, <1>3 DEF InStep, Mine
  <2>8. ~Seeking' /\ ~Sitting' /\ ~Pending' /\ pc'["main"] # "first"
    <3>1. CASE t = "main"
      <4>1. pc'["main"] \in {"serve", "gameStop"} /\ pc'["onMove"] = "none"
        BY <1>3, <1>4, <3>1 DEF Goes, BoardInv, BotSafe, BotPlaces
      <4> QED BY <4>1 DEF Seeking, Sitting, Pending, EndsFor, Dialling, Finding, Joining
    <3>2. CASE t = "onMove"
      <4>1. pc'["main"] = pc["main"] /\ pc'["onMove"] = "take"
        BY <1>4, <3>2 DEF Goes, BoardInv, BotSafe, BotPlaces
      <4>2. ~Seeking /\ ~Sitting
        BY <1>3, <3>2 DEF BoardInv, BoardPhases
      <4>3. ~Opening
        BY <1>3, <3>2
      <4> QED BY <1>1, <4>1, <4>2, <4>3 DEF Seeking, Sitting, Pending, Opening, EndsFor
    <3> QED BY <3>1, <3>2
  <2>9. Opening' => pc'["onMove"] = "none"
    BY <1>5 DEF NoNewPhase
  <2>10. BoardPhases'
    <3>1. OnePly(out, board)'
      BY <1>1, <2>2, <2>3, <2>5 DEF OnePly
    <3>2. board' = server'.approved + 1
      BY <1>1, <1>3
    <3> QED BY <2>7, <2>8, <2>9, <3>1, <3>2 DEF BoardPhases
  <2>11. AnswerFits'
    BY <2>8 DEF AnswerFits
  <2>12. Told(wire, reading, chan)'
    <3>1. Told(wire', reading', chan')
      BY <1>1 DEF BoardInv
    <3> QED BY <1>1, <2>8, <3>1, ToldGoesOn
  <2> QED BY <1>1, <1>2, <2>6, <2>10, <2>11, <2>12 DEF BoardInv
<1> QED BY <1>6, <1>7 DEF SendMove

\* The goroutines of the game begin; one that follows the moves may have nothing
\* before it but what main has done.
LEMMA ServeBoard == ASSUME BoardInv, BotSafe', Serve PROVE BoardInv'
<1> USE Names
<1>1. UNCHANGED <<board, server, out, wire, reading, chan, work, hasGame, viewed, once, conn, incidents>> /\ pc["main"] = "serve"
  BY DEF Serve, ps, net, me, Others
<1>2. BotShape'
  BY <1>1 DEF BoardInv, BotShape
<1>3. pc' = [t \in Threads |-> IF t \in {"onMove", "onEnd", "onChat"} /\ pc[t] = "none" THEN "take"
                               ELSE IF t = "main" THEN "wait" ELSE pc[t]]
  BY DEF Serve
<1>4. pc'["main"] = "wait" /\ pc'["onMove"] = "take"
  BY <1>1, <1>3 DEF BoardInv, BoardPhases, Opening
<1>5. Playing
  BY <1>1 DEF Playing, Opening
<1>6. NoNewPhase
  BY <1>4, <1>5 DEF NoNewPhase, Seeking, Sitting, Opening, Pending, EndsFor, Dialling, Finding, Joining
<1> QED BY <1>1, <1>2, <1>6, QuietStep

\* The first ply of the bot: the service has approved what is on the board.
LEMMA FirstMoveBoard == ASSUME BoardInv, BotSafe', FirstMove PROVE BoardInv'
<1> USE Names
<1>1. /\ UNCHANGED <<server, out, wire, reading, chan, work, hasGame, viewed, once, conn, incidents>>
      /\ pc["main"] = "first" /\ board' = board + 1 /\ Goes("main", "send")
  BY DEF FirstMove, ps, net, Others
<1>2. /\ board = server.approved /\ Mine(board + 1) /\ board < Plies /\ NoPly(out)
      /\ pc["onMove"] = "none" /\ board \in 0..Plies /\ server.approved \in 0..Plies
  BY <1>1 DEF BoardInv, BoardPhases, Opening, ServerRec
<1>3. BotShape' /\ OutShape' /\ server' \in ServerRec
  BY <1>1 DEF BoardInv, BotShape, OutShape
<1>4. board' \in 0..Plies /\ board' = server'.approved + 1
  BY <1>1, <1>2, BotAssumption
<1>5. pc'["main"] = "send" /\ pc'["onMove"] = "none"
  BY <1>1, <1>2 DEF Goes, BoardInv, BotSafe, BotPlaces
<1>6. ~Seeking' /\ ~Sitting'
  BY <1>5 DEF Seeking, Sitting, EndsFor, Dialling, Finding, Joining
<1>7. InStep' /\ Mine(board)'
  <2>1. PICK n \in Nat : n = server.approved /\ Mine(n + 1)
    BY <1>2
  <2>2. Mine(n + 1)'
    BY <1>1, <2>1 DEF Mine
  <2>3. board' = n + 1 /\ server'.approved = n
    BY <1>1, <1>2, <2>1
  <2>4. Mine(board)'
    BY <2>2, <2>3 DEF Mine
  <2> QED BY <2>3, <2>4 DEF InStep
<1>8. NoPly(out)' /\ OnePly(out, board)'
  BY <1>1, <1>2 DEF NoPly, OnePly
<1>9. BoardPhases'
  BY <1>4, <1>5, <1>6, <1>7, <1>8 DEF BoardPhases
<1>10. AnswerFits'
  BY <1>6 DEF AnswerFits
<1>11. Told(wire, reading, chan)'
  BY <1>1, <1>6, ToldGoesOn DEF BoardInv
<1> QED BY <1>3, <1>4, <1>9, <1>10, <1>11 DEF BoardInv

\* The game is set up: if it is the bot's turn on the board, then in the service too.
LEMMA RunBoard == ASSUME BoardInv, BotSafe', Run PROVE BoardInv'
<1> USE Names
<1>1. /\ UNCHANGED <<board, server, out, wire, reading, chan, work, viewed, once, conn>>
      /\ pc["main"] = "run" /\ (Calm \/ Incident)
  BY DEF Run, ps, net
<1>2. /\ Sitting /\ Fit(board) /\ NoPly(out) /\ ~hasGame /\ pc["onMove"] = "none"
      /\ board \in 0..Plies /\ server.approved \in 0..Plies /\ server \in ServerRec
  BY <1>1 DEF BoardInv, BoardPhases, Sitting, Joining, ServerRec
<1>3. CASE Goes("main", "stop") /\ UNCHANGED hasGame
  <2>1. BotShape' /\ hasGame' \in BOOLEAN /\ (hasGame' => hasGame)
    BY <1>1, <1>3, Counted DEF BoardInv, BotShape
  <2>2. NoNewPhase
    BY <1>3, <2>1, NotSetUp, MainGoes
  <2> QED BY <1>1, <2>1, <2>2, QuietStep
<1>4. CASE /\ hasGame' = TRUE
           /\ pc' = [pc EXCEPT !["main"] = IF Mine(board + 1) /\ board < Plies THEN "first" ELSE "serve",
                               !["stopper"] = "sleep",
                               !["onChat"] = IF server.white THEN "none" ELSE "take"]
  <2>1. BotShape'
    BY <1>1, <1>4, Counted DEF BoardInv, BotShape
  <2>2. /\ pc'["main"] = IF Mine(board + 1) /\ board < Plies THEN "first" ELSE "serve"
        /\ pc'["onMove"] = "none"
    BY <1>2, <1>4 DEF BoardInv, BotSafe, BotPlaces
  <2>3. ~Seeking' /\ ~Sitting' /\ ~Pending'
    BY <2>2 DEF Seeking, Sitting, Pending, EndsFor, Dialling, Finding, Joining
  <2>4. Fit(board)' /\ InStep'
    BY <1>1, <1>2 DEF Fit, InStep, Mine
  <2>5. pc'["main"] = "first" => (board = server.approved /\ Mine(board + 1) /\ board < Plies)'
    <3> SUFFICES ASSUME Mine(board + 1), board < Plies
                 PROVE  (board = server.approved /\ Mine(board + 1) /\ board < Plies)'
      BY <2>2
    <3>1. board = server.approved
      BY <1>2 DEF Fit
    <3> QED BY <1>1, <3>1 DEF Mine
  <2>6. NoPly(out)' /\ OnePly(out, board)'
    BY <1>1, <1>2 DEF NoPly, OnePly
  <2>7. BoardPhases'
    BY <2>2, <2>3, <2>4, <2>5, <2>6 DEF BoardPhases
  <2>8. AnswerFits'
    BY <2>3 DEF AnswerFits
  <2>9. Told(wire, reading, chan)'
    BY <1>1, <2>3, ToldGoesOn DEF BoardInv
  <2>10. OutShape' /\ server' \in ServerRec /\ board' \in 0..Plies
    BY <1>1 DEF BoardInv, OutShape
  <2> QED BY <2>1, <2>7, <2>8, <2>9, <2>10 DEF BoardInv
<1> QED BY <1>3, <1>4 DEF Run

\* The answer puts a board that fits before the bot.
LEMMA RepliedBoard == ASSUME BoardInv, BotSafe', Replied PROVE BoardInv'
<1> USE Names
<1>1. /\ UNCHANGED <<server, out, wire, reading, hasGame, viewed, once, conn>>
      /\ pc["main"] = "reply" /\ (Calm \/ Incident) /\ Receives("reply")
  BY DEF Replied, net
<1>2. Seeking /\ ~hasGame /\ pc["onMove"] = "none" /\ NoPly(out) /\ server \in ServerRec
  BY <1>1 DEF Seeking, Finding, BoardInv, BoardPhases
<1>3. BotShape' /\ hasGame' \in BOOLEAN /\ (hasGame' => hasGame)
  BY <1>1, Counted DEF BoardInv, BotShape
<1>4. Told(wire', reading', chan')
  <2>1. Told(wire, reading, chan) /\ "reply" \in Sub
    BY TopicsOf DEF BoardInv
  <2>2. Told(wire, reading, chan')
    BY <1>1, <2>1, ToldTaken DEF Receives
  <2> QED BY <1>1, <2>2
<1>5. PICK n \in {"subscribe", "stop"} : Ending("main", <<"reply">>, n) /\ (n = "stop" => board' = board)
  BY DEF Replied
<1>6. work'["main"].next = n /\ Goes("main", "unsub")
  BY <1>5 DEF Ending, BoardInv, BotSafe, BotHands
<1>7. CASE n = "stop"
  <2>1. "unsub" \notin Dialling \cup Finding \cup Joining
    BY DEF Dialling, Finding, Joining
  <2>2. NoNewPhase
    BY <1>3, <1>6, <1>7, <2>1, MainGoes
  <2>3. OutKept
    BY <1>1 DEF OutKept, OutShape, BoardInv
  <2> QED BY <1>1, <1>3, <1>4, <1>5, <1>7, <2>2, <2>3, BoardFrame
<1>8. CASE n = "subscribe"
  <2>1. board' = Head(chan["reply"]).index
    <3>1. ~Ending("main", <<"reply">>, "stop")
      BY <1>6, <1>8 DEF Ending, BoardInv, BotSafe, BotHands
    <3> QED BY <3>1 DEF Replied
  <2>2. Head(chan["reply"]) \in Known /\ Head(chan["reply"]).topic = "reply"
    BY <1>1, ToldTaken, TopicsOf DEF BoardInv, Receives
  <2>3. Fit(board') /\ board' \in 0..Plies
    BY <1>2, <2>1, <2>2 DEF Known, Messages
  <2>4. Fit(board)'
    BY <1>1, <2>3 DEF Fit, Mine
  <2>5. pc'["main"] = "unsub" /\ pc'["onMove"] = "none"
    BY <1>2, <1>6 DEF Goes, BoardInv, BotSafe, BotPlaces
  <2>6. ~Seeking' /\ ~Pending' /\ ~Playing' /\ ~Opening'
    BY <1>1, <1>2, <1>6, <1>8, <2>5 DEF Seeking, Pending, Playing, Opening, EndsFor, Dialling, Finding
  <2>7. BoardPhases'
    BY <1>1, <1>2, <2>4, <2>5, <2>6 DEF BoardPhases, NoPly
  <2>8. AnswerFits'
    BY <2>6 DEF AnswerFits
  <2>9. Told(wire, reading, chan)'
    BY <1>1, <1>4, <2>6, ToldGoesOn
  <2>10. OutShape' /\ server' \in ServerRec
    BY <1>1 DEF BoardInv, OutShape
  <2> QED BY <1>3, <2>3, <2>7, <2>8, <2>9, <2>10 DEF BoardInv
<1> QED BY <1>7, <1>8

\* A ply of the opponent: the one that is due is played and answered, any other is
\* dropped.
LEMMA MoveApprovedBoard == ASSUME BoardInv, BotSafe', HandleMoveApproved PROVE BoardInv'
<1> USE Names
<1>1. /\ UNCHANGED <<server, out, wire, reading, work, hasGame, viewed, once, conn, incidents>>
      /\ pc["onMove"] = "take" /\ Receives("move")
  BY DEF HandleMoveApproved, net, Others
<1>2. BotShape' /\ OutShape' /\ server' \in ServerRec
  BY <1>1 DEF BoardInv, BotShape, OutShape
<1>3. Told(wire', reading', chan') /\ Head(chan["move"]) \in Known /\ Head(chan["move"]).topic = "move"
  <2>1. PICK s \in Sub : s = "move" /\ TopicOf[s] = "move"
    BY TopicsOf
  <2>2. Told(wire, reading, chan) /\ chan[s] # <<>> /\ chan' = [chan EXCEPT ![s] = Tail(@)]
    BY <1>1, <2>1 DEF BoardInv, Receives
  <2>3. Told(wire, reading, chan')
    BY <2>2, ToldTaken
  <2>4. Head(chan[s]) \in Known /\ Head(chan[s]).topic = TopicOf[s]
    BY <2>2, ToldTaken
  <2> QED BY <1>1, <2>1, <2>3, <2>4
<1>4. /\ ~Seeking /\ ~Sitting /\ ~Opening /\ Playing /\ InStep /\ OnePly(out, board)
      /\ NoPly(out) \/ board = server.approved + 1
      /\ board \in 0..Plies /\ server.approved \in 0..Plies /\ server \in ServerRec
  BY <1>1 DEF BoardInv, BoardPhases, Playing, ServerRec
<1>5. PICK m \in Known : m = Head(chan["move"])
  BY <1>3
<1>6. m.index <= server.approved /\ m.index \in 0..Plies
  BY <1>3, <1>5 DEF Known, Messages
<1>7. CASE UNCHANGED <<pc, board>>
  <2>1. OutKept
    BY <1>1, <1>2 DEF OutKept
  <2>2. hasGame' \in BOOLEAN /\ (hasGame' => hasGame)
    BY <1>1 DEF BoardInv, BotShape
  <2>3. NoNewPhase
    BY <1>1, <1>7, <2>2, OthersStay
  <2> QED BY <1>1, <1>2, <1>3, <1>7, <2>1, <2>3, BoardFrame
<1>8. CASE TakesMove(m)
  <2>1. server.approved = board + 1 /\ ~Mine(board + 1) /\ NoPly(out) /\ Mine(board + 2)
    <3>1. m.index = board + 1 /\ ~Mine(board + 1)
      BY <1>8 DEF TakesMove
    <3>2. server.approved = board + 1
      BY <1>4, <1>6, <3>1 DEF InStep
    <3>3. board \in Nat
      BY <1>4, BotAssumption
    <3>4. Mine(board + 2)
      <4>1. PICK n \in Nat : n = board + 1
        BY <3>3
      <4>2. Mine(n + 1)
        BY <1>4, <3>1, <4>1, Alternates
      <4>3. n + 1 = board + 2
        BY <3>3, <4>1
      <4> QED BY <4>2, <4>3
    <3> QED BY <1>4, <3>1, <3>2, <3>3, <3>4
  <2>2. ~Seeking' /\ ~Sitting' /\ ~Opening' /\ pc'["main"] = pc["main"]
    <3>1. pc'["main"] = pc["main"]
      BY DEF HandleMoveApproved, Goes, BoardInv, BotSafe, BotPlaces
    <3> QED BY <1>1, <1>4, <3>1 DEF Seeking, Sitting, Opening, EndsFor
  <2>3. NoPly(out)' /\ OnePly(out, board)'
    BY <1>1, <2>1 DEF NoPly, OnePly
  <2>4. \/ board + 1 = Plies /\ board' = board + 1 /\ pc' = pc
        \/ board + 1 < Plies /\ board' = board + 2 /\ Goes("onMove", "send")
        \/ UNCHANGED <<pc, board>>
    BY DEF HandleMoveApproved
  <2>5. AnswerFits' /\ Told(wire, reading, chan)'
    BY <1>1, <1>3, <2>2, ToldGoesOn DEF AnswerFits
  <2>6. CASE board + 1 = Plies /\ board' = board + 1 /\ pc' = pc
    <3>1. board' \in 0..Plies /\ board' = server'.approved
      BY <1>1, <1>4, <2>1, <2>6, BotAssumption
    <3>2. InStep'
      BY <1>1, <1>4, <3>1, BotAssumption DEF InStep
    <3>3. ~Pending'
      BY <1>1, <1>4, <2>6 DEF Pending, Opening
    <3>4. BoardPhases'
      BY <2>2, <2>3, <3>2, <3>3 DEF BoardPhases, Opening
    <3> QED BY <1>2, <2>5, <3>1, <3>4 DEF BoardInv
  <2>7. CASE board + 1 < Plies /\ board' = board + 2 /\ Goes("onMove", "send")
    <3>1. board' \in 0..Plies /\ board' = server'.approved + 1
      BY <1>1, <1>4, <2>1, <2>7, BotAssumption
    <3>2. Mine(board)'
      BY <1>1, <2>1, <2>7 DEF Mine
    <3>3. InStep'
      BY <1>1, <1>4, <3>1, <3>2, BotAssumption DEF InStep
    <3>4. BoardPhases'
      BY <2>2, <2>3, <3>1, <3>2, <3>3 DEF BoardPhases, Opening
    <3> QED BY <1>2, <2>5, <3>1, <3>4 DEF BoardInv
  <2> QED BY <1>7, <2>4, <2>6, <2>7
<1> QED BY <1>5, <1>7, <1>8 DEF HandleMoveApproved

\* The reader takes a message and hands it on.
LEMMA ReaderBoard == ASSUME BoardInv, BotSafe', ReadMessage \/ PublishNext PROVE BoardInv'
<1> USE Names
<1>1. UNCHANGED <<board, server, out, work, hasGame, viewed, once, conn, incidents>>
  BY DEF ReadMessage, PublishNext, me, Others, net
<1>2. BotShape' /\ hasGame' \in BOOLEAN /\ (hasGame' => hasGame)
  BY <1>1 DEF BoardInv, BotShape
<1>3. \E p : Goes("reader", p) \/ UNCHANGED pc
  <2>1. CASE ReadMessage
    BY <2>1 DEF ReadMessage
  <2>2. CASE PublishNext
    BY <2>2 DEF PublishNext, Published
  <2> QED BY <2>1, <2>2
<1>4. NoNewPhase
  BY <1>1, <1>2, <1>3, OthersStay
<1>5. OutKept
  BY <1>1 DEF OutKept, OutShape, BoardInv
<1>6. Told(wire, reading, chan) /\ subs \subseteq Sub
  BY DEF BoardInv, BotSafe, BotHands
<1>7. Told(wire', reading', chan')
  <2>1. CASE ReadMessage
    <3>1. chan' = chan
      BY <2>1 DEF ReadMessage, ps
    <3>2. CASE UNCHANGED <<reading, wire>>
      BY <1>6, <3>1, <3>2
    <3>3. CASE /\ wire # <<>> /\ wire' = Tail(wire)
               /\ reading' = [msg |-> Head(wire), todo |-> {s \in subs : TopicOf[s] = Head(wire).topic}]
      <4>1. Told(Tail(wire), reading, chan) /\ Head(wire) \in Known
        BY <1>6, <3>3, ToldMore
      <4>2. PICK m \in Known, d \in SUBSET Sub :
              m = Head(wire) /\ d = {s \in subs : TopicOf[s] = Head(wire).topic}
        BY <1>6, <4>1
      <4>3. reading' = [msg |-> m, todo |-> d] /\ \A s \in d : TopicOf[s] = m.topic
        BY <3>3, <4>2
      <4> QED BY <3>1, <3>3, <4>1, <4>3 DEF Told
    <3> QED BY <2>1, <3>2, <3>3 DEF ReadMessage
  <2>2. CASE PublishNext
    <3>1. wire' = wire
      BY <2>2 DEF PublishNext, net
    <3>2. ASSUME NEW c, Told(wire, reading, c), NEW todo \in SUBSET reading.todo, Published(todo)
          PROVE  Told(wire, reading', c)
      <4>1. reading \in [msg: Known, todo: SUBSET Sub] /\ \A s \in reading.todo : TopicOf[s] = reading.msg.topic
        BY <3>2 DEF Told
      <4>2. CASE todo = {}
        <5>1. reading' = [msg |-> Msg("welcome", 0), todo |-> {}]
          BY <3>2, <4>2 DEF Published, NotReading
        <5>2. Msg("welcome", 0) \in Known
          BY NothingSaid
        <5> QED BY <3>2, <5>1, <5>2 DEF Told
      <4>3. CASE todo # {}
        <5>1. reading' = [reading EXCEPT !.todo = todo]
          BY <3>2, <4>3 DEF Published
        <5>2. reading'.msg = reading.msg /\ reading'.todo = todo /\ reading' \in [msg: Known, todo: SUBSET Sub]
          BY <3>2, <4>1, <5>1
        <5> QED BY <3>2, <4>1, <5>2 DEF Told
      <4> QED BY <4>2, <4>3
    <3>3. CASE \E s \in reading.todo :
                 /\ Len(chan[s]) < SubCap /\ chan' = [chan EXCEPT ![s] = Append(@, reading.msg)]
                 /\ Published(reading.todo \ {s})
      <4>1. PICK s \in reading.todo :
              /\ Len(chan[s]) < SubCap /\ chan' = [chan EXCEPT ![s] = Append(@, reading.msg)]
              /\ Published(reading.todo \ {s})
        BY <3>3
      <4>2. Told(wire, reading, chan')
        BY <1>6, <4>1, ToldHeard
      <4>3. Told(wire, reading', chan')
        BY <3>2, <4>1, <4>2
      <4> QED BY <3>1, <4>3
    <3>4. CASE UNCHANGED <<chan, reading>>
      BY <1>6, <3>1, <3>4
    <3>5. CASE chan' = chan /\ Published({})
      <4>1. Told(wire, reading', chan)
        BY <1>6, <3>2, <3>5
      <4> QED BY <3>1, <3>5, <4>1
    <3> QED BY <2>2, <3>3, <3>4, <3>5 DEF PublishNext
  <2> QED BY <2>1, <2>2
<1> QED BY <1>1, <1>2, <1>4, <1>5, <1>7, BoardFrame

\* The service's count goes on by a ply, or stays: what fitted the board still does.
LEMMA PlyApproved ==
  ASSUME server \in ServerRec, server' \in ServerRec, server'.white = server.white,
         \/ server'.approved = server.approved
         \/ server'.approved = server.approved + 1 /\ ~Mine(server.approved + 1)
  PROVE  /\ \A n \in 0..Plies : Fit(n) => Fit(n)'
         /\ \A n \in 0..(Plies + 1) : Mine(n) <=> Mine(n)'
         /\ board \in 0..Plies /\ board' = board /\ InStep => InStep'
         /\ (Seeking' => Seeking) => Known \subseteq Known'
<1>1. server.approved \in 0..Plies /\ server'.approved \in 0..Plies
  BY DEF ServerRec
<1>2. \A n : Mine(n) <=> Mine(n)'
  BY DEF Mine
<1>3. PICK a \in Nat : a = server.approved
  BY <1>1, BotAssumption
<1>4. Mine(a + 1) <=> ~Mine(a)
  BY <1>3, Alternates
<1>5. server'.approved = a + 1 /\ ~Mine(a + 1) => ~((server'.approved % 2 = 1) = server'.white)
  BY DEF Mine
<1>6. ASSUME NEW n \in 0..Plies, Fit(n) PROVE Fit(n)'
  <2>1. n \in Nat
    BY BotAssumption
  <2>2. CASE server'.approved = server.approved
    BY <1>2, <1>6, <2>2 DEF Fit
  <2>3. CASE server'.approved = server.approved + 1 /\ ~Mine(server.approved + 1)
    <3>1. a = n
      BY <1>3, <1>4, <1>6, <2>1, <2>3 DEF Fit
    <3> QED BY <1>3, <1>5, <2>1, <2>3, <3>1 DEF Fit, Mine
  <2> QED BY <2>2, <2>3
<1>7. ASSUME board \in 0..Plies, board' = board, InStep PROVE InStep'
  <2>1. board \in Nat
    BY <1>7, BotAssumption
  <2>2. CASE server'.approved = server.approved
    BY <1>2, <1>7, <2>2 DEF InStep
  <2>3. CASE server'.approved = server.approved + 1 /\ ~Mine(server.approved + 1)
    <3>1. a = board
      BY <1>3, <1>4, <1>7, <2>1, <2>3 DEF InStep
    <3> QED BY <1>3, <1>5, <1>7, <2>1, <2>3, <3>1 DEF InStep, Mine
  <2> QED BY <2>2, <2>3
<1>8. ASSUME Seeking' => Seeking PROVE Known \subseteq Known'
  <2> SUFFICES ASSUME NEW m \in Messages, m \in Known PROVE m \in Known'
    BY DEF Known
  <2>1. m.index \in 0..Plies
    BY DEF Messages
  <2>2. m.topic = "move" => m.index <= server'.approved
    BY <1>3, <2>1, BotAssumption DEF Known
  <2>3. m.topic = "reply" /\ Seeking' => Fit(m.index)'
    BY <1>6, <1>8, <2>1 DEF Known
  <2> QED BY <2>2, <2>3 DEF Known
<1> QED BY <1>2, <1>6, <1>7, <1>8

\* A step of the gateway or the service that is no ply of the bot.
LEMMA ServerFrame ==
  ASSUME BoardInv, BotSafe', BotShape', NoNewPhase, OutKept, UNCHANGED board,
         server' \in ServerRec, server'.white = server.white, server'.fresh = server.fresh,
         \/ server'.approved = server.approved
         \/ server'.approved = server.approved + 1 /\ ~Mine(server.approved + 1),
         Seeking /\ server'.feed = "fetched" =>
            (server.feed = "fetched" /\ server'.snap = server.snap) \/ Fit(server'.snap),
         Told(wire, reading, chan)'
  PROVE  BoardInv'
<1>1. /\ board \in 0..Plies /\ server \in ServerRec /\ server.approved \in 0..Plies
      /\ server.snap \in 0..Plies /\ server'.snap \in 0..Plies
  BY DEF BoardInv, ServerRec
<1>2. /\ \A n \in 0..Plies : Fit(n) => Fit(n)'
      /\ \A n \in 0..(Plies + 1) : Mine(n) <=> Mine(n)'
      /\ InStep => InStep'
  BY <1>1, PlyApproved
<1>3. 0 \in 0..Plies /\ board + 1 \in 0..(Plies + 1) /\ board \in 0..(Plies + 1)
  BY <1>1, BotAssumption
<1>4. /\ NoPly(out) => NoPly(out)'
      /\ OnePly(out, board) => OnePly(out, board)'
  BY DEF OutKept, NoPly, OnePly
<1>5. Mine(board)' <=> Mine(board)
  <2>1. PICK n \in 0..(Plies + 1) : n = board
    BY <1>3
  <2>2. Mine(n) <=> Mine(n)'
    BY <1>2
  <2>3. board' = n
    BY <2>1
  <2> QED BY <2>1, <2>2, <2>3 DEF Mine
<1>6. Mine(board + 1)' <=> Mine(board + 1)
  BY DEF Mine
<1>7. Fit(board) => Fit(board)'
  <2>1. PICK n \in 0..Plies : n = board
    BY <1>1
  <2>2. Fit(n) => Fit(n)'
    BY <1>2
  <2>3. board' = n
    BY <2>1
  <2> QED BY <2>1, <2>2, <2>3 DEF Fit
<1>8. BoardPhases'
  <2>1. CASE server'.approved = server.approved
    BY <1>2, <1>4, <1>5, <1>6, <1>7, <2>1 DEF BoardInv, BoardPhases, NoNewPhase
  <2>2. CASE server'.approved = server.approved + 1 /\ ~Mine(server.approved + 1)
    <3>1. pc["main"] # "first"
      BY <2>2 DEF BoardInv, BoardPhases
    <3>2. ~(board = server.approved + 1 /\ Mine(board))
      BY <2>2
    <3>3. ~Pending /\ (Playing => NoPly(out))
      BY <1>1, <3>2 DEF BoardInv, BoardPhases, InStep
    <3> QED BY <1>2, <1>4, <1>7, <3>1, <3>3 DEF BoardInv, BoardPhases, NoNewPhase
  <2> QED BY <2>1, <2>2
<1>9. AnswerFits'
  <2> SUFFICES ASSUME Seeking'
               PROVE  /\ server'.fresh => Fit(0)'
                      /\ server'.feed = "fetched" => Fit(server.snap)'
    BY DEF AnswerFits
  <2>1. Seeking
    BY DEF NoNewPhase
  <2>2. server'.fresh => Fit(0)'
    BY <1>2, <1>3, <2>1 DEF BoardInv, AnswerFits
  <2>3. ASSUME server'.feed = "fetched" PROVE Fit(server.snap)'
    <3>1. PICK n \in 0..Plies : n = server'.snap
      BY <1>1
    <3>2. Fit(n)
      BY <2>1, <2>3, <3>1 DEF BoardInv, AnswerFits
    <3>3. Fit(n)'
      BY <1>2, <3>2
    <3> QED BY <3>1, <3>3 DEF Fit
  <2> QED BY <2>2, <2>3
<1> QED BY <1>1, <1>8, <1>9 DEF BoardInv, OutKept

\* What the gateway pushes to the session it may read.
LEMMA Pushed ==
  ASSUME BoardInv, Known \subseteq Known', UNCHANGED <<reading, chan>>,
         NEW m, m \in Known', Push(m) \/ UNCHANGED wire
  PROVE  Told(wire, reading, chan)'
<1>1. PICK w, r, c : w = wire /\ r = reading /\ c = chan /\ Told(w, r, c)
  BY DEF BoardInv
<1>2. Told(w, r, c)'
  BY <1>1, ToldStays
<1>3. wire' = w \/ wire' = Append(w, m)
  BY <1>1 DEF Push
<1>4. PICK K : K = Known'
  OBVIOUS
<1>5. w \in Seq(K)
  BY <1>2, <1>4 DEF Told
<1>6. wire' \in Seq(K)
  BY <1>3, <1>4, <1>5
<1> QED BY <1>1, <1>2, <1>4, <1>6 DEF Told

LEMMA AnswerBoard == ASSUME BoardInv, BotSafe', Answer PROVE BoardInv'
<1> USE Names
<1>1. UNCHANGED <<pc, work, board, hasGame, viewed, once, reading, chan, conn, out>> /\ (Calm \/ Incident)
  BY DEF Answer, ps, me
<1>2. BotShape' /\ hasGame' \in BOOLEAN /\ (hasGame' => hasGame)
  BY <1>1, Counted DEF BoardInv, BotShape
<1>3. NoNewPhase
  BY <1>1, <1>2, OthersStay
<1>4. OutKept
  BY <1>1 DEF OutKept, OutShape, BoardInv
<1>5. server \in ServerRec
  BY DEF BoardInv
<1>6. /\ server' \in ServerRec /\ server'.white = server.white /\ server'.fresh = server.fresh
      /\ server'.approved = server.approved
      /\ server'.feed = "fetched" => server'.snap = IF server.fresh THEN 0 ELSE server.approved
  <2>1. PICK f \in {"fetched", "refused", "yes"}, n \in 0..Plies :
          /\ server' = [server EXCEPT !.feed = f, !.snap = n]
          /\ f = "fetched" => n = IF server.fresh THEN 0 ELSE server.approved
    <3>1. \A x \in ServerRec : \A f : [x EXCEPT !.feed = f] = [x EXCEPT !.feed = f, !.snap = x.snap]
      BY DEF ServerRec
    <3>2. server.snap \in 0..Plies /\ server.approved \in 0..Plies /\ 0 \in 0..Plies
      BY <1>5, BotAssumption DEF ServerRec
    <3>3. \/ server' = [server EXCEPT !.feed = "fetched", !.snap = IF server.fresh THEN 0 ELSE server.approved]
          \/ server' = [server EXCEPT !.feed = "refused"]
          \/ server' = [server EXCEPT !.feed = "yes"]
      BY DEF Answer
    <3> QED BY <1>5, <3>1, <3>2, <3>3
  <2>2. PICK x \in ServerRec : x = server
    BY <1>5
  <2>3. /\ [x EXCEPT !.feed = f, !.snap = n] \in ServerRec
        /\ [x EXCEPT !.feed = f, !.snap = n].white = x.white
        /\ [x EXCEPT !.feed = f, !.snap = n].fresh = x.fresh
        /\ [x EXCEPT !.feed = f, !.snap = n].approved = x.approved
        /\ [x EXCEPT !.feed = f, !.snap = n].snap = n /\ [x EXCEPT !.feed = f, !.snap = n].feed = f
    BY DEF ServerRec
  <2>4. server' = [x EXCEPT !.feed = f, !.snap = n]
    BY <2>1, <2>2
  <2>5. /\ server' \in ServerRec /\ server'.white = x.white /\ server'.fresh = x.fresh
        /\ server'.approved = x.approved /\ server'.snap = n /\ server'.feed = f
    BY <2>3, <2>4, Zenon
  <2> QED BY <2>1, <2>2, <2>5
<1>7. Fit(server.approved) /\ (Seeking /\ server.fresh => Fit(0))
  BY <1>5 DEF Fit, BoardInv, AnswerFits, ServerRec
<1>8. Known \subseteq Known'
  BY <1>3, <1>5, <1>6, PlyApproved DEF NoNewPhase
<1>9. \E m \in Known : Push(m) \/ UNCHANGED wire
  <2>1. Msg("error", 0) \in Known
    BY NothingSaid
  <2>2. server.feed = "fetched" => Msg("reply", server.snap) \in Known
    <3>1. server.snap \in 0..Plies
      BY <1>5 DEF ServerRec
    <3> QED BY <3>1, MsgType DEF Known, BoardInv, AnswerFits
  <2> QED BY <2>1, <2>2 DEF Answer
<1>10. Told(wire, reading, chan)'
  BY <1>1, <1>8, <1>9, Pushed
<1>11. Seeking /\ server'.feed = "fetched" => Fit(server'.snap)
  <2>1. PICK z \in 0..Plies : z = server'.snap
    BY <1>6 DEF ServerRec
  <2>2. PICK a \in 0..Plies : a = server.approved
    BY <1>5 DEF ServerRec
  <2>3. (z = 0 /\ Fit(0) => Fit(z)) /\ (z = a /\ Fit(a) => Fit(z))
    OBVIOUS
  <2> QED BY <1>6, <1>7, <2>1, <2>2, <2>3
<1> QED BY <1>1, <1>2, <1>3, <1>4, <1>6, <1>10, <1>11, ServerFrame

\* The opponent plays only when it is his turn in the service.
LEMMA OpponentBoard == ASSUME BoardInv, BotSafe', Opponent PROVE BoardInv'
<1> USE Names
<1>1. UNCHANGED <<pc, work, board, hasGame, viewed, once, reading, chan, conn, out, incidents>>
  BY DEF Opponent, ps, me
<1>2. BotShape' /\ hasGame' \in BOOLEAN /\ (hasGame' => hasGame)
  BY <1>1 DEF BoardInv, BotShape
<1>3. NoNewPhase
  BY <1>1, <1>2, OthersStay
<1>4. OutKept
  BY <1>1 DEF OutKept, OutShape, BoardInv
<1>5. PICK x \in ServerRec : x = server
  BY DEF BoardInv
<1>6. /\ \A a \in 0..Plies : LET y == [x EXCEPT !.approved = a] IN
           y \in ServerRec /\ y.white = x.white /\ y.fresh = x.fresh /\ y.approved = a /\ y.snap = x.snap /\ y.feed = x.feed
      /\ LET y == [x EXCEPT !.over = TRUE] IN
           y \in ServerRec /\ y.white = x.white /\ y.fresh = x.fresh /\ y.approved = x.approved /\ y.snap = x.snap /\ y.feed = x.feed
  BY DEF ServerRec
<1>7. x.approved \in 0..Plies
  BY DEF ServerRec
<1>8. CASE /\ server.approved < Plies /\ ~Mine(server.approved + 1)
           /\ server' = [server EXCEPT !.approved = @ + 1] /\ Feeds(Msg("move", server.approved + 1))
  <2>1. PICK a \in 0..Plies : a = x.approved + 1
    BY <1>5, <1>7, <1>8, BotAssumption
  <2>2. server' = [x EXCEPT !.approved = a]
    BY <1>5, <1>8, <2>1
  <2>3. /\ server' \in ServerRec /\ server'.white = server.white /\ server'.fresh = server.fresh
        /\ server'.approved = server.approved + 1
        /\ server'.feed = server.feed /\ server'.snap = server.snap
    BY <1>5, <1>6, <2>1, <2>2
  <2>4. Known \subseteq Known'
    BY <1>3, <1>5, <1>8, <2>3, PlyApproved DEF NoNewPhase
  <2>5. Msg("move", a) \in Known'
    <3>1. server'.approved = a /\ a <= a
      BY <1>5, <2>1, <2>3, BotAssumption
    <3> QED BY <3>1, MsgType DEF Known
  <2>6. Push(Msg("move", a)) \/ UNCHANGED wire
    BY <1>5, <1>8, <2>1 DEF Feeds
  <2>7. Told(wire, reading, chan)'
    BY <1>1, <2>4, <2>5, <2>6, Pushed
  <2> QED BY <1>1, <1>2, <1>3, <1>4, <1>8, <2>3, <2>7, ServerFrame
<1>9. CASE server' = [server EXCEPT !.over = TRUE] /\ Feeds(Msg("end", 0))
  <2>1. /\ server' \in ServerRec /\ server'.white = server.white /\ server'.fresh = server.fresh
        /\ server'.approved = server.approved
        /\ server'.feed = server.feed /\ server'.snap = server.snap
    BY <1>5, <1>6, <1>9
  <2>2. Known \subseteq Known'
    BY <1>3, <1>5, <2>1, PlyApproved DEF NoNewPhase
  <2>3. Msg("end", 0) \in Known'
    BY <2>2, NothingSaid
  <2>4. Told(wire, reading, chan)'
    BY <1>1, <1>9, <2>2, <2>3, Pushed DEF Feeds
  <2> QED BY <1>1, <1>2, <1>3, <1>4, <2>1, <2>4, ServerFrame
<1> QED BY <1>8, <1>9 DEF Opponent

LEMMA ExtraBoard == ASSUME BoardInv, BotSafe', Extra PROVE BoardInv'
<1> USE Names
<1>1. UNCHANGED <<pc, work, board, hasGame, viewed, once, reading, chan, conn, out, server>> /\ Incident
  BY DEF Extra, ps, me
<1>2. BotShape' /\ hasGame' \in BOOLEAN /\ (hasGame' => hasGame)
  BY <1>1, Counted DEF BoardInv, BotShape
<1>3. NoNewPhase
  BY <1>1, <1>2, OthersStay
<1>4. OutKept
  BY <1>1 DEF OutKept, OutShape, BoardInv
<1>5. \E m \in Known : Push(m)
  <2>1. \A n \in 1..server.approved : Msg("move", n) \in Known
    <3> TAKE n \in 1..server.approved
    <3>1. n \in 0..Plies /\ n <= server.approved
      BY BotAssumption DEF BoardInv, ServerRec
    <3> QED BY <3>1, MsgType DEF Known
  <2>2. Msg("chat", 0) \in Known /\ Msg("end", 1) \in Known
    BY NothingSaid
  <2> QED BY <2>1, <2>2 DEF Extra
<1>6. Told(wire', reading', chan')
  <2>1. PICK w, r, c : w = wire /\ r = reading /\ c = chan /\ Told(w, r, c)
    BY DEF BoardInv
  <2>2. wire' = w \/ \E m \in Known : wire' = Append(w, m)
    BY <1>5, <2>1 DEF Push
  <2>3. Told(wire', r, c)
    BY <2>1, <2>2, ToldMore
  <2> QED BY <1>1, <2>1, <2>3
<1> QED BY <1>1, <1>2, <1>3, <1>4, <1>6, BoardFrame

\* The writer sends: a ply of the bot is the next in the service, which approves it
\* or loses it.
LEMMA WriteBoard == ASSUME BoardInv, BotSafe', WriteMessage PROVE BoardInv'
<1> USE Names
<1>1. /\ UNCHANGED <<work, board, hasGame, viewed, once, reading, chan, conn>>
      /\ out # <<>> /\ out' = Tail(out)
      /\ UNCHANGED pc \/ Goes("writer", "wsStop")
  BY DEF WriteMessage, ps, me
<1>2. Calm \/ Incident
  BY DEF WriteMessage, Received, Calm
<1>3. BotShape' /\ hasGame' \in BOOLEAN /\ (hasGame' => hasGame)
  BY <1>1, <1>2, Counted DEF BoardInv, BotShape
<1>4. NoNewPhase
  BY <1>1, <1>3, OthersStay
<1>5. PICK o, o2 : o \in Seq(Messages) /\ o = out /\ o2 = out' /\ o # <<>> /\ o2 = Tail(o)
  BY <1>1 DEF BoardInv, OutShape
<1>6. PICK m \in Messages : m = Head(o)
  BY <1>5, PlyBefore
<1>7. /\ o2 \in Seq(Messages) /\ Len(o2) <= OutCap
      /\ NoPly(o) => NoPly(o2) /\ m.topic # "move"
      /\ \A n : OnePly(o, n) => OnePly(o2, n)
      /\ \A n : OnePly(o, n) /\ m.topic = "move" => NoPly(o2) /\ m.index = n
  <2>1. /\ o2 \in Seq(Messages) /\ Len(o2) = Len(o) - 1 /\ Len(o) \in Nat /\ Len(o) <= OutCap
    BY <1>5, PlyBefore DEF BoardInv, OutShape
  <2>2. Len(o2) <= OutCap
    BY <2>1, BotAssumption
  <2> QED BY <1>5, <1>6, <2>1, <2>2, PlyBefore
<1>8. OutKept
  BY <1>5, <1>7 DEF OutKept, OutShape
<1>9. CASE UNCHANGED <<wire, server>>
  <2>1. Told(wire', reading', chan')
    BY <1>1, <1>9 DEF BoardInv
  <2> QED BY <1>1, <1>3, <1>4, <1>8, <1>9, <2>1, BoardFrame
<1>10. CASE Received(m) /\ pc' = pc
  <2>1. PICK x \in ServerRec : x = server
    BY DEF BoardInv
  <2>2. /\ \A a \in 0..Plies : LET y == [x EXCEPT !.approved = a] IN
             y \in ServerRec /\ y.white = x.white /\ y.fresh = x.fresh /\ y.approved = a /\ y.snap = x.snap /\ y.feed = x.feed
        /\ LET y == [x EXCEPT !.over = TRUE] IN
             y \in ServerRec /\ y.white = x.white /\ y.fresh = x.fresh /\ y.approved = x.approved /\ y.snap = x.snap /\ y.feed = x.feed
        /\ LET y == [x EXCEPT !.feed = "asked"] IN
             y \in ServerRec /\ y.white = x.white /\ y.fresh = x.fresh /\ y.approved = x.approved /\ y.feed = "asked"
    BY DEF ServerRec
  <2>3. ASSUME \/ server' = [x EXCEPT !.over = TRUE]
               \/ server' = [x EXCEPT !.feed = "asked"]
               \/ server' = x,
               \E p \in {Msg("end", 0), Msg("view", 0)} : Push(p) \/ UNCHANGED wire
        PROVE  BoardInv'
    <3>1. /\ server' \in ServerRec /\ server'.white = server.white /\ server'.fresh = server.fresh
          /\ server'.approved = server.approved
          /\ server'.feed = "fetched" => server.feed = "fetched" /\ server'.snap = server.snap
      BY ZenonT(30), <2>1, <2>2, <2>3
    <3>2. Known \subseteq Known'
      BY <1>4, <2>1, <3>1, PlyApproved DEF NoNewPhase
    <3>3. \A p \in {Msg("end", 0), Msg("view", 0)} : p \in Known'
      BY <3>2, NothingSaid
    <3>4. Told(wire, reading, chan)'
      BY <1>1, <2>3, <3>2, <3>3, Pushed
    <3> QED BY <1>1, <1>3, <1>4, <1>8, <3>1, <3>4, ServerFrame
  <2>4. CASE m.topic # "move"
    <3>1. \/ server' = [server EXCEPT !.over = TRUE] /\ Feeds(Msg("end", 0))
          \/ server' = [server EXCEPT !.feed = "asked"] /\ UNCHANGED wire
          \/ Push(Msg("view", 0)) /\ UNCHANGED server
          \/ UNCHANGED <<server, wire>>
      BY <1>10, <2>4 DEF Received
    <3> QED BY <2>1, <2>3, <3>1 DEF Feeds
  <2>5. CASE m.topic = "move" /\ ~(server' = [server EXCEPT !.approved = m.index])
    <3>1. UNCHANGED <<server, wire>>
      BY <1>10, <2>5 DEF Received
    <3> QED BY <1>9, <3>1
  <2>6. CASE m.topic = "move" /\ server' = [server EXCEPT !.approved = m.index] /\ UNCHANGED <<server, wire>>
    BY <1>9, <2>6
  <2>7. CASE /\ m.topic = "move" /\ server' = [server EXCEPT !.approved = m.index]
             /\ m.index = server.approved + 1 /\ Feeds(m)
    <3>1. m.index \in 0..Plies /\ server.approved \in 0..Plies /\ board \in 0..Plies
      BY <2>1 DEF Messages, ServerRec, BoardInv
    <3>2. /\ server' \in ServerRec /\ server'.white = server.white /\ server'.fresh = server.fresh
          /\ server'.approved = m.index
      BY <2>1, <2>2, <2>7, <3>1
    <3>3. ~NoPly(out)
      BY <1>5, <1>7, <2>7
    <3>4. ~Seeking /\ ~Sitting /\ pc["main"] # "first" /\ ~Pending
      BY <3>3 DEF BoardInv, BoardPhases
    <3>5. ~Seeking' /\ ~Sitting' /\ pc'["main"] # "first" /\ ~Pending'
      BY <1>4, <3>4 DEF NoNewPhase
    <3>6. Playing => NoPly(out)' /\ m.index = board
      <4>1. Playing => NoPly(o2) /\ m.index = board
        BY <1>5, <1>7, <2>7 DEF BoardInv, BoardPhases
      <4> QED BY <1>5, <4>1 DEF NoPly
    <3>7. Playing => InStep'
      BY <1>1, <3>1, <3>2, <3>6, BotAssumption DEF InStep
    <3>8. NoPly(out)' => OnePly(out, board)'
      BY DEF NoPly, OnePly
    <3>9. BoardPhases'
      BY <1>4, <3>5, <3>6, <3>7, <3>8 DEF BoardPhases, NoNewPhase
    <3>10. AnswerFits'
      BY <3>5 DEF AnswerFits
    <3>11. Known \subseteq Known'
      <4>1. \A k \in Messages : k.index <= server.approved => k.index <= server'.approved
        BY <2>7, <3>1, <3>2, BotAssumption DEF Messages
      <4> QED BY <3>5, <4>1 DEF Known
    <3>12. m \in Known'
      <4>1. m.index <= server'.approved
        BY <3>1, <3>2, BotAssumption
      <4> QED BY <2>7, <4>1 DEF Known
    <3>13. Told(wire, reading, chan)'
      BY <1>1, <2>7, <3>11, <3>12, Pushed DEF Feeds
    <3>14. OutShape' /\ board' \in 0..Plies
      BY <1>1, <1>8, <3>1 DEF OutKept
    <3> QED BY <1>3, <3>2, <3>9, <3>10, <3>13, <3>14 DEF BoardInv
  <2> QED BY <1>10, <2>4, <2>5, <2>6, <2>7 DEF Received
<1> QED BY <1>5, <1>6, <1>9, <1>10 DEF WriteMessage

LEMMA BoardStart == BotInit => BoardInv
<1> SUFFICES ASSUME BotInit PROVE BoardInv
  OBVIOUS
<1> USE Names
<1>1. BotSafe
  BY BotStart
<1>2. /\ pc["main"] = "login" /\ pc["onMove"] = "none"
      /\ board = 0 /\ hasGame = FALSE /\ viewed = FALSE /\ incidents = 0 /\ conn = "none"
      /\ out = <<>> /\ wire = <<>> /\ chan = [s \in Sub |-> <<>>]
      /\ reading = [msg |-> Msg("welcome", 0), todo |-> {}]
      /\ once = [o \in {"bot", "game", "ws"} |-> "no"]
  BY DEF BotInit, NotReading
<1>3. once \in Onces /\ BotShape
  <2>1. once \in Onces
    BY <1>2 DEF Onces
  <2>2. hasGame \in BOOLEAN /\ viewed \in BOOLEAN
    BY <1>2
  <2>3. incidents \in 0..MaxIncidents
    BY <1>2, BotAssumption
  <2> QED BY <1>2, <2>1, <2>2, <2>3 DEF BotShape
<1>4. OutShape /\ NoPly(out)
  BY <1>2, BotAssumption DEF OutShape, NoPly
<1>5. server \in ServerRec /\ server.feed = "no" /\ (server.fresh => server.approved = 0)
  <2>1. PICK fresh \in BOOLEAN, white \in BOOLEAN :
          server = [fresh |-> fresh, white |-> white, approved |-> IF fresh THEN 0 ELSE 1,
                    over |-> FALSE, feed |-> "no", snap |-> 0]
    BY DEF BotInit
  <2>2. 0 \in 0..Plies /\ 1 \in 0..Plies
    BY BotAssumption
  <2> QED BY <2>1, <2>2 DEF ServerRec
<1>6. AnswerFits
  BY <1>5 DEF AnswerFits, Fit
<1>7. BoardPhases
  BY <1>2, <1>4 DEF BoardPhases, Seeking, Sitting, Opening, Pending, Playing, EndsFor, Dialling, Finding, Joining
<1>8. Told(wire, reading, chan)
  <2>1. <<>> \in Seq(Known) /\ Len(<<>>) <= SubCap /\ DOMAIN <<>> = {}
    BY BotAssumption
  <2>2. Msg("welcome", 0) \in Known
    BY NothingSaid
  <2>3. chan \in [Sub -> Seq(Known)]
    BY <1>2, <2>1
  <2>4. \A s \in Sub : chan[s] = <<>>
    BY <1>2
  <2>5. wire \in Seq(Known) /\ reading \in [msg: Known, todo: SUBSET Sub] /\ reading.todo = {}
    BY <1>2, <2>1, <2>2
  <2> QED BY <2>1, <2>3, <2>4, <2>5 DEF Told
<1> QED BY <1>1, <1>2, <1>3, <1>4, <1>5, <1>6, <1>7, <1>8, BotAssumption DEF BoardInv

LEMMA BoardStep == BoardInv /\ [BotNext]_botVars => BoardInv'
<1> SUFFICES ASSUME BoardInv, [BotNext]_botVars PROVE BoardInv'
  OBVIOUS
<1>1. BotSafe'
  BY BotSafeStep DEF BoardInv
<1>2. CASE Starting
  <2>1. CASE RandomStop \/ Serve \/ Run \/ FirstMove \/ Replied \/ AddBasicSubs \/ Ask \/ Dial \/ Welcomed
    BY <1>1, <2>1, OthersQuiet, ServeBoard, RunBoard, FirstMoveBoard, RepliedBoard, SubscribingQuiet,
       AskBoard, DialBoard, WelcomedBoard
  <2>2. CASE \/ LogIn \/ StartViewer \/ GetUserLiveGame \/ FindMatch \/ Over
             \/ Listen("welcome", "listen", "welcome") \/ Listen("reply", "listenReply", "ask")
    BY <1>1, <2>2, MainQuiet, SubscribingQuiet
  <2>3. CASE SendMove("main", "serve", "gameStop")
    BY <1>1, <2>3, SendMoveBoard
  <2> QED BY <1>2, <2>1, <2>2, <2>3 DEF Starting
<1>3. CASE Following
  <2>1. CASE SendMove("onMove", "take", "take")
    BY <1>1, <2>1, SendMoveBoard
  <2> QED BY <1>1, <1>3, <2>1, MoveApprovedBoard, TakersBoard, SendersBoard, MoveLoopEnds, OthersQuiet DEF Following
<1>4. ASSUME NEW t \in Threads, \/ StopBot(t) \/ StopGame(t) \/ WsStop(t) \/ IfGame(t) \/ ReadsAgain(t) \/ ClearGame(t)
      PROVE  BoardInv'
  BY <1>1, <1>4, StopQuiet
<1>5. ASSUME NEW t \in Threads, Unsubscribe(t) PROVE BoardInv'
  <2>1. t \in Stoppers
    BY <1>5, WhoStops DEF Unsubscribe, BoardInv
  <2> QED BY <1>1, <1>5, <2>1, UnsubscribeQuiet
<1>6. ASSUME NEW t \in Threads, NEW r \in Threads, CloseConn(t, r) PROVE BoardInv'
  BY <1>1, <1>6, CloseBoard
<1>7. CASE ReadMessage \/ PublishNext \/ WriteMessage
  BY <1>1, <1>7, ReaderBoard, WriteBoard
<1>8. CASE PingFails \/ LoseConn \/ Answer \/ Opponent \/ Extra
  BY <1>1, <1>8, OthersQuiet, AnswerBoard, OpponentBoard, ExtraBoard
<1>9. CASE UNCHANGED botVars
  <2>1. UNCHANGED <<pc, work, board, server, out, wire, reading, chan, hasGame, viewed, once, conn, incidents>>
    BY <1>9 DEF botVars
  <2>2. BotShape' /\ hasGame' \in BOOLEAN /\ (hasGame' => hasGame)
    BY <2>1 DEF BoardInv, BotShape
  <2>3. NoNewPhase
    BY <2>1, <2>2, Names, OthersStay
  <2> QED BY <1>1, <2>1, <2>2, <2>3, QuietStep
<1> QED BY <1>2, <1>3, <1>4, <1>5, <1>6, <1>7, <1>8, <1>9 DEF BotNext

LEMMA BoardInvHolds == BotSpec => []BoardInv
<1> QED BY BoardStart, BoardStep, PTL DEF BotSpec

\* The bot's board is that of the service but for one ply, and the ply it has still
\* to send is the next one: whatever is lost, repeated or missed at the start.
\* Every state is well typed.
THEOREM BoardInStepHolds == BotSpec => [](BotTypeOK /\ BoardInStep)
<1>1. BoardInv => BoardInStep
  BY DEF BoardInv, BoardPhases, Playing, InStep, OnePly, NoPly, BoardInStep
<1>2. BoardInv => BotTypeOK
  <2> SUFFICES ASSUME BoardInv PROVE BotTypeOK
    OBVIOUS
  <2>1. \A S : S \subseteq Messages => Seq(S) \subseteq Seq(Messages)
    BY SeqGrows
  <2>2. PICK K : K = Known
    OBVIOUS
  <2>3. K \subseteq Messages
    BY <2>2 DEF Known
  <2>4. wire \in Seq(K) /\ chan \in [Sub -> Seq(K)] /\ reading \in [msg: K, todo: SUBSET Sub]
        /\ \A s \in Sub : Len(chan[s]) <= SubCap
    BY <2>2 DEF BoardInv, Told
  <2>5. wire \in Seq(Messages) /\ chan \in [Sub -> Seq(Messages)]
    BY <2>3, <2>4, SeqGrows
  <2>6. reading.msg \in Messages /\ reading.todo \subseteq Sub
    BY <2>3, <2>4
  <2>7. server.approved \in 0..Plies /\ server.snap \in 0..Plies
    BY DEF BoardInv, ServerRec
  <2>8. work \in [Stoppers -> WorkRec] /\ subs \subseteq Sub /\ shut \subseteq Sub /\ subs \cap shut = {}
        /\ DOMAIN pc = Threads
    BY DEF BoardInv, BotSafe, BotHands, BotPlaces
  <2>9. {hasGame, viewed} \subseteq BOOLEAN
    BY DEF BoardInv, BotShape
  <2> QED BY <2>4, <2>5, <2>6, <2>7, <2>8, <2>9 DEF BotTypeOK, BoardInv, BotShape, OutShape, Onces, WorkRec
<1> QED BY <1>1, <1>2, BoardInvHolds, PTL
-----------------------------------------------------------------------------
(* Ratings: sums and counts over the history *)

\* Induction over the subsets of a finite set.
LEMMA OverSubsets ==
  ASSUME NEW S, IsFiniteSet(S), NEW G,
         \A T \in SUBSET S : (\A U \in SUBSET T : U # T => U \in G) => T \in G
  PROVE  SUBSET S \subseteq G
<1> DEFINE Bad == {T \in SUBSET S : T \notin G}
<1>1. SUFFICES ASSUME Bad # {} PROVE FALSE
  OBVIOUS
<1>2. IsWellFoundedOn(StrictSubsetOrdering(S), FiniteSubsetsOf(S)) /\ FiniteSubsetsOf(S) = SUBSET S
  BY FS_StrictSubsetOrderingWellFounded, FS_FiniteSubsetsOfFinite
<1>3. PICK T \in Bad : \A U \in Bad : ~(<<U, T>> \in StrictSubsetOrdering(S))
  <2>1. Bad \subseteq SUBSET S
    OBVIOUS
  <2> HIDE DEF Bad
  <2> QED BY <1>1, <1>2, <2>1, WFMin
<1>4. T \in SUBSET S /\ T \notin G
  BY <1>3
<1>5. \A U \in SUBSET T : U # T => U \in G
  <2> SUFFICES ASSUME NEW U \in SUBSET T, U # T, U \notin G PROVE FALSE
    OBVIOUS
  <2>1. U \in SUBSET S /\ U \in Bad
    BY <1>4
  <2>2. <<U, T>> \in StrictSubsetOrdering(S)
    BY <1>4, <2>1 DEF StrictSubsetOrdering
  <2> QED BY <1>3, <2>1, <2>2
<1> QED BY <1>4, <1>5

Total(h, E) == MapThenSumSet(LAMBDA k : h[k].change, E)
Chosen(T) == CHOOSE x \in T : TRUE
\* F is the sum of the changes of h over every subset of E, as it is computed.
SumStep(F, h, T) == IF T = {} THEN 0 ELSE h[Chosen(T)].change + F[T \ {Chosen(T)}]
Sums(F, h, E) == \A T \in SUBSET E : F[T] = SumStep(F, h, T)

LEMMA ChosenIn == \A T : T # {} => Chosen(T) \in T
BY DEF Chosen

LEMMA SumsAgree ==
  ASSUME NEW h, NEW E, NEW F, NEW h2, NEW E2, NEW F2, IsFiniteSet(E), E \subseteq E2,
         Sums(F, h, E), Sums(F2, h2, E2), \A k \in E : h[k].change = h2[k].change
  PROVE  \A T \in SUBSET E : F[T] = F2[T]
<1> DEFINE G == {T \in SUBSET E : F[T] = F2[T]}
<1>1. ASSUME NEW T \in SUBSET E, \A U \in SUBSET T : U # T => U \in G PROVE T \in G
  <2>1. F[T] = SumStep(F, h, T) /\ F2[T] = SumStep(F2, h2, T)
    BY DEF Sums
  <2>2. CASE T = {}
    BY <2>1, <2>2 DEF SumStep
  <2>3. CASE T # {}
    <3>1. Chosen(T) \in T /\ h[Chosen(T)].change = h2[Chosen(T)].change
      BY <2>3, ChosenIn
    <3>2. T \ {Chosen(T)} \in G
      BY <1>1, <3>1
    <3> QED BY <2>1, <2>3, <3>1, <3>2 DEF SumStep
  <2> QED BY <2>2, <2>3
<1>2. SUBSET E \subseteq G
  <2> HIDE DEF G
  <2> QED BY <1>1, OverSubsets
<1> QED BY <1>2

LEMMA SumsInt ==
  ASSUME NEW h, NEW E, NEW F, IsFiniteSet(E), Sums(F, h, E), \A k \in E : h[k].change \in Int
  PROVE  \A T \in SUBSET E : F[T] \in Int
<1> DEFINE G == {T \in SUBSET E : F[T] \in Int}
<1>1. ASSUME NEW T \in SUBSET E, \A U \in SUBSET T : U # T => U \in G PROVE T \in G
  <2>1. F[T] = SumStep(F, h, T)
    BY DEF Sums
  <2>2. CASE T = {}
    BY <2>1, <2>2 DEF SumStep
  <2>3. CASE T # {}
    <3>1. Chosen(T) \in T /\ h[Chosen(T)].change \in Int
      BY <2>3, ChosenIn
    <3>2. T \ {Chosen(T)} \in G
      BY <1>1, <3>1
    <3> QED BY <2>1, <2>3, <3>1, <3>2 DEF SumStep
  <2> QED BY <2>2, <2>3
<1>2. SUBSET E \subseteq G
  <2> HIDE DEF G
  <2> QED BY <1>1, OverSubsets
<1> QED BY <1>2

\* The sum is the same whichever element is taken first.
LEMMA SumsAnyOrder ==
  ASSUME NEW h, NEW E, NEW F, IsFiniteSet(E), Sums(F, h, E), \A k \in E : h[k].change \in Int
  PROVE  \A T \in SUBSET E : \A x \in T : F[T] = h[x].change + F[T \ {x}]
<1> DEFINE G == {T \in SUBSET E : \A x \in T : F[T] = h[x].change + F[T \ {x}]}
<1>1. ASSUME NEW T \in SUBSET E, \A U \in SUBSET T : U # T => U \in G PROVE T \in G
  <2> SUFFICES ASSUME NEW x \in T PROVE F[T] = h[x].change + F[T \ {x}]
    OBVIOUS
  <2>1. PICK y \in T : y = Chosen(T)
    BY ChosenIn
  <2>2. F[T] = h[y].change + F[T \ {y}]
    <3>1. F[T] = SumStep(F, h, T) /\ T # {}
      BY DEF Sums
    <3> QED BY <2>1, <3>1 DEF SumStep
  <2>3. CASE x = y
    BY <2>2, <2>3
  <2>4. CASE x # y
    <3>1. T \ {x} \in G /\ T \ {y} \in G
      BY <1>1
    <3>2. F[T \ {y}] = h[x].change + F[(T \ {y}) \ {x}]
      BY <2>4, <3>1
    <3>3. F[T \ {x}] = h[y].change + F[(T \ {x}) \ {y}]
      BY <2>4, <3>1
    <3>4. (T \ {y}) \ {x} = (T \ {x}) \ {y} /\ (T \ {y}) \ {x} \in SUBSET E
      OBVIOUS
    <3>5. h[x].change \in Int /\ h[y].change \in Int /\ F[(T \ {y}) \ {x}] \in Int
      BY <3>4, SumsInt
    <3>6. F[T \ {x}] = h[y].change + F[(T \ {y}) \ {x}]
      BY <3>3, <3>4
    <3>7. PICK a \in Int, b \in Int, d \in Int :
            a = h[x].change /\ b = h[y].change /\ d = F[(T \ {y}) \ {x}]
      BY <3>5
    <3>8. F[T] = b + (a + d) /\ F[T \ {x}] = b + d
      BY <2>2, <3>2, <3>6, <3>7
    <3>9. b + (a + d) = a + (b + d)
      OBVIOUS
    <3> QED BY <3>7, <3>8, <3>9
  <2> QED BY <2>3, <2>4
<1>2. SUBSET E \subseteq G
  <2> HIDE DEF G
  <2> QED BY <1>1, OverSubsets
<1> QED BY <1>2

LEMMA SumsExist ==
  ASSUME NEW h, NEW E, IsFiniteSet(E)
  PROVE  \E F : F = [T \in SUBSET E |-> SumStep(F, h, T)]
<1> DEFINE Small(n) == {T \in SUBSET E : Cardinality(T) <= n}
           Good(n, F) == F = [T \in Small(n) |-> SumStep(F, h, T)]
           N == Cardinality(E)
           G == {n \in 0..N : \E F : Good(n, F)}
<1>1. N \in Nat /\ \A T \in SUBSET E : IsFiniteSet(T) /\ Cardinality(T) \in Nat /\ Cardinality(T) <= N
  BY FS_CardinalityType, FS_Subset
<1>2. \A T \in SUBSET E : T # {} => /\ Chosen(T) \in T /\ Cardinality(T \ {Chosen(T)}) = Cardinality(T) - 1
                                    /\ Cardinality(T) > 0
  <2> SUFFICES ASSUME NEW T \in SUBSET E, T # {}
               PROVE  Chosen(T) \in T /\ Cardinality(T \ {Chosen(T)}) = Cardinality(T) - 1 /\ Cardinality(T) > 0
    OBVIOUS
  <2>1. Chosen(T) \in T /\ IsFiniteSet(T)
    BY <1>1, ChosenIn
  <2>2. Cardinality(T) # 0
    BY <2>1, FS_EmptySet
  <2> QED BY <1>1, <2>1, <2>2, FS_RemoveElement
<1>3. 0 \in G
  <2> DEFINE F == [T \in Small(0) |-> 0]
  <2>1. \A T \in Small(0) : T = {}
    BY <1>1, FS_EmptySet
  <2>2. \A T \in Small(0) : SumStep(F, h, T) = 0
    BY <2>1 DEF SumStep
  <2>3. Good(0, F)
    BY <2>2
  <2> HIDE DEF F, Good
  <2> QED BY <1>1, <2>3
<1>4. ASSUME NEW n \in 1..N, n - 1 \in G PROVE n \in G
  <2>1. PICK F0 : Good(n - 1, F0)
    BY <1>4
  <2> DEFINE F == [T \in Small(n) |-> SumStep(F0, h, T)]
  <2>2. \A T \in Small(n - 1) : F[T] = F0[T]
    <3>1. \A T \in Small(n - 1) : T \in Small(n)
      BY <1>1
    <3>2. \A T \in Small(n - 1) : F0[T] = SumStep(F0, h, T)
      BY <2>1
    <3>3. \A T \in Small(n) : F[T] = SumStep(F0, h, T)
      OBVIOUS
    <3> HIDE DEF F, Small
    <3> QED BY <3>1, <3>2, <3>3
  <2>3. ASSUME NEW T \in Small(n) PROVE SumStep(F0, h, T) = SumStep(F, h, T)
    <3>1. CASE T = {}
      BY <3>1 DEF SumStep
    <3>2. CASE T # {}
      <4>1. T \ {Chosen(T)} \in Small(n - 1)
        BY <1>1, <1>2, <3>2
      <4> HIDE DEF F
      <4> QED BY <2>2, <3>2, <4>1 DEF SumStep
    <3> QED BY <3>1, <3>2
  <2>4. Good(n, F)
    BY <2>3
  <2> HIDE DEF F, Good
  <2> QED BY <2>4
<1>5. N \in G
  <2>1. 0..N \subseteq G
    <3> HIDE DEF G, N
    <3> QED BY <1>1, <1>3, <1>4, UpTo
  <2> HIDE DEF G
  <2> QED BY <1>1, <2>1
<1>6. PICK F : Good(N, F)
  BY <1>5
<1>7. Small(N) = SUBSET E
  BY <1>1
<1>8. F = [T \in SUBSET E |-> SumStep(F, h, T)]
  BY <1>6, <1>7
<1> QED BY <1>8

LEMMA TotalIs ==
  ASSUME NEW h, NEW E, IsFiniteSet(E)
  PROVE  \E F : Sums(F, h, E) /\ Total(h, E) = F[E]
<1>1. PICK F0 : F0 = [T \in SUBSET E |-> SumStep(F0, h, T)]
  BY SumsExist
<1>2. Total(h, E) = (CHOOSE F : F = [T \in SUBSET E |-> SumStep(F, h, T)])[E]
  BY Zenon DEF Total, MapThenSumSet, MapThenFoldSet, SumStep, Chosen
<1>3. PICK F : F = [T \in SUBSET E |-> SumStep(F, h, T)] /\ Total(h, E) = F[E]
  BY <1>1, <1>2, Zenon
<1>4. Sums(F, h, E)
  BY <1>3 DEF Sums
<1> QED BY <1>3, <1>4

LEMMA TotalOfNone == ASSUME NEW h PROVE Total(h, {}) = 0
<1>1. PICK F : Sums(F, h, {}) /\ Total(h, {}) = F[{}]
  BY TotalIs, FS_EmptySet
<1> QED BY <1>1 DEF Sums, SumStep

\* One entry more, and the rest of the history as it was.
SameOn(E, h, h2) == \A k \in E : h2[k].change = h[k].change /\ h[k].change \in Int

LEMMA TotalOfOneMore ==
  ASSUME NEW h, NEW h2, NEW E, NEW n, IsFiniteSet(E), n \notin E,
         SameOn(E, h, h2), h2[n].change \in Int
  PROVE  Total(h2, E \cup {n}) = Total(h, E) + h2[n].change /\ Total(h, E) \in Int
<1>1. IsFiniteSet(E \cup {n})
  BY FS_AddElement
<1>2. PICK F : Sums(F, h, E) /\ Total(h, E) = F[E]
  BY TotalIs
<1>3. PICK F2 : Sums(F2, h2, E \cup {n}) /\ Total(h2, E \cup {n}) = F2[E \cup {n}]
  BY <1>1, TotalIs
<1>4. F2[E] = F[E]
  BY <1>2, <1>3, SumsAgree DEF SameOn
<1>5. F2[E \cup {n}] = h2[n].change + F2[(E \cup {n}) \ {n}] /\ (E \cup {n}) \ {n} = E
  <2>1. \A k \in E \cup {n} : h2[k].change \in Int
    BY DEF SameOn
  <2>2. (E \cup {n}) \ {n} = E
    OBVIOUS
  <2> QED BY <1>1, <1>3, <2>1, <2>2, SumsAnyOrder
<1>6. F[E] \in Int
  BY <1>2, SumsInt DEF SameOn
<1>7. F2[E \cup {n}] = h2[n].change + F[E]
  BY <1>4, <1>5
<1>8. h2[n].change + F[E] = F[E] + h2[n].change
  BY <1>6
<1> QED BY <1>2, <1>3, <1>6, <1>7, <1>8

LEMMA TotalSame ==
  ASSUME NEW h, NEW h2, NEW E, IsFiniteSet(E), \A k \in E : h[k].change = h2[k].change
  PROVE  Total(h, E) = Total(h2, E)
<1>1. PICK F : Sums(F, h, E) /\ Total(h, E) = F[E]
  BY TotalIs
<1>2. PICK F2 : Sums(F2, h2, E) /\ Total(h2, E) = F2[E]
  BY TotalIs
<1> QED BY <1>1, <1>2, SumsAgree

Result  == {"win", "draw", "loss"}
HistRec == [user: RatedUser, game: RatedGame, change: Int, result: Result]
\* The entries of u in a history h, those with a result, and a row that they give.
Ent(h, u) == {k \in DOMAIN h : h[k].user = u}
Won(h, u, x) == {k \in Ent(h, u) : h[k].result = x}
Agrees(row, h, u) ==
  /\ row.score = MinScore + Total(h, Ent(h, u)) /\ row.played = Cardinality(Ent(h, u))
  /\ row.won = Cardinality(Won(h, u, "win")) /\ row.lost = Cardinality(Won(h, u, "loss"))
  /\ row.draw = Cardinality(Won(h, u, "draw"))

LEMMA EntFinite ==
  ASSUME NEW h \in Seq(HistRec), NEW u
  PROVE  /\ IsFiniteSet(Ent(h, u)) /\ Cardinality(Ent(h, u)) \in Nat /\ Ent(h, u) \subseteq 1..Len(h)
         /\ \A x : IsFiniteSet(Won(h, u, x)) /\ Cardinality(Won(h, u, x)) \in Nat
         /\ \A k \in Ent(h, u) : h[k] \in HistRec /\ h[k].change \in Int
<1>1. DOMAIN h = 1..Len(h) /\ Len(h) \in Nat
  OBVIOUS
<1>2. IsFiniteSet(1..Len(h))
  BY <1>1, FS_Interval
<1>3. Ent(h, u) \in SUBSET (1..Len(h)) /\ \A x : Won(h, u, x) \in SUBSET Ent(h, u)
  BY <1>1 DEF Ent, Won
<1>4. IsFiniteSet(Ent(h, u)) /\ \A x : IsFiniteSet(Won(h, u, x))
  BY <1>2, <1>3, FS_Subset
<1>5. \A k \in Ent(h, u) : h[k] \in HistRec
  BY <1>1, <1>3
<1>6. \A k \in Ent(h, u) : h[k].change \in Int
  BY <1>5 DEF HistRec
<1> QED BY <1>3, <1>4, <1>5, <1>6, FS_CardinalityType

\* h2 is h with the entry x.
Longer(h, x, h2) == h2 = Append(h, x)

LEMMA Appended ==
  ASSUME NEW h \in Seq(HistRec), NEW x \in HistRec, NEW h2, Longer(h, x, h2)
  PROVE  /\ h2 \in Seq(HistRec) /\ Len(h) \in Nat
         /\ DOMAIN h2 = 1..(Len(h) + 1) /\ h2[Len(h) + 1] = x
         /\ \A k \in 1..Len(h) : h2[k] = h[k]
         /\ DOMAIN h = 1..Len(h)
<1>1. h2 \in Seq(HistRec)
  BY DEF Longer
<1>2. Len(h) \in Nat /\ Len(h2) = Len(h) + 1 /\ h2[Len(h) + 1] = x
  BY DEF Longer
<1>3. \A k \in 1..Len(h) : h2[k] = h[k]
  BY DEF Longer
<1>4. DOMAIN h2 = 1..Len(h2) /\ DOMAIN h = 1..Len(h)
  BY <1>1
<1> QED BY <1>1, <1>2, <1>3, <1>4

\* An entry of somebody else.
LEMMA OthersEntry ==
  ASSUME NEW h \in Seq(HistRec), NEW x \in HistRec, NEW u, x.user # u, NEW row, Agrees(row, h, u),
         NEW h2, Longer(h, x, h2)
  PROVE  Agrees(row, h2, u)
<1>1. /\ DOMAIN h2 = 1..(Len(h) + 1) /\ h2[Len(h) + 1] = x /\ DOMAIN h = 1..Len(h)
      /\ \A k \in 1..Len(h) : h2[k] = h[k]
      /\ Len(h) \in Nat
  BY Appended
<1>2. \A k \in 1..(Len(h) + 1) : k \in 1..Len(h) \/ k = Len(h) + 1
  BY <1>1
<1>3. Ent(h2, u) = Ent(h, u)
  BY <1>1, <1>2 DEF Ent
<1>4. \A r : Won(h2, u, r) = Won(h, u, r)
  BY <1>1, <1>3, EntFinite DEF Won
<1>5. Total(h2, Ent(h, u)) = Total(h, Ent(h, u))
  <2>1. IsFiniteSet(Ent(h, u)) /\ \A k \in Ent(h, u) : h[k].change = h2[k].change
    BY <1>1, EntFinite
  <2> QED BY <2>1, TotalSame
<1> QED BY <1>3, <1>4, <1>5 DEF Agrees

\* An entry of his own.
LEMMA OwnEntry ==
  ASSUME NEW h \in Seq(HistRec), NEW x \in HistRec, NEW u, x.user = u,
         NEW row, Agrees(row, h, u),
         NEW h2, Longer(h, x, h2),
         NEW new, new.score = row.score + x.change, new.played = row.played + 1,
         new.won = IF x.result = "win" THEN row.won + 1 ELSE row.won,
         new.lost = IF x.result = "loss" THEN row.lost + 1 ELSE row.lost,
         new.draw = IF x.result = "draw" THEN row.draw + 1 ELSE row.draw
  PROVE  Agrees(new, h2, u)
<1>0. PICK n : n = Len(h) + 1
  OBVIOUS
<1>1. /\ DOMAIN h2 = 1..n /\ h2[n] = x /\ DOMAIN h = 1..Len(h)
      /\ \A k \in 1..Len(h) : h2[k] = h[k]
      /\ Len(h) \in Nat
  BY <1>0, Appended
<1>2. \A k \in 1..n : k \in 1..Len(h) \/ k = n
  BY <1>0, <1>1
<1>3. n \notin 1..Len(h) /\ n \in 1..n /\ 1..Len(h) \subseteq 1..n
  BY <1>0, <1>1
<1>4. Ent(h2, u) = Ent(h, u) \cup {n} /\ n \notin Ent(h, u)
  BY <1>1, <1>2, <1>3 DEF Ent
<1>5. \A r : Won(h2, u, r) = (IF x.result = r THEN Won(h, u, r) \cup {n} ELSE Won(h, u, r))
             /\ n \notin Won(h, u, r)
  BY <1>1, <1>4, EntFinite DEF Won
<1>6. \A r : Cardinality(Won(h2, u, r)) = (IF x.result = r THEN Cardinality(Won(h, u, r)) + 1
                                                           ELSE Cardinality(Won(h, u, r)))
  <2>1. \A S : IsFiniteSet(S) /\ n \notin S => Cardinality(S \cup {n}) = Cardinality(S) + 1
    BY FS_AddElement
  <2>2. \A r : IsFiniteSet(Won(h, u, r))
    BY EntFinite
  <2> QED BY <1>5, <2>1, <2>2
<1>7. Cardinality(Ent(h2, u)) = Cardinality(Ent(h, u)) + 1
  <2>1. IsFiniteSet(Ent(h, u))
    BY EntFinite
  <2>2. Cardinality(Ent(h, u) \cup {n}) = Cardinality(Ent(h, u)) + 1
    BY <1>4, <2>1, FS_AddElement
  <2> QED BY <1>4, <2>2
<1>8. Total(h2, Ent(h2, u)) = Total(h, Ent(h, u)) + x.change /\ Total(h, Ent(h, u)) \in Int
  <2>1. /\ \A k \in Ent(h, u) : h2[k].change = h[k].change /\ h[k].change \in Int
        /\ IsFiniteSet(Ent(h, u))
    BY <1>1, EntFinite
  <2>2. h2[n].change \in Int
    BY <1>1 DEF HistRec
  <2>3. /\ Total(h2, Ent(h, u) \cup {n}) = Total(h, Ent(h, u)) + h2[n].change
        /\ Total(h, Ent(h, u)) \in Int
    <3>1. SameOn(Ent(h, u), h, h2)
      BY <2>1 DEF SameOn
    <3> QED BY <1>4, <2>1, <2>2, <3>1, TotalOfOneMore
  <2> QED BY <1>1, <1>4, <2>3
<1>9. new.score = MinScore + Total(h2, Ent(h2, u))
  <2>1. x.change \in Int /\ MinScore \in Int
    BY RatingsAssumption DEF HistRec
  <2>2. PICK t \in Int, c \in Int : t = Total(h, Ent(h, u)) /\ c = x.change
    BY <1>8, <2>1
  <2>3. new.score = (MinScore + t) + c /\ Total(h2, Ent(h2, u)) = t + c
    BY <1>8, <2>2 DEF Agrees
  <2>4. (MinScore + t) + c = MinScore + (t + c)
    BY <2>1
  <2> QED BY <2>3, <2>4
<1> QED BY <1>6, <1>7, <1>9 DEF Agrees

LEMMA ScoredIs ==
  ASSUME NEW r \in Row, NEW elo \in Nat
  PROVE  LET new == Scored(r, elo) IN
         /\ new \in Row /\ new.score = elo /\ new.played = r.played
         /\ new.won = r.won /\ new.lost = r.lost /\ new.draw = r.draw
<1>1. PICK y : y = [r EXCEPT !.score = elo]
  OBVIOUS
<1>2. y \in Row /\ y.score = elo /\ y.best = r.best /\ y.played = r.played
      /\ y.won = r.won /\ y.lost = r.lost /\ y.draw = r.draw
  BY <1>1 DEF Row
<1>3. PICK b \in Nat : b = IF r.best < elo THEN elo ELSE r.best
  BY DEF Row
<1>4. PICK new : new = [y EXCEPT !.best = b]
  OBVIOUS
<1>5. new \in Row /\ new.score = y.score /\ new.played = y.played
      /\ new.won = y.won /\ new.lost = y.lost /\ new.draw = y.draw
  BY <1>2, <1>4 DEF Row
<1>6. Scored(r, elo) = new
  BY <1>1, <1>3, <1>4, Zenon DEF Scored
<1> QED BY <1>2, <1>5, <1>6

\* Who has won, and the score of the first and of the second player.
WonBy(e, first) == e.outcome # "1/2" /\ (e.outcome = "1-0") = (e.p1White = first)
ScoreOf(e, first) == IF first THEN Score1(e) ELSE 1000 - Score1(e)

\* updateGameStats counts one game more, in one of three counters.
LEMMA StatsIs ==
  ASSUME NEW r \in Row, NEW e \in Endings, NEW first \in BOOLEAN
  PROVE  LET new == Stats(r, e, first) IN
         /\ new \in Row /\ new.score = r.score /\ new.played = r.played + 1
         /\ new.draw = IF e.outcome = "1/2" THEN r.draw + 1 ELSE r.draw
         /\ new.won = IF WonBy(e, first) THEN r.won + 1 ELSE r.won
         /\ new.lost = IF e.outcome # "1/2" /\ ~WonBy(e, first) THEN r.lost + 1 ELSE r.lost
<1> DEFINE mine == (e.outcome = "1-0") = (e.p1White = first)
<1>1. PICK y : y = [r EXCEPT !.played = r.played + 1]
  OBVIOUS
<1>2. y \in Row /\ y.score = r.score /\ y.played = r.played + 1
      /\ y.won = r.won /\ y.lost = r.lost /\ y.draw = r.draw
  BY <1>1 DEF Row
<1>3. CASE e.outcome = "1/2"
  <2>1. PICK new : new = [y EXCEPT !.draw = r.draw + 1]
    OBVIOUS
  <2>2. new \in Row /\ new.score = r.score /\ new.played = r.played + 1
        /\ new.won = r.won /\ new.lost = r.lost /\ new.draw = r.draw + 1
    BY <1>2, <2>1 DEF Row
  <2>3. Stats(r, e, first) = [r EXCEPT !.played = @ + 1, !.draw = @ + 1]
    BY <1>3 DEF Stats
  <2>4. Stats(r, e, first) = new
    BY <1>1, <2>1, <2>3, Zenon
  <2> QED BY <1>3, <2>2, <2>4 DEF WonBy
<1>4. CASE e.outcome # "1/2" /\ mine
  <2>1. PICK new : new = [y EXCEPT !.won = r.won + 1]
    OBVIOUS
  <2>2. new \in Row /\ new.score = r.score /\ new.played = r.played + 1
        /\ new.won = r.won + 1 /\ new.lost = r.lost /\ new.draw = r.draw
    BY <1>2, <2>1 DEF Row
  <2>3. Stats(r, e, first) = [r EXCEPT !.played = @ + 1, !.won = @ + 1]
    BY <1>4 DEF Stats
  <2>4. Stats(r, e, first) = new
    BY <1>1, <2>1, <2>3, Zenon
  <2> QED BY <1>4, <2>2, <2>4 DEF WonBy
<1>5. CASE e.outcome # "1/2" /\ ~mine
  <2>1. PICK new : new = [y EXCEPT !.lost = r.lost + 1]
    OBVIOUS
  <2>2. new \in Row /\ new.score = r.score /\ new.played = r.played + 1
        /\ new.won = r.won /\ new.lost = r.lost + 1 /\ new.draw = r.draw
    BY <1>2, <2>1 DEF Row
  <2>3. Stats(r, e, first) = [r EXCEPT !.played = @ + 1, !.lost = @ + 1]
    BY <1>5 DEF Stats
  <2>4. Stats(r, e, first) = new
    BY <1>1, <2>1, <2>3, Zenon
  <2> QED BY <1>5, <2>2, <2>4 DEF WonBy
<1> QED BY <1>3, <1>4, <1>5

\* Both ways to tell who won agree: the score that goes into CalculateElo and
\* what updateGameStats looks at.
LEMMA SameResult ==
  ASSUME NEW e \in Endings, NEW first \in BOOLEAN
  PROVE  /\ ScoreOf(e, first) \in 0..1000 /\ ResultOf(ScoreOf(e, first)) \in Result
         /\ (e.outcome = "1/2") <=> (ResultOf(ScoreOf(e, first)) = "draw")
         /\ WonBy(e, first) <=> (ResultOf(ScoreOf(e, first)) = "win")
<1>1. e.outcome \in {"1-0", "0-1", "1/2"} /\ e.p1White \in BOOLEAN
  BY DEF Endings
<1>2. ResultOf(500) = "draw" /\ ResultOf(1000) = "win" /\ ResultOf(0) = "loss"
  BY DEF ResultOf
<1>3. 1000 - 500 = 500 /\ 1000 - 1000 = 0 /\ 1000 - 0 = 1000
  OBVIOUS
<1>4. CASE e.outcome = "1/2"
  <2>1. Score1(e) = 500
    BY <1>4 DEF Score1
  <2>2. ScoreOf(e, first) = 500 /\ ~WonBy(e, first)
    BY <1>3, <1>4, <2>1 DEF ScoreOf, WonBy
  <2> QED BY <1>2, <1>4, <2>2 DEF Result
<1>5. CASE e.outcome # "1/2" /\ (e.outcome = "1-0") = e.p1White
  <2>1. Score1(e) = 1000
    BY <1>5 DEF Score1
  <2>2. ScoreOf(e, first) = (IF first THEN 1000 ELSE 0) /\ (WonBy(e, first) <=> first)
    BY <1>1, <1>3, <1>5, <2>1 DEF ScoreOf, WonBy
  <2> QED BY <1>2, <1>5, <2>2 DEF Result
<1>6. CASE e.outcome # "1/2" /\ ~((e.outcome = "1-0") = e.p1White)
  <2>1. Score1(e) = 0
    BY <1>6 DEF Score1
  <2>2. ScoreOf(e, first) = (IF first THEN 0 ELSE 1000) /\ (WonBy(e, first) <=> ~first)
    BY <1>1, <1>3, <1>6, <2>1 DEF ScoreOf, WonBy
  <2> QED BY <1>2, <1>6, <2>2 DEF Result
<1> QED BY <1>4, <1>5, <1>6

LEMMA EloIs ==
  ASSUME DOMAIN Expected = Int, NEW s1 \in Nat, NEW s2 \in Nat, NEW score \in 0..1000
  PROVE  CalculateElo(s1, s2, score) \in Nat /\ CalculateElo(s1, s2, score) >= MinScore
<1>1. KFactor(s1) \in Nat /\ MinScore \in Nat
  BY RatingsAssumption DEF KFactor
<1>2. s2 - s1 \in Int /\ Expected[s2 - s1] \in Int
  <2>1. PICK d \in Int : d = s2 - s1
    OBVIOUS
  <2>2. Expected[d] \in 0..1000
    BY RatingsAssumption
  <2> QED BY <2>1, <2>2
<1>3. PICK new \in Int : new = 1000 * s1 + KFactor(s1) * (score - Expected[s2 - s1])
  <2>1. \A a \in Int, b \in Int, c \in Int, d \in Int : 1000 * a + b * (c - d) \in Int
    OBVIOUS
  <2> QED BY <1>1, <1>2, <2>1
<1>4. CalculateElo(s1, s2, score) = IF new < 1000 * MinScore THEN MinScore ELSE new \div 1000
  BY <1>3 DEF CalculateElo
<1>5. new >= 1000 * MinScore => new \div 1000 \in Nat /\ new \div 1000 >= MinScore
  BY <1>1
<1> QED BY <1>1, <1>4, <1>5

\* The row after a game is the one that the history with the game's entry gives.
LEMMA RowAfterGame ==
  ASSUME NEW e \in Endings, NEW first \in BOOLEAN, NEW r \in Row, NEW elo \in Nat,
         NEW x \in HistRec, x.change = elo - r.score,
         x.result = ResultOf(ScoreOf(e, first)),
         NEW h \in Seq(HistRec), NEW h2, Longer(h, x, h2), Agrees(r, h, x.user)
  PROVE  Agrees(Stats(Scored(r, elo), e, first), h2, x.user)
<1>1. PICK s \in Row : /\ s = Scored(r, elo) /\ s.score = elo /\ s.played = r.played
                       /\ s.won = r.won /\ s.lost = r.lost /\ s.draw = r.draw
  BY ScoredIs
<1>2. PICK new \in Row :
        /\ new = Stats(s, e, first) /\ new.score = s.score /\ new.played = s.played + 1
        /\ new.draw = IF e.outcome = "1/2" THEN s.draw + 1 ELSE s.draw
        /\ new.won = IF WonBy(e, first) THEN s.won + 1 ELSE s.won
        /\ new.lost = IF e.outcome # "1/2" /\ ~WonBy(e, first) THEN s.lost + 1 ELSE s.lost
  BY StatsIs
<1>3. /\ x.result \in Result
      /\ (e.outcome = "1/2") <=> (x.result = "draw")
      /\ WonBy(e, first) <=> (x.result = "win")
  BY SameResult
<1>4. (e.outcome # "1/2" /\ ~WonBy(e, first)) <=> (x.result = "loss")
  BY <1>3 DEF Result
<1>5. new.score = r.score + x.change
  <2>1. PICK a \in Int, b \in Int : a = elo /\ b = r.score
    BY DEF Row
  <2>2. a = b + (a - b)
    OBVIOUS
  <2> QED BY <1>1, <1>2, <2>1, <2>2
<1>6. /\ new.played = r.played + 1
      /\ new.won = IF x.result = "win" THEN r.won + 1 ELSE r.won
      /\ new.lost = IF x.result = "loss" THEN r.lost + 1 ELSE r.lost
      /\ new.draw = IF x.result = "draw" THEN r.draw + 1 ELSE r.draw
  BY <1>1, <1>2, <1>3, <1>4
<1>7. Agrees(new, h2, x.user)
  BY <1>5, <1>6, OwnEntry
<1> QED BY <1>1, <1>2, <1>7

-----------------------------------------------------------------------------
(* Ratings: the invariant *)

InstRec == [pc: {"idle", "second", "update"}, game: RatedGame \cup {NoRated}, r1: Row, r2: Row]
RatingsShape ==
  /\ endings \in [RatedGame -> Endings]
  /\ deliveries \in [RatedGame -> 0..MaxDeliveries]
  /\ inst \in [Instance -> InstRec]
  /\ rows \in [RatedUser -> Row]
  /\ \A u \in RatedUser : rows[u].score >= MinScore
  /\ leaked \in [Instance -> 0..MaxConns] /\ raced \subseteq RatedUser
  /\ history \in Seq(HistRec)

RowsAgree == \A u \in RatedUser \ raced : Agrees(rows[u], history, u)

\* A row in hand is the current one, unless its user has been raced.
HoldsCurrent(r) ==
  r.pc # "idle" =>
    /\ r.game \in RatedGame
    /\ endings[r.game].p1 \notin raced => r.r1 = rows[endings[r.game].p1]
    /\ r.pc = "update" /\ endings[r.game].p2 \notin raced => r.r2 = rows[endings[r.game].p2]
RowsInHand == \A i \in Instance : HoldsCurrent(inst[i])

RatingsInv == RatingsShape /\ RowsAgree /\ RowsInHand

LEMMA NewPlayerIs == NewPlayer \in Row /\ Resting \in InstRec /\ Resting.pc = "idle"
<1>1. MinScore \in Nat
  BY RatingsAssumption
<1>2. NewPlayer \in Row
  BY <1>1 DEF NewPlayer, Row
<1>3. Resting \in InstRec
  BY <1>2 DEF Resting, InstRec
<1> QED BY <1>2, <1>3 DEF Resting

LEMMA RatingsStart == RatingsInit => RatingsInv
<1> SUFFICES ASSUME RatingsInit PROVE RatingsInv
  OBVIOUS
<1>1. MinScore \in Nat /\ MaxDeliveries \in Nat /\ MaxConns \in Nat
  BY RatingsAssumption
<1>2. history \in Seq(HistRec)
  <2>1. <<>> \in Seq(HistRec)
    OBVIOUS
  <2> QED BY <2>1 DEF RatingsInit
<1>3. RatingsShape
  BY <1>1, <1>2, NewPlayerIs DEF RatingsInit, RatingsShape, NewPlayer
<1>4. ASSUME NEW u PROVE Agrees(NewPlayer, <<>>, u)
  <2>1. Ent(<<>>, u) = {} /\ \A x : Won(<<>>, u, x) = {}
    BY DEF Ent, Won
  <2>2. Total(<<>>, {}) = 0 /\ Cardinality({}) = 0
    BY TotalOfNone, FS_EmptySet
  <2>3. /\ NewPlayer.score = MinScore /\ NewPlayer.played = 0 /\ NewPlayer.won = 0
        /\ NewPlayer.lost = 0 /\ NewPlayer.draw = 0
    BY DEF NewPlayer
  <2>4. MinScore + 0 = MinScore
    BY <1>1
  <2> QED BY <2>1, <2>2, <2>3, <2>4 DEF Agrees
<1>5. RowsAgree
  BY <1>4 DEF RatingsInit, RowsAgree
<1>6. RowsInHand
  BY NewPlayerIs DEF RatingsInit, RowsInHand, HoldsCurrent
<1> QED BY <1>3, <1>5, <1>6 DEF RatingsInv

LEMMA ReadFirstKeeps ==
  ASSUME RatingsInv, NEW i \in Instance, NEW g \in RatedGame, ReadFirst(i, g)
  PROVE  RatingsInv'
<1> USE DEF RatingsInv
<1>1. endings[g] \in Endings /\ endings[g].p1 \in RatedUser /\ rows[endings[g].p1] \in Row
  BY DEF RatingsShape, Endings
<1>2. UNCHANGED <<endings, rows, history, leaked, raced>>
  BY DEF ReadFirst
<1>3. PICK r1 \in Row : r1 = rows[endings[g].p1]
  BY <1>1
<1>4. PICK y : y = [Resting EXCEPT !.pc = "second"]
  OBVIOUS
<1>5. y \in InstRec /\ y.pc = "second" /\ y.r2 = NewPlayer
  BY <1>4, NewPlayerIs DEF Resting, InstRec
<1>6. PICK z : z = [y EXCEPT !.game = g]
  OBVIOUS
<1>7. z \in InstRec /\ z.pc = "second" /\ z.game = g
  BY <1>5, <1>6 DEF InstRec
<1>8. PICK w : w = [z EXCEPT !.r1 = r1]
  OBVIOUS
<1>9. w \in InstRec /\ w.pc = "second" /\ w.game = g /\ w.r1 = r1
  BY <1>7, <1>8 DEF InstRec
<1>10. w = [Resting EXCEPT !.pc = "second", !.game = g, !.r1 = rows[endings[g].p1]]
  BY <1>3, <1>4, <1>6, <1>8, Zenon
<1>11. inst' = [inst EXCEPT ![i] = w] \/ inst' = inst
  BY <1>10 DEF ReadFirst
<1>12. deliveries' \in [RatedGame -> 0..MaxDeliveries]
  <2>1. deliveries[g] \in 0..MaxDeliveries /\ deliveries[g] < MaxDeliveries /\ MaxDeliveries \in Nat
    BY RatingsAssumption DEF RatingsShape, ReadFirst
  <2>2. deliveries' = [deliveries EXCEPT ![g] = deliveries[g] + 1]
    BY DEF ReadFirst
  <2> QED BY <2>1, <2>2 DEF RatingsShape
<1>13. RatingsShape'
  <2>1. inst' \in [Instance -> InstRec]
    BY <1>9, <1>11 DEF RatingsShape
  <2> QED BY <1>2, <1>12, <2>1 DEF RatingsShape
<1>14. RowsAgree'
  BY <1>2 DEF RowsAgree
<1>15. RowsInHand'
  <2>1. \A r : HoldsCurrent(r) => HoldsCurrent(r)'
    BY <1>2 DEF HoldsCurrent
  <2>2. HoldsCurrent(w)'
    BY <1>2, <1>3, <1>9 DEF HoldsCurrent
  <2>3. ASSUME NEW j \in Instance, NEW q, q = inst'[j] PROVE HoldsCurrent(q)'
    <3>1. q = w \/ q = inst[j]
      BY <1>11, <2>3 DEF RatingsShape
    <3>2. PICK r : r = inst[j] /\ HoldsCurrent(r)
      BY DEF RowsInHand
    <3> QED BY <2>1, <2>2, <2>3, <3>1, <3>2
  <2> QED BY <2>3 DEF RowsInHand, HoldsCurrent
<1> QED BY <1>13, <1>14, <1>15

LEMMA ReadSecondKeeps ==
  ASSUME RatingsInv, NEW i \in Instance, ReadSecond(i)
  PROVE  RatingsInv'
<1> USE DEF RatingsInv
<1>1. PICK r \in InstRec : r = inst[i] /\ r.pc = "second" /\ r.game \in RatedGame /\ HoldsCurrent(r)
  BY DEF RatingsShape, RowsInHand, ReadSecond, HoldsCurrent
<1>2. UNCHANGED <<endings, deliveries, rows, history, leaked, raced>>
  BY DEF ReadSecond
<1>3. PICK r2 \in Row : r2 = rows[endings[r.game].p2]
  <2>1. endings[r.game].p2 \in RatedUser
    BY <1>1 DEF RatingsShape, Endings
  <2> QED BY <2>1 DEF RatingsShape
<1>4. PICK y : y = [r EXCEPT !.pc = "update"]
  OBVIOUS
<1>5. y \in InstRec /\ y.pc = "update" /\ y.game = r.game /\ y.r1 = r.r1
  BY <1>4 DEF InstRec
<1>6. PICK w : w = [y EXCEPT !.r2 = r2]
  OBVIOUS
<1>7. w \in InstRec /\ w.pc = "update" /\ w.game = r.game /\ w.r1 = r.r1 /\ w.r2 = r2
  BY <1>5, <1>6 DEF InstRec
<1>8. inst' = [inst EXCEPT ![i] = w] \/ inst' = [inst EXCEPT ![i] = Resting]
  <2>1. CASE inst' = [inst EXCEPT ![i].pc = "update", ![i].r2 = rows[endings[inst[i].game].p2]]
    <3>1. PICK m : m = [inst EXCEPT ![i].pc = "update"]
      OBVIOUS
    <3>2. m = [inst EXCEPT ![i] = y]
      BY <1>1, <1>4, <3>1, Zenon
    <3>3. m \in [Instance -> InstRec] /\ m[i] = y
      BY <1>5, <3>2 DEF RatingsShape
    <3>4. inst' = [m EXCEPT ![i].r2 = r2]
      BY <1>1, <1>3, <2>1, <3>1, Zenon
    <3>5. inst' = [m EXCEPT ![i] = w]
      BY <1>6, <3>3, <3>4, Zenon
    <3>6. [m EXCEPT ![i] = w] = [inst EXCEPT ![i] = w]
      BY <3>2 DEF RatingsShape
    <3> QED BY <3>5, <3>6
  <2> QED BY <2>1 DEF ReadSecond
<1>9. RatingsShape'
  <2>1. inst' \in [Instance -> InstRec]
    BY <1>7, <1>8, NewPlayerIs DEF RatingsShape
  <2> QED BY <1>2, <2>1 DEF RatingsShape
<1>10. RowsAgree'
  BY <1>2 DEF RowsAgree
<1>11. RowsInHand'
  <2>1. \A q : HoldsCurrent(q) => HoldsCurrent(q)'
    BY <1>2 DEF HoldsCurrent
  <2>2. HoldsCurrent(w)' /\ HoldsCurrent(Resting)'
    BY <1>1, <1>2, <1>3, <1>7, NewPlayerIs DEF HoldsCurrent
  <2>3. ASSUME NEW j \in Instance, NEW q, q = inst'[j] PROVE HoldsCurrent(q)'
    <3>1. q = w \/ q = Resting \/ q = inst[j]
      BY <1>8, <2>3 DEF RatingsShape
    <3>2. PICK p : p = inst[j] /\ HoldsCurrent(p)
      BY DEF RowsInHand
    <3> QED BY <2>1, <2>2, <3>1, <3>2
  <2> QED BY <2>3 DEF RowsInHand, HoldsCurrent
<1> QED BY <1>9, <1>10, <1>11

\* The score of the second player, and the new scores that a game gives.
Score2(e) == 1000 - Score1(e)

LEMMA ScoresOf ==
  ASSUME DOMAIN Expected = Int, NEW e \in Endings, NEW r1 \in Row, NEW r2 \in Row
  PROVE  /\ CalculateElo(r1.score, r2.score, Score1(e)) \in Nat
         /\ CalculateElo(r1.score, r2.score, Score1(e)) >= MinScore
         /\ CalculateElo(r2.score, r1.score, Score2(e)) \in Nat
         /\ CalculateElo(r2.score, r1.score, Score2(e)) >= MinScore
         /\ ResultOf(Score1(e)) \in Result /\ ResultOf(Score2(e)) \in Result
<1>1. PICK one \in BOOLEAN, two \in BOOLEAN : one = TRUE /\ two = FALSE
  OBVIOUS
<1>2. ScoreOf(e, one) = Score1(e) /\ ScoreOf(e, two) = Score2(e)
  BY <1>1 DEF ScoreOf, Score2
<1>3. Score1(e) \in 0..1000 /\ ResultOf(Score1(e)) \in Result
  <2>1. ScoreOf(e, one) \in 0..1000 /\ ResultOf(ScoreOf(e, one)) \in Result
    BY SameResult
  <2> QED BY <1>2, <2>1
<1>4. Score2(e) \in 0..1000 /\ ResultOf(Score2(e)) \in Result
  <2>1. ScoreOf(e, two) \in 0..1000 /\ ResultOf(ScoreOf(e, two)) \in Result
    BY SameResult
  <2> QED BY <1>2, <2>1
<1>5. r1.score \in Nat /\ r2.score \in Nat
  BY DEF Row
<1>6. \A s \in Nat, t \in Nat, p \in 0..1000 :
        CalculateElo(s, t, p) \in Nat /\ CalculateElo(s, t, p) >= MinScore
  BY ZenonT(30), EloIs
<1>7. /\ CalculateElo(r1.score, r2.score, Score1(e)) \in Nat
      /\ CalculateElo(r1.score, r2.score, Score1(e)) >= MinScore
  BY <1>3, <1>5, <1>6, ZenonT(30)
<1>8. /\ CalculateElo(r2.score, r1.score, Score2(e)) \in Nat
      /\ CalculateElo(r2.score, r1.score, Score2(e)) >= MinScore
  BY <1>4, <1>5, <1>6, ZenonT(30)
<1> QED BY <1>3, <1>4, <1>7, <1>8, ZenonT(30)

\* The two entries of a game.
LEMMA BothRows ==
  ASSUME NEW e \in Endings, NEW r1 \in Row, NEW r2 \in Row, NEW elo1 \in Nat, NEW elo2 \in Nat,
         NEW x1 \in HistRec, x1.user = e.p1, x1.change = elo1 - r1.score,
         x1.result = ResultOf(Score1(e)),
         NEW x2 \in HistRec, x2.user = e.p2, x2.change = elo2 - r2.score,
         x2.result = ResultOf(Score2(e)),
         NEW h \in Seq(HistRec), NEW h1, NEW h2, Longer(h, x1, h1), Longer(h1, x2, h2)
  PROVE  /\ Agrees(r1, h, e.p1) => Agrees(Stats(Scored(r1, elo1), e, TRUE), h2, e.p1)
         /\ Agrees(r2, h, e.p2) => Agrees(Stats(Scored(r2, elo2), e, FALSE), h2, e.p2)
         /\ \A u, row : u # e.p1 /\ u # e.p2 /\ Agrees(row, h, u) => Agrees(row, h2, u)
<1>1. PICK one \in BOOLEAN, two \in BOOLEAN : one = TRUE /\ two = FALSE
  OBVIOUS
<1>2. x1.result = ResultOf(ScoreOf(e, one)) /\ x2.result = ResultOf(ScoreOf(e, two))
  BY <1>1 DEF ScoreOf, Score2
<1>3. h1 \in Seq(HistRec)
  BY Appended
<1>4. x1.user # x2.user
  BY DEF Endings
<1>5. ASSUME Agrees(r1, h, x1.user)
      PROVE  Agrees(Stats(Scored(r1, elo1), e, one), h2, x1.user)
  <2>1. PICK n : n = Stats(Scored(r1, elo1), e, one)
    OBVIOUS
  <2>2. Agrees(n, h1, x1.user)
    BY <1>2, <1>5, <2>1, RowAfterGame
  <2>3. Agrees(n, h2, x1.user)
    BY <1>3, <1>4, <2>2, OthersEntry
  <2> QED BY <2>1, <2>3
<1>6. ASSUME Agrees(r2, h, x2.user)
      PROVE  Agrees(Stats(Scored(r2, elo2), e, two), h2, x2.user)
  <2>1. Agrees(r2, h1, x2.user)
    BY <1>4, <1>6, OthersEntry
  <2> QED BY <1>2, <1>3, <2>1, RowAfterGame
<1>7. ASSUME NEW u, NEW row, u # x1.user, u # x2.user, Agrees(row, h, u)
      PROVE  Agrees(row, h2, u)
  <2>1. Agrees(row, h1, u)
    BY <1>7, OthersEntry
  <2> QED BY <1>3, <1>7, <2>1, OthersEntry
<1> QED BY <1>1, <1>5, <1>6, <1>7

\* What a transaction that is committed writes.
LEMMA CommitKeepsRows ==
  ASSUME DOMAIN Expected = Int, RatingsShape, RowsAgree, NEW i \in Instance, HoldsCurrent(inst[i]),
         inst[i].pc = "update", rows' = Rows(i), history' = history \o Changes(i)
  PROVE  /\ rows' \in [RatedUser -> Row] /\ \A u \in RatedUser : rows'[u].score >= MinScore
         /\ history' \in Seq(HistRec)
         /\ \A u \in RatedUser \ raced : Agrees(rows'[u], history', u)
         /\ \A u \in RatedUser \ ReadBy(i) : rows'[u] = rows[u]
<1>1. PICK r \in InstRec : r = inst[i] /\ r.pc = "update" /\ HoldsCurrent(r)
  BY DEF RatingsShape
<1>2. PICK g \in RatedGame : g = r.game
  BY <1>1 DEF HoldsCurrent
<1>3. PICK e \in Endings : e = endings[g]
  BY DEF RatingsShape
<1>4. PICK p1 \in RatedUser, p2 \in RatedUser : p1 = e.p1 /\ p2 = e.p2 /\ p1 # p2
  BY DEF Endings
<1>5. PICK r1 \in Row, r2 \in Row : r1 = r.r1 /\ r2 = r.r2
  BY DEF InstRec
<1>6. ResultOf(Score1(e)) \in Result /\ ResultOf(Score2(e)) \in Result
  BY ScoresOf
<1>7. PICK elo1 \in Nat, elo2 \in Nat :
        /\ elo1 = CalculateElo(r1.score, r2.score, Score1(e)) /\ elo1 >= MinScore
        /\ elo2 = CalculateElo(r2.score, r1.score, Score2(e)) /\ elo2 >= MinScore
  BY ScoresOf
<1>8. PICK x1 : x1 = [user |-> p1, game |-> g, change |-> elo1 - r1.score,
                      result |-> ResultOf(Score1(e))]
  OBVIOUS
<1>0. PICK x2 : x2 = [user |-> p2, game |-> g, change |-> elo2 - r2.score,
                      result |-> ResultOf(Score2(e))]
  OBVIOUS
<1>9. /\ x1 \in HistRec /\ x1.user = p1 /\ x1.change = elo1 - r1.score /\ x1.result = ResultOf(Score1(e))
      /\ x2 \in HistRec /\ x2.user = p2 /\ x2.change = elo2 - r2.score /\ x2.result = ResultOf(Score2(e))
  <2>1. r1.score \in Int /\ r2.score \in Int
    BY DEF Row
  <2>2. elo1 - r1.score \in Int /\ elo2 - r2.score \in Int
    BY <2>1
  <2> QED BY <1>0, <1>6, <1>8, <2>2 DEF HistRec
<1>10. PICK n1, n2 : n1 = Stats(Scored(r1, elo1), e, TRUE) /\ n2 = Stats(Scored(r2, elo2), e, FALSE)
  OBVIOUS
<1>11. n1 \in Row /\ n1.score = elo1 /\ n2 \in Row /\ n2.score = elo2
  <2>1. Scored(r1, elo1) \in Row /\ Scored(r2, elo2) \in Row
        /\ Scored(r1, elo1).score = elo1 /\ Scored(r2, elo2).score = elo2
    BY ScoredIs
  <2> QED BY <1>10, <2>1, StatsIs
<1>12. /\ endings[inst[i].game] = e /\ inst[i].r1 = r1 /\ inst[i].r2 = r2 /\ inst[i].game = g
       /\ Elo1(i) = elo1 /\ Elo2(i) = elo2
  <2>1. endings[inst[i].game] = e /\ inst[i].r1 = r1 /\ inst[i].r2 = r2 /\ inst[i].game = g
    BY <1>1, <1>2, <1>3, <1>5
  <2>2. Elo1(i) = CalculateElo(r1.score, r2.score, Score1(e))
    BY <2>1 DEF Elo1
  <2>3. Elo2(i) = CalculateElo(r2.score, r1.score, Score2(e))
    BY <2>1 DEF Elo2, Score2
  <2>4. Elo1(i) = elo1 /\ Elo2(i) = elo2
    BY <1>7, <2>2, <2>3
  <2> QED BY <2>1, <2>4
<1>13. rows' = [rows EXCEPT ![p1] = n1, ![p2] = n2]
  BY <1>4, <1>10, <1>12, Zenon DEF Rows
<1>14. Changes(i) = <<x1, x2>>
  <2>1. Changes(i) = <<[user |-> p1, game |-> g, change |-> elo1 - r1.score,
                        result |-> ResultOf(Score1(e))],
                       [user |-> p2, game |-> g, change |-> elo2 - r2.score,
                        result |-> ResultOf(Score2(e))]>>
    BY <1>4, <1>12 DEF Changes, Score2
  <2> QED BY <1>0, <1>8, <2>1
<1>15. PICK h, h1, h2 : h = history /\ h1 = Append(h, x1) /\ h2 = Append(h1, x2)
  OBVIOUS
<1>16. h \in Seq(HistRec) /\ h1 \in Seq(HistRec) /\ h2 \in Seq(HistRec)
       /\ Longer(h, x1, h1) /\ Longer(h1, x2, h2)
  BY <1>9, <1>15 DEF RatingsShape, Longer
<1>17. history' = h2
  <2>1. h \o <<x1, x2>> = Append(Append(h, x1), x2)
    BY <1>9, <1>16
  <2> QED BY <1>14, <1>15, <2>1
<1>18. rows' \in [RatedUser -> Row] /\ rows'[p1] = n1 /\ rows'[p2] = n2
       /\ \A u \in RatedUser : u # p1 /\ u # p2 => rows'[u] = rows[u]
  <2>1. PICK m : m = [rows EXCEPT ![p1] = n1]
    OBVIOUS
  <2>2. m \in [RatedUser -> Row] /\ m[p1] = n1 /\ \A u \in RatedUser : u # p1 => m[u] = rows[u]
    BY <1>11, <2>1 DEF RatingsShape
  <2>3. rows' = [m EXCEPT ![p2] = n2]
    BY <1>13, <2>1, Zenon
  <2> QED BY <1>4, <1>11, <2>2, <2>3
<1>19. \A u \in RatedUser : rows'[u].score >= MinScore
  BY <1>7, <1>11, <1>18 DEF RatingsShape
<1>20. /\ Agrees(r1, h, p1) => Agrees(n1, h2, p1)
       /\ Agrees(r2, h, p2) => Agrees(n2, h2, p2)
       /\ \A u, row : u # p1 /\ u # p2 /\ Agrees(row, h, u) => Agrees(row, h2, u)
  <2>1. x1.user = e.p1 /\ x2.user = e.p2
    BY <1>4, <1>9
  <2>2. /\ x1.change = elo1 - r1.score /\ x1.result = ResultOf(Score1(e))
        /\ x2.change = elo2 - r2.score /\ x2.result = ResultOf(Score2(e))
    BY <1>9
  <2>3. /\ Agrees(r1, h, e.p1) => Agrees(Stats(Scored(r1, elo1), e, TRUE), h2, e.p1)
        /\ Agrees(r2, h, e.p2) => Agrees(Stats(Scored(r2, elo2), e, FALSE), h2, e.p2)
        /\ \A u, row : u # e.p1 /\ u # e.p2 /\ Agrees(row, h, u) => Agrees(row, h2, u)
    <3>1. x1 \in HistRec /\ x2 \in HistRec /\ h \in Seq(HistRec)
          /\ Longer(h, x1, h1) /\ Longer(h1, x2, h2)
      BY <1>9, <1>16
    <3> QED BY ZenonT(30), <2>1, <2>2, <3>1, BothRows
  <2> QED BY <1>4, <1>10, <2>3
<1>22. ASSUME NEW u \in RatedUser \ raced PROVE Agrees(rows'[u], h2, u)
  <2>1. Agrees(rows[u], h, u)
    BY <1>15 DEF RowsAgree
  <2>2. CASE u = p1
    <3>1. r1 = rows[u]
      BY <1>1, <1>2, <1>3, <1>4, <1>5, <2>2 DEF HoldsCurrent
    <3> QED BY <1>18, <1>20, <2>1, <2>2, <3>1
  <2>3. CASE u = p2
    <3>1. r2 = rows[u]
      BY <1>1, <1>2, <1>3, <1>4, <1>5, <2>3 DEF HoldsCurrent
    <3> QED BY <1>18, <1>20, <2>1, <2>3, <3>1
  <2>4. CASE u # p1 /\ u # p2
    <3>1. rows'[u] = rows[u]
      BY <1>18, <2>4
    <3> QED BY <1>20, <2>1, <2>4, <3>1
  <2> QED BY <2>2, <2>3, <2>4
<1>21. ReadBy(i) = {p1, p2}
  BY <1>1, <1>4, <1>12 DEF ReadBy
<1> QED BY <1>16, <1>17, <1>18, <1>19, <1>21, <1>22

LEMMA UpdateKeeps ==
  ASSUME DOMAIN Expected = Int, RatingsInv, NEW i \in Instance, Update(i)
  PROVE  RatingsInv'
<1> USE DEF RatingsInv
<1>1. inst[i].pc = "update" /\ HoldsCurrent(inst[i]) /\ leaked[i] < MaxConns
  BY DEF Update, RowsInHand, HasConn
<1>2. UNCHANGED <<endings, deliveries>> /\ inst' = [inst EXCEPT ![i] = Resting]
  BY DEF Update
<1>3. inst' \in [Instance -> InstRec]
  BY <1>2, NewPlayerIs DEF RatingsShape
<1>4. HoldsCurrent(Resting)'
  BY NewPlayerIs DEF HoldsCurrent
<1>5. ASSUME rows' = Rows(i), history' = history \o Changes(i), UNCHANGED leaked,
             raced' = raced \cup UNION {ReadBy(j) \cap ReadBy(i) : j \in Instance \ {i}}
      PROVE  RatingsInv'
  <2>1. /\ rows' \in [RatedUser -> Row] /\ \A u \in RatedUser : rows'[u].score >= MinScore
        /\ history' \in Seq(HistRec)
        /\ \A u \in RatedUser \ raced : Agrees(rows'[u], history', u)
        /\ \A u \in RatedUser \ ReadBy(i) : rows'[u] = rows[u]
    BY <1>1, <1>5, CommitKeepsRows
  <2>2. raced' \subseteq RatedUser /\ raced \subseteq raced'
    <3>1. ReadBy(i) \subseteq RatedUser
      BY <1>1 DEF ReadBy, HoldsCurrent, RatingsShape, Endings
    <3> QED BY <1>5, <3>1 DEF RatingsShape
  <2>3. RatingsShape'
    BY <1>2, <1>3, <1>5, <2>1, <2>2 DEF RatingsShape
  <2>4. RowsAgree'
    BY <2>1, <2>2 DEF RowsAgree
  <2>5. RowsInHand'
    <3>1. ASSUME NEW j \in Instance, NEW q, q = inst'[j] PROVE HoldsCurrent(q)'
      <4>1. CASE j = i
        BY <1>2, <1>4, <3>1, <4>1 DEF RatingsShape
      <4>2. CASE j # i
        <5>1. q = inst[j] /\ HoldsCurrent(q) /\ q \in InstRec
          BY <1>2, <3>1, <4>2 DEF RatingsShape, RowsInHand, HoldsCurrent
        <5>2. ASSUME q.pc # "idle" PROVE endings[q.game].p1 \in ReadBy(j) /\ endings[q.game] \in Endings
          BY <5>1, <5>2 DEF ReadBy, InstRec, RatingsShape, HoldsCurrent
        <5>3. ASSUME q.pc = "update" PROVE endings[q.game].p2 \in ReadBy(j)
          BY <5>1, <5>3 DEF ReadBy
        <5>4. \A u \in ReadBy(j) : u \in ReadBy(i) => u \in raced'
          BY <1>5, <4>2
        <5>5. ASSUME q.pc # "idle", endings[q.game].p1 \notin raced' PROVE q.r1 = rows'[endings[q.game].p1]
          BY <2>1, <2>2, <5>1, <5>2, <5>4, <5>5 DEF HoldsCurrent, Endings
        <5>6. ASSUME q.pc = "update", endings[q.game].p2 \notin raced' PROVE q.r2 = rows'[endings[q.game].p2]
          BY <2>1, <2>2, <5>1, <5>2, <5>3, <5>4, <5>6 DEF HoldsCurrent, Endings
        <5> QED BY <1>2, <5>1, <5>5, <5>6 DEF HoldsCurrent
      <4> QED BY <4>1, <4>2
    <3> QED BY <3>1 DEF RowsInHand, HoldsCurrent
  <2> QED BY <2>3, <2>4, <2>5
<1>6. ASSUME leaked' \in {leaked, [leaked EXCEPT ![i] = @ + 1]}, UNCHANGED <<rows, history, raced>>
      PROVE  RatingsInv'
  <2>1. leaked' \in [Instance -> 0..MaxConns]
    <3>1. leaked[i] \in 0..MaxConns /\ MaxConns \in Nat
      BY RatingsAssumption DEF RatingsShape
    <3>2. leaked[i] + 1 \in 0..MaxConns
      BY <1>1, <3>1
    <3>3. leaked' = leaked \/ leaked' = [leaked EXCEPT ![i] = leaked[i] + 1]
      BY <1>6
    <3> QED BY <3>2, <3>3 DEF RatingsShape
  <2>2. RatingsShape'
    BY <1>2, <1>3, <1>6, <2>1 DEF RatingsShape
  <2>3. RowsAgree'
    BY <1>6 DEF RowsAgree
  <2>4. RowsInHand'
    <3>1. ASSUME NEW j \in Instance, NEW q, q = inst'[j] PROVE HoldsCurrent(q)'
      <4>1. q = Resting \/ (q = inst[j] /\ HoldsCurrent(q))
        BY <1>2, <3>1 DEF RatingsShape, RowsInHand, HoldsCurrent
      <4> QED BY <1>2, <1>4, <1>6, <4>1 DEF HoldsCurrent
    <3> QED BY <3>1 DEF RowsInHand, HoldsCurrent
  <2> QED BY <2>2, <2>3, <2>4
<1> QED BY <1>5, <1>6 DEF Update

LEMMA RatingsStep ==
  ASSUME DOMAIN Expected = Int, RatingsInv, [RatingsNext]_ratingsVars
  PROVE  RatingsInv'
<1>1. CASE RatingsNext
  BY <1>1, ReadFirstKeeps, ReadSecondKeeps, UpdateKeeps DEF RatingsNext
<1>2. CASE UNCHANGED ratingsVars
  BY <1>2 DEF ratingsVars, RatingsInv, RatingsShape, RowsAgree, RowsInHand, HoldsCurrent
<1> QED BY <1>1, <1>2

\* A row tells what its user's entries tell: the score is the base and the sum of
\* the changes, the counters count the results, unless two instances of the
\* rating service held the row at once (handleGameEnded reads both rows before
\* its transaction).  Expected, the logistic curve of pkg/elo, is total.
THEOREM RowAgreesWithHistoryHolds ==
  ASSUME DOMAIN Expected = Int
  PROVE  RatingsSpec => [](RatingsTypeOK /\ RowAgreesWithHistory)
<1>1. RatingsInit => RatingsInv
  BY RatingsStart
<1>2. RatingsInv /\ [RatingsNext]_ratingsVars => RatingsInv'
  BY RatingsStep
<1>3. RatingsInv => RatingsTypeOK
  <2> SUFFICES ASSUME RatingsInv PROVE RatingsTypeOK
    OBVIOUS
  <2>1. \A k \in DOMAIN history : history[k] \in HistRec
    BY DEF RatingsInv, RatingsShape
  <2> QED BY <2>1 DEF RatingsInv, RatingsShape, RatingsTypeOK, InstRec, HistRec, Result
<1>4. RatingsInv => RowAgreesWithHistory
  <2> SUFFICES ASSUME RatingsInv, NEW u \in RatedUser \ raced, Agrees(rows[u], history, u)
               PROVE  /\ rows[u].score = MinScore + MapThenSumSet(LAMBDA k : history[k].change, Entries(u))
                      /\ rows[u].played = Cardinality(Entries(u))
                      /\ rows[u].won = Entered(u, "win") /\ rows[u].lost = Entered(u, "loss")
                      /\ rows[u].draw = Entered(u, "draw")
    BY DEF RatingsInv, RowsAgree, RowAgreesWithHistory
  <2>1. Ent(history, u) = Entries(u)
    BY DEF Ent, Entries
  <2>2. \A x : Cardinality(Won(history, u, x)) = Entered(u, x)
    BY <2>1, Zenon DEF Won, Entered
  <2>3. Total(history, Entries(u)) = MapThenSumSet(LAMBDA k : history[k].change, Entries(u))
    BY SMT DEF Total
  <2> QED BY <2>1, <2>2, <2>3 DEF Agrees
<1> QED BY <1>1, <1>2, <1>3, <1>4, PTL DEF RatingsSpec

\* What a game does to the scores.

LEMMA TimesMinus ==
  ASSUME NEW a \in Nat, NEW b \in Int
  PROVE  a * (-b) = -(a * b)
OBVIOUS

\* CalculateElo takes a player no more than his K-factor away from his score; who
\* wins loses nothing by it, who loses wins nothing.
LEMMA EloMoves ==
  ASSUME DOMAIN Expected = Int, NEW s1 \in Nat, s1 >= MinScore, NEW s2 \in Nat,
         NEW score \in 0..1000, NEW moved, moved = CalculateElo(s1, s2, score) - s1
  PROVE  /\ -KFactor(s1) <= moved /\ moved <= KFactor(s1)
         /\ score = 1000 => moved >= 0
         /\ score = 0 => moved <= 0
<1>1. PICK k \in Nat : k = KFactor(s1)
  BY RatingsAssumption DEF KFactor
<1>2. PICK x \in 0..1000 : x = Expected[s2 - s1]
  <2>1. s2 - s1 \in DOMAIN Expected
    OBVIOUS
  <2> QED BY <2>1, RatingsAssumption
<1>3. PICK p \in Int : p = k * (score - x)
  OBVIOUS
<1>4. /\ -(1000 * k) <= p /\ p <= 1000 * k
      /\ score = 1000 => p >= 0
      /\ score = 0 => p <= 0
  <2>1. PICK d \in -1000..1000 : d = score - x
    OBVIOUS
  <2>2. p = k * d
    BY <1>3, <2>1
  <2>3. \A a \in Nat, b \in -1000..1000 : -(1000 * a) <= a * b /\ a * b <= 1000 * a
    <3> SUFFICES ASSUME NEW a \in Nat, NEW b \in -1000..1000
                 PROVE  -(1000 * a) <= a * b /\ a * b <= 1000 * a
      OBVIOUS
    <3>1. \A u \in Nat, v \in Nat : u * v >= 0
      OBVIOUS
    <3>2. a * (1000 - b) >= 0 /\ a * (b + 1000) >= 0
      BY <3>1
    <3>3. a * (1000 - b) = 1000 * a - a * b /\ a * (b + 1000) = a * b + 1000 * a
      OBVIOUS
    <3> QED BY <3>2, <3>3
  <2>4. \A a \in Nat, b \in Int : (b >= 0 => a * b >= 0) /\ (b <= 0 => a * b <= 0)
    <3> SUFFICES ASSUME NEW a \in Nat, NEW b \in Int
                 PROVE  (b >= 0 => a * b >= 0) /\ (b <= 0 => a * b <= 0)
      OBVIOUS
    <3>1. b >= 0 => a * b >= 0
      OBVIOUS
    <3>2. b <= 0 => a * (-b) >= 0
      OBVIOUS
    <3>3. a * (-b) = -(a * b)
      OBVIOUS
    <3> QED BY <3>1, <3>2, <3>3
  <2>5. (score = 1000 => d >= 0) /\ (score = 0 => d <= 0)
    BY <2>1
  <2> QED BY <2>2, <2>3, <2>4, <2>5
<1>5. MinScore \in Nat
  BY RatingsAssumption
<1>6. PICK new \in Int : new = 1000 * s1 + p
  OBVIOUS
<1>7. CalculateElo(s1, s2, score) = IF new < 1000 * MinScore THEN MinScore ELSE new \div 1000
  BY <1>1, <1>2, <1>3, <1>6 DEF CalculateElo
<1>8. /\ 1000 * (new \div 1000) <= new
      /\ new < 1000 * (new \div 1000) + 1000
      /\ new \div 1000 \in Int
  OBVIOUS
<1>9. PICK elo \in Int : elo = CalculateElo(s1, s2, score)
  BY <1>5, <1>7, <1>8
<1>10. /\ -k <= elo - s1 /\ elo - s1 <= k
       /\ score = 1000 => elo - s1 >= 0
       /\ score = 0 => elo - s1 <= 0
  <2>1. CASE new < 1000 * MinScore
    BY <1>4, <1>5, <1>6, <1>7, <1>9, <2>1
  <2>2. CASE ~(new < 1000 * MinScore)
    <3>1. elo = new \div 1000
      BY <1>7, <1>9, <2>2
    <3> QED BY <1>4, <1>6, <1>8, <3>1
  <2> QED BY <2>1, <2>2
<1> QED BY <1>1, <1>9, <1>10

\* CalculateElo makes no points between two players of one K-factor: what one
\* wins the other loses, but for the one point that cutting both scores to
\* integers may drop.  Only the least score can hold a player up.
THEOREM EloMakesNoPoints ==
  ASSUME DOMAIN Expected = Int, NEW s1 \in Nat, NEW s2 \in Nat, KFactor(s1) = KFactor(s2),
         NEW score \in 0..1000,
         CalculateElo(s1, s2, score) > MinScore, CalculateElo(s2, s1, 1000 - score) > MinScore
  PROVE  CalculateElo(s1, s2, score) + CalculateElo(s2, s1, 1000 - score) \in {s1 + s2 - 1, s1 + s2}
<1>1. PICK k \in Nat : k = KFactor(s1) /\ k = KFactor(s2)
  BY RatingsAssumption DEF KFactor
<1>2. PICK d \in Int, m \in Int : d = s2 - s1 /\ m = s1 - s2 /\ m = -d
  OBVIOUS
<1>3. PICK x \in 0..1000 : x = Expected[d]
  BY RatingsAssumption
<1>4. Expected[m] = 1000 - x
  BY <1>2, <1>3, RatingsAssumption
<1>5. PICK p \in Int : p = k * (score - x)
  OBVIOUS
<1>6. k * ((1000 - score) - (1000 - x)) = -p
  <2>1. (1000 - score) - (1000 - x) = -(score - x)
    OBVIOUS
  <2>2. PICK b \in Int : b = score - x
    OBVIOUS
  <2>3. k * b = p /\ (1000 - score) - (1000 - x) = -b
    BY <1>5, <2>1, <2>2
  <2>4. k * (-b) = -(k * b)
    BY TimesMinus
  <2> QED BY <2>3, <2>4
<1>7. PICK new1 \in Int : new1 = 1000 * s1 + p
  OBVIOUS
<1>8. PICK new2 \in Int : new2 = 1000 * s2 - p
  <2>1. 1000 * s2 \in Int
    OBVIOUS
  <2>2. \A a \in Int, b \in Int : a - b \in Int
    OBVIOUS
  <2> QED BY <1>5, <2>1, <2>2
<1>9. MinScore \in Nat
  BY RatingsAssumption
<1>10. CalculateElo(s1, s2, score) = new1 \div 1000
  <2>1. CalculateElo(s1, s2, score) = IF new1 < 1000 * MinScore THEN MinScore ELSE new1 \div 1000
    BY <1>1, <1>2, <1>3, <1>5, <1>7 DEF CalculateElo
  <2> QED BY <1>9, <2>1
<1>11. CalculateElo(s2, s1, 1000 - score) = new2 \div 1000
  <2>1. new2 = 1000 * s2 + k * ((1000 - score) - (1000 - x))
    BY <1>6, <1>8
  <2>2. CalculateElo(s2, s1, 1000 - score) = IF new2 < 1000 * MinScore THEN MinScore ELSE new2 \div 1000
    BY <1>1, <1>2, <1>4, <2>1 DEF CalculateElo
  <2> QED BY <1>9, <2>2
<1>12. PICK a \in Int, b \in Int :
         /\ a = new1 \div 1000 /\ 1000 * a <= new1 /\ new1 < 1000 * a + 1000
         /\ b = new2 \div 1000 /\ 1000 * b <= new2 /\ new2 < 1000 * b + 1000
  OBVIOUS
<1>13. new1 + new2 = 1000 * (s1 + s2)
  BY <1>7, <1>8
<1>14. a + b = s1 + s2 - 1 \/ a + b = s1 + s2
  BY <1>12, <1>13
<1> QED BY <1>10, <1>11, <1>12, <1>14

\* An entry of the history takes a score no further than a K-factor, and into
\* the direction of the result.
Swings == {KNew, KIntermediate, KExpert}
IsFair(x) ==
  /\ \E k \in Swings : -k <= x.change /\ x.change <= k
  /\ x.result = "win" => x.change >= 0
  /\ x.result = "loss" => x.change <= 0
HistoryIsFair == \A k \in DOMAIN history : IsFair(history[k])
\* The invariant: also the rows in hand, which may be old, are not below MinScore.
HandsAboveLeast == \A i \in Instance : inst[i].r1.score >= MinScore /\ inst[i].r2.score >= MinScore
FairInv == HandsAboveLeast /\ HistoryIsFair

\* The entry that a game's first or second player gets.
LEMMA EntryIsFair ==
  ASSUME DOMAIN Expected = Int, NEW e \in Endings, NEW first \in BOOLEAN,
         NEW s1 \in Nat, s1 >= MinScore, NEW s2 \in Nat,
         NEW x, x.change = CalculateElo(s1, s2, ScoreOf(e, first)) - s1,
         x.result = ResultOf(ScoreOf(e, first))
  PROVE  IsFair(x)
<1>1. PICK score \in 0..1000 : score = ScoreOf(e, first)
  BY SameResult
<1>2. KFactor(s1) \in Swings
  BY DEF KFactor, Swings
<1>3. /\ -KFactor(s1) <= x.change /\ x.change <= KFactor(s1)
      /\ score = 1000 => x.change >= 0
      /\ score = 0 => x.change <= 0
  <2>1. PICK moved : moved = x.change /\ moved = CalculateElo(s1, s2, score) - s1
    BY <1>1
  <2>2. /\ -KFactor(s1) <= moved /\ moved <= KFactor(s1)
        /\ score = 1000 => moved >= 0
        /\ score = 0 => moved <= 0
    BY <2>1, EloMoves, ZenonT(30)
  <2> QED BY <2>1, <2>2
<1>4. (x.result = "win" => score = 1000) /\ (x.result = "loss" => score = 0)
  BY <1>1 DEF ResultOf
<1> QED BY <1>2, <1>3, <1>4 DEF IsFair

LEMMA FairStep ==
  ASSUME DOMAIN Expected = Int, RatingsInv, FairInv, [RatingsNext]_ratingsVars
  PROVE  FairInv'
<1> USE DEF RatingsInv, FairInv
<1>1. \A u \in RatedUser : rows[u].score >= MinScore
  BY DEF RatingsShape
<1>2. Resting.r1.score = MinScore /\ Resting.r2.score = MinScore
  BY DEF Resting, NewPlayer
<1>3. MinScore \in Nat
  BY RatingsAssumption
<1>4. ASSUME NEW i \in Instance, NEW g \in RatedGame, ReadFirst(i, g) PROVE FairInv'
  <2>1. endings[g].p1 \in RatedUser
    BY DEF RatingsShape, Endings
  <2>2. inst'[i].r1.score >= MinScore /\ inst'[i].r2.score >= MinScore
    <3>1. CASE inst' = inst
      BY <3>1 DEF HandsAboveLeast
    <3>2. CASE inst' = [inst EXCEPT ![i] = [Resting EXCEPT !.pc = "second", !.game = g, !.r1 = rows[endings[g].p1]]]
      <4>1. inst'[i] = [Resting EXCEPT !.pc = "second", !.game = g, !.r1 = rows[endings[g].p1]]
        BY <3>2 DEF RatingsShape
      <4>2. inst'[i].r1 = rows[endings[g].p1] /\ inst'[i].r2 = Resting.r2
        BY <4>1 DEF Resting
      <4> QED BY <1>1, <1>2, <1>3, <2>1, <4>2
    <3> QED BY <1>4, <3>1, <3>2 DEF ReadFirst
  <2>3. \A j \in Instance \ {i} : inst'[j] = inst[j]
    BY <1>4 DEF ReadFirst, RatingsShape
  <2> QED BY <1>4, <2>2, <2>3 DEF ReadFirst, HandsAboveLeast, HistoryIsFair, IsFair
<1>5. ASSUME NEW i \in Instance, ReadSecond(i) PROVE FairInv'
  <2>1. inst[i].pc = "second" /\ inst[i].game \in RatedGame
    BY <1>5 DEF ReadSecond, RowsInHand, HoldsCurrent
  <2>2. endings[inst[i].game].p2 \in RatedUser
    BY <2>1 DEF RatingsShape, Endings
  <2>3. inst'[i].r1.score >= MinScore /\ inst'[i].r2.score >= MinScore
    <3>1. CASE inst' = [inst EXCEPT ![i] = Resting]
      BY <1>2, <1>3, <3>1 DEF RatingsShape
    <3>2. CASE inst' = [inst EXCEPT ![i].pc = "update", ![i].r2 = rows[endings[inst[i].game].p2]]
      <4>1. inst'[i].r1 = inst[i].r1 /\ inst'[i].r2 = rows[endings[inst[i].game].p2]
        BY <3>2 DEF RatingsShape, InstRec
      <4> QED BY <1>1, <2>2, <4>1 DEF HandsAboveLeast
    <3> QED BY <1>5, <3>1, <3>2 DEF ReadSecond
  <2>4. \A j \in Instance \ {i} : inst'[j] = inst[j]
    BY <1>5 DEF ReadSecond, RatingsShape
  <2> QED BY <1>5, <2>3, <2>4 DEF ReadSecond, HandsAboveLeast, HistoryIsFair, IsFair
<1>6. ASSUME NEW i \in Instance, Update(i) PROVE FairInv'
  <2>1. HandsAboveLeast'
    <3>1. inst' = [inst EXCEPT ![i] = Resting]
      BY <1>6 DEF Update
    <3>2. \A j \in Instance : inst'[j] = Resting \/ inst'[j] = inst[j]
      BY <3>1 DEF RatingsShape
    <3> QED BY <1>2, <1>3, <3>2 DEF HandsAboveLeast
  <2>2. CASE history' = history
    BY <2>1, <2>2 DEF HistoryIsFair, IsFair
  <2>3. CASE history' = history \o Changes(i)
    <3>1. PICK g \in RatedGame, e \in Endings : g = inst[i].game /\ e = endings[g]
      BY <1>6 DEF Update, RowsInHand, HoldsCurrent, RatingsShape
    <3>2. PICK r1 \in Row, r2 \in Row : /\ r1 = inst[i].r1 /\ r1.score >= MinScore
                                        /\ r2 = inst[i].r2 /\ r2.score >= MinScore
      BY DEF RatingsShape, InstRec, HandsAboveLeast
    <3>3. r1.score \in Nat /\ r2.score \in Nat
      BY DEF Row
    <3>4. PICK x1 : x1 = [user |-> e.p1, game |-> g, change |-> Elo1(i) - r1.score,
                          result |-> ResultOf(Score1(e))]
      OBVIOUS
    <3>5. PICK x2 : x2 = [user |-> e.p2, game |-> g, change |-> Elo2(i) - r2.score,
                           result |-> ResultOf(1000 - Score1(e))]
      OBVIOUS
    <3>6. Changes(i) = <<x1, x2>>
      BY <3>1, <3>2, <3>4, <3>5 DEF Changes
    <3>7. PICK one \in BOOLEAN, two \in BOOLEAN : one = TRUE /\ two = FALSE
      OBVIOUS
    <3>8. ScoreOf(e, one) = Score1(e) /\ ScoreOf(e, two) = 1000 - Score1(e)
      BY <3>7 DEF ScoreOf
    <3>9. IsFair(x1)
      <4>1. /\ x1.change = CalculateElo(r1.score, r2.score, ScoreOf(e, one)) - r1.score
            /\ x1.result = ResultOf(ScoreOf(e, one))
        BY <3>1, <3>2, <3>4, <3>8 DEF Elo1
      <4> QED BY <3>2, <3>3, <4>1, EntryIsFair
    <3>10. IsFair(x2)
      <4>1. /\ x2.change = CalculateElo(r2.score, r1.score, ScoreOf(e, two)) - r2.score
            /\ x2.result = ResultOf(ScoreOf(e, two))
        BY <3>1, <3>2, <3>5, <3>8 DEF Elo2
      <4> QED BY <3>2, <3>3, <4>1, EntryIsFair
    <3>11. \A k \in DOMAIN history' : history'[k] = x1 \/ history'[k] = x2
                                      \/ (k \in DOMAIN history /\ history'[k] = history[k])
      BY <2>3, <3>6 DEF RatingsShape
    <3>12. HistoryIsFair'
      BY <3>9, <3>10, <3>11 DEF HistoryIsFair, IsFair
    <3> QED BY <2>1, <3>12
  <2> QED BY <1>6, <2>2, <2>3 DEF Update
<1>7. CASE UNCHANGED ratingsVars
  BY <1>7 DEF ratingsVars, HandsAboveLeast, HistoryIsFair, IsFair
<1> QED BY <1>4, <1>5, <1>6, <1>7 DEF RatingsNext

\* Whatever the services do to one another, nobody loses points by a win or wins
\* points by a loss, and no game moves a score by more than a K-factor: also for
\* events delivered twice, and for scores computed from an old reading of a row.
THEOREM HistoryIsFairHolds ==
  ASSUME DOMAIN Expected = Int
  PROVE  RatingsSpec => []HistoryIsFair
<1>1. RatingsInit => RatingsInv /\ FairInv
  <2>1. RatingsInit => FairInv
    <3>1. MinScore \in Nat
      BY RatingsAssumption
    <3> QED BY <3>1 DEF RatingsInit, FairInv, HandsAboveLeast, HistoryIsFair, Resting, NewPlayer
  <2> QED BY <2>1, RatingsStart
<1>2. RatingsInv /\ FairInv /\ [RatingsNext]_ratingsVars => (RatingsInv /\ FairInv)'
  BY RatingsStep, FairStep
<1>3. FairInv => HistoryIsFair
  BY DEF FairInv
<1> QED BY <1>1, <1>2, <1>3, PTL DEF RatingsSpec

-----------------------------------------------------------------------------
(* The list of live games *)

\* Where h stands in s.
Places(s, h) == {k \in DOMAIN s : s[k] = h}
Times(s, h) == Cardinality(Places(s, h))
\* s2 is s with x at its end.
Extended(s, x, s2) == s2 = Append(s, x)

LEMMA PlacesOf ==
  ASSUME NEW S, NEW s \in Seq(S), NEW h
  PROVE  IsFiniteSet(Places(s, h)) /\ Times(s, h) \in Nat /\ Places(s, h) \subseteq 1..Len(s)
<1>1. DOMAIN s = 1..Len(s) /\ Len(s) \in Nat
  OBVIOUS
<1>2. IsFiniteSet(1..Len(s)) /\ Places(s, h) \in SUBSET (1..Len(s))
  BY <1>1, FS_Interval DEF Places
<1>3. IsFiniteSet(Places(s, h))
  BY <1>2, FS_Subset
<1> QED BY <1>2, <1>3, FS_CardinalityType DEF Times

LEMMA PlacesOfOneMore ==
  ASSUME NEW S, NEW s \in Seq(S), NEW x \in S, NEW s2, Extended(s, x, s2), NEW h
  PROVE  /\ s2 \in Seq(S) /\ Len(s2) = Len(s) + 1
         /\ Times(s2, h) = IF x = h THEN Times(s, h) + 1 ELSE Times(s, h)
<1>1. s2 \in Seq(S) /\ Len(s) \in Nat
  BY DEF Extended
<1>2. Len(s2) = Len(s) + 1 /\ s2[Len(s) + 1] = x
  BY DEF Extended
<1>3. \A k \in 1..Len(s) : s2[k] = s[k]
  BY DEF Extended
<1>4. PICK n : n = Len(s) + 1
  OBVIOUS
<1>5. DOMAIN s2 = 1..n /\ DOMAIN s = 1..Len(s) /\ s2[n] = x
  BY <1>1, <1>2, <1>4
<1>6. /\ \A k \in 1..n : k \in 1..Len(s) \/ k = n
      /\ n \notin 1..Len(s) /\ n \in 1..n /\ 1..Len(s) \subseteq 1..n
  BY <1>1, <1>4
<1>7. Places(s2, h) = (IF x = h THEN Places(s, h) \cup {n} ELSE Places(s, h)) /\ n \notin Places(s, h)
  BY <1>3, <1>5, <1>6 DEF Places
<1>8. IsFiniteSet(Places(s, h))
  BY PlacesOf
<1>9. Cardinality(Places(s, h) \cup {n}) = Cardinality(Places(s, h)) + 1
  BY <1>7, <1>8, FS_AddElement
<1> QED BY <1>1, <1>2, <1>7, <1>9 DEF Times

\* How often h stands among the first i of s.
Early(s, h, i) == Cardinality({k \in 1..i : s[k] = h})

LEMMA EarlyIs ==
  ASSUME NEW s, NEW h
  PROVE  /\ Early(s, h, 0) = 0
         /\ \A i \in Nat \ {0} : Early(s, h, i) = Early(s, h, i - 1) + (IF s[i] = h THEN 1 ELSE 0)
                                 /\ Early(s, h, i) \in Nat /\ Early(s, h, i - 1) \in Nat
<1>1. {k \in 1..0 : s[k] = h} = {}
  OBVIOUS
<1>2. Early(s, h, 0) = 0
  BY <1>1, FS_EmptySet DEF Early
<1>3. ASSUME NEW i \in Nat \ {0}
      PROVE  Early(s, h, i) = Early(s, h, i - 1) + (IF s[i] = h THEN 1 ELSE 0)
             /\ Early(s, h, i) \in Nat /\ Early(s, h, i - 1) \in Nat
  <2> DEFINE A == {k \in 1..(i - 1) : s[k] = h}
             B == {k \in 1..i : s[k] = h}
  <2>1. IsFiniteSet(1..(i - 1)) /\ IsFiniteSet(1..i)
    BY FS_Interval
  <2>2. A \in SUBSET (1..(i - 1)) /\ B \in SUBSET (1..i)
    OBVIOUS
  <2>3. IsFiniteSet(A) /\ IsFiniteSet(B)
    <3> HIDE DEF A, B
    <3> QED BY <2>1, <2>2, FS_Subset
  <2>4. /\ \A k \in 1..i : k \in 1..(i - 1) \/ k = i
        /\ i \notin 1..(i - 1) /\ i \in 1..i /\ 1..(i - 1) \subseteq 1..i
    OBVIOUS
  <2>5. i \notin A /\ B = IF s[i] = h THEN A \cup {i} ELSE A
    BY <2>4
  <2>6. Early(s, h, i) = Cardinality(B) /\ Early(s, h, i - 1) = Cardinality(A)
    BY DEF Early
  <2> HIDE DEF A, B
  <2>7. Cardinality(A) \in Nat /\ Cardinality(B) \in Nat /\ Cardinality(A \cup {i}) = Cardinality(A) + 1
    BY <2>3, <2>5, FS_CardinalityType, FS_AddElement
  <2> QED BY <2>5, <2>6, <2>7
<1> QED BY <1>2, <1>3

\* D is slices.DeleteFunc as it is computed.
Deleting(D, s, g) ==
  /\ D \in [0..Len(s) -> Seq(LiveGame)] /\ D[0] = <<>>
  /\ \A i \in 1..Len(s) : D[i] = IF s[i] = g THEN D[i - 1] ELSE Append(D[i - 1], s[i])

LEMMA DeleteFuncIs ==
  ASSUME NEW s \in Seq(LiveGame), NEW g
  PROVE  \E D : Deleting(D, s, g) /\ DeleteFunc(s, g) = D[Len(s)]
<1>1. PICK n \in Nat : n = Len(s)
  OBVIOUS
<1> DEFINE step == [i \in 1..n |-> [q \in Seq(LiveGame) |-> IF s[i] = g THEN q ELSE Append(q, s[i])]]
           Rec(F) == F = [i \in 0..n |-> IF i = 0 THEN <<>>
                                         ELSE IF s[i] = g THEN F[i - 1] ELSE Append(F[i - 1], s[i])]
<1>2. step \in [1..n -> [Seq(LiveGame) -> Seq(LiveGame)]]
  <2>1. ASSUME NEW i \in 1..n, NEW q \in Seq(LiveGame)
        PROVE  (IF s[i] = g THEN q ELSE Append(q, s[i])) \in Seq(LiveGame)
    <3>1. s[i] \in LiveGame
      BY <1>1
    <3>2. Append(q, s[i]) \in Seq(LiveGame)
      BY <3>1
    <3> QED BY <3>2
  <2> QED BY <2>1
<1>3. <<>> \in Seq(LiveGame)
  OBVIOUS
<1>4. PICK f : Runs(f, n, Seq(LiveGame), <<>>, step)
  <2> HIDE DEF step
  <2> QED BY <1>2, <1>3, StepByStep
<1>5. \A i \in 1..n : f[i - 1] \in Seq(LiveGame) /\ f[i] = IF s[i] = g THEN f[i - 1] ELSE Append(f[i - 1], s[i])
  <2> SUFFICES ASSUME NEW i \in 1..n
               PROVE  f[i - 1] \in Seq(LiveGame) /\ f[i] = IF s[i] = g THEN f[i - 1] ELSE Append(f[i - 1], s[i])
    OBVIOUS
  <2>1. i - 1 \in 0..n
    OBVIOUS
  <2>2. f[i - 1] \in Seq(LiveGame) /\ f[i] = step[i][f[i - 1]]
    BY <1>4, <2>1 DEF Runs
  <2> QED BY <2>2
<1>6. Rec(f)
  <2>1. f = [i \in 0..n |-> f[i]] /\ f[0] = <<>>
    BY <1>4 DEF Runs
  <2>2. \A i \in 0..n : i = 0 \/ i \in 1..n
    OBVIOUS
  <2>3. \A i \in 0..n : f[i] = IF i = 0 THEN <<>>
                               ELSE IF s[i] = g THEN f[i - 1] ELSE Append(f[i - 1], s[i])
    BY <1>5, <2>1, <2>2
  <2> QED BY <2>1, <2>3
<1>7. DeleteFunc(s, g) = (CHOOSE F : Rec(F))[n]
  BY <1>1 DEF DeleteFunc
<1>8. PICK D : Rec(D) /\ DeleteFunc(s, g) = D[n]
  <2> HIDE DEF Rec
  <2> QED BY <1>6, <1>7
<1>9. D[0] = <<>> /\ \A i \in 1..n : D[i] = IF s[i] = g THEN D[i - 1] ELSE Append(D[i - 1], s[i])
  <2>1. \A i \in 0..n : D[i] = IF i = 0 THEN <<>>
                               ELSE IF s[i] = g THEN D[i - 1] ELSE Append(D[i - 1], s[i])
    BY <1>8
  <2>2. 0 \in 0..n /\ \A i \in 1..n : i \in 0..n /\ i # 0
    OBVIOUS
  <2> QED BY <2>1, <2>2, Zenon
<1>10. \A i \in 0..n : D[i] \in Seq(LiveGame)
  <2> DEFINE G == {i \in 0..n : D[i] \in Seq(LiveGame)}
  <2>1. 0 \in G
    <3>1. D[0] \in Seq(LiveGame)
      BY <1>3, <1>9, Zenon
    <3>2. 0 \in 0..n
      OBVIOUS
    <3> QED BY <3>1, <3>2
  <2>2. ASSUME NEW i \in 1..n, i - 1 \in G PROVE i \in G
    <3>1. D[i - 1] \in Seq(LiveGame) /\ s[i] \in LiveGame
      BY <1>1, <2>2
    <3>2. Append(D[i - 1], s[i]) \in Seq(LiveGame)
      BY <3>1
    <3>3. D[i] \in Seq(LiveGame)
      BY <1>9, <3>1, <3>2
    <3> QED BY <3>3
  <2>3. 0..n \subseteq G
    <3> HIDE DEF G
    <3> QED BY <2>1, <2>2, UpTo
  <2> QED BY <2>3
<1>11. D \in [0..n -> Seq(LiveGame)]
  BY <1>8, <1>10
<1> QED BY <1>1, <1>8, <1>9, <1>11 DEF Deleting

\* slices.DeleteFunc takes away the entries of g and no other.
LEMMA DeleteFuncDeletes ==
  ASSUME NEW s \in Seq(LiveGame), NEW g
  PROVE  /\ DeleteFunc(s, g) \in Seq(LiveGame) /\ Len(DeleteFunc(s, g)) <= Len(s)
         /\ Times(DeleteFunc(s, g), g) = 0
         /\ \A h : h # g => Times(DeleteFunc(s, g), h) = Times(s, h)
<1>1. PICK n \in Nat : n = Len(s)
  OBVIOUS
<1>2. PICK D : Deleting(D, s, g) /\ DeleteFunc(s, g) = D[n]
  BY <1>1, DeleteFuncIs
<1>3. \A i \in 0..n : D[i] \in Seq(LiveGame) /\ Len(D[i]) \in Nat
  BY <1>1, <1>2 DEF Deleting
<1> DEFINE Left(i) == /\ Len(D[i]) <= i /\ Times(D[i], g) = 0
                      /\ \A h : h # g => Times(D[i], h) = Early(s, h, i)
           G == {i \in 0..n : Left(i)}
<1>4. 0 \in G
  <2>1. D[0] = <<>>
    BY <1>2 DEF Deleting
  <2>2. \A h : Places(<<>>, h) = {}
    BY DEF Places
  <2>3. \A h : Times(<<>>, h) = 0
    BY <2>2, FS_EmptySet DEF Times
  <2>4. Left(0)
    BY <2>1, <2>3, EarlyIs
  <2> QED BY <2>4
<1>5. ASSUME NEW i \in 1..n, i - 1 \in G PROVE i \in G
  <2>1. PICK a \in Seq(LiveGame), b \in Seq(LiveGame), x \in LiveGame :
          a = D[i - 1] /\ b = D[i] /\ x = s[i]
    <3>1. i - 1 \in 0..n /\ i \in 0..n
      OBVIOUS
    <3>2. D[i - 1] \in Seq(LiveGame) /\ D[i] \in Seq(LiveGame)
      BY <1>3, <3>1
    <3>3. s[i] \in LiveGame
      BY <1>1
    <3> QED BY <3>2, <3>3
  <2>2. b = IF x = g THEN a ELSE Append(a, x)
    BY <1>1, <1>2, <2>1 DEF Deleting
  <2>3. Len(a) <= i - 1 /\ Times(a, g) = 0 /\ \A h : h # g => Times(a, h) = Early(s, h, i - 1)
    BY <1>5, <2>1
  <2>4. \A h : Early(s, h, i) = Early(s, h, i - 1) + (IF x = h THEN 1 ELSE 0) /\ Early(s, h, i - 1) \in Nat
    <3>1. i \in Nat \ {0}
      OBVIOUS
    <3>2. ASSUME NEW h PROVE Early(s, h, i) = Early(s, h, i - 1) + (IF x = h THEN 1 ELSE 0)
                             /\ Early(s, h, i - 1) \in Nat
      <4>1. /\ Early(s, h, i) = Early(s, h, i - 1) + (IF s[i] = h THEN 1 ELSE 0)
            /\ Early(s, h, i - 1) \in Nat
        BY <3>1, EarlyIs
      <4> QED BY <2>1, <4>1
    <3> QED BY <3>2
  <2>5. CASE x = g
    <3>1. b = a /\ Len(b) <= i /\ Len(a) \in Nat
      BY <2>2, <2>3, <2>5
    <3>2. \A h : h # g => Early(s, h, i) = Early(s, h, i - 1)
      BY <2>4, <2>5
    <3>3. Left(i)
      BY <2>1, <2>3, <3>1, <3>2
    <3> QED BY <3>3
  <2>6. CASE x # g
    <3>1. Extended(a, x, b)
      BY <2>2, <2>6 DEF Extended
    <3>2. Len(b) = Len(a) + 1 /\ \A h : Times(b, h) = IF x = h THEN Times(a, h) + 1 ELSE Times(a, h)
      BY <3>1, PlacesOfOneMore
    <3>3. Len(b) <= i /\ Times(b, g) = 0
      BY <2>3, <2>6, <3>2
    <3>4. \A h : h # g => Times(b, h) = Early(s, h, i)
      BY <2>3, <2>4, <3>2
    <3>5. Left(i)
      BY <2>1, <3>3, <3>4
    <3> QED BY <3>5
  <2> QED BY <2>5, <2>6
<1>6. n \in G
  <2>1. 0..n \subseteq G
    <3> HIDE DEF G
    <3> QED BY <1>4, <1>5, UpTo
  <2> HIDE DEF G
  <2> QED BY <2>1
<1>7. Left(n)
  BY <1>6
<1>8. \A h : Early(s, h, n) = Times(s, h)
  <2>1. DOMAIN s = 1..n
    BY <1>1
  <2> QED BY <2>1, Zenon DEF Early, Times, Places
<1> QED BY <1>1, <1>2, <1>3, <1>7, <1>8

\* A list made of a set has each of its games once.
LEMMA SetToSeqLists ==
  ASSUME NEW S \in SUBSET LiveGame
  PROVE  /\ SetToSeq(S) \in Seq(LiveGame) /\ Len(SetToSeq(S)) = Cardinality(S)
         /\ Cardinality(S) \in Nat
         /\ \A h : Times(SetToSeq(S), h) = IF h \in S THEN 1 ELSE 0
<1>1. IsFiniteSet(S) /\ Cardinality(S) \in Nat
  BY LiveAssumption, FS_Subset, FS_CardinalityType
<1>2. PICK n \in Nat : n = Cardinality(S)
  BY <1>1
<1>3. \E f : f \in Bijection(1..n, S)
  BY <1>1, <1>2, FS_CardinalityType DEF ExistsBijection
<1>4. \E f \in [1..n -> S] : IsInjective(f)
  BY <1>3 DEF Bijection, Injection, Surjection, IsInjective
<1>5. PICK f \in [1..n -> S] : IsInjective(f) /\ SetToSeq(S) = f
  BY <1>2, <1>4 DEF SetToSeq
<1>6. f \in Surjection(1..n, S)
  <2>1. f \in Injection(1..n, S)
    BY <1>5 DEF Injection, IsInjective
  <2>2. IsFiniteSet(1..n) /\ Cardinality(1..n) = n
    BY FS_Interval
  <2> QED BY <1>1, <1>2, <2>1, <2>2, FS_Injection
<1>7. f \in Seq(LiveGame) /\ Len(f) = n /\ DOMAIN f = 1..n
  OBVIOUS
<1>8. ASSUME NEW h PROVE Times(f, h) = IF h \in S THEN 1 ELSE 0
  <2>1. CASE h \in S
    <3>1. PICK k \in 1..n : f[k] = h
      BY <1>6, <2>1 DEF Surjection
    <3>2. Places(f, h) = {k}
      BY <1>5, <1>7, <3>1 DEF Places, IsInjective
    <3> QED BY <2>1, <3>2, FS_Singleton DEF Times
  <2>2. CASE h \notin S
    <3>1. Places(f, h) = {}
      BY <1>5, <1>7, <2>2 DEF Places
    <3> QED BY <2>2, <3>1, FS_EmptySet DEF Times
  <2> QED BY <2>1, <2>2
<1> QED BY <1>1, <1>2, <1>5, <1>7, <1>8

LiveShape ==
  /\ list \subseteq LiveGame /\ sortedList \in Seq(LiveGame) /\ Len(sortedList) <= ListCap
  /\ refresh \in [pc: {"idle", "store"}, copy: SUBSET LiveGame]
  /\ due \in [LiveGame -> SUBSET Both] /\ last \in [LiveGame -> Both \cup {"none"}]
  /\ rewinds \in 0..MaxRewinds
  /\ touched \subseteq LiveGame /\ unsettled \subseteq LiveGame /\ cut \in BOOLEAN

\* The map holds the games whose last event is their creation.
ListFollows == \A g \in LiveGame : g \in list <=> last[g] = "created"

\* The copy in hand is the map but for the games touched since.
CopyFollows == refresh.pc = "store" =>
                 \A g \in LiveGame \ touched : g \in refresh.copy <=> g \in list

\* OneRefreshSettles, with the number of times a game is shown.
SortedSettles ==
  \A g \in LiveGame \ unsettled : /\ last[g] = "created" /\ ~cut => Times(sortedList, g) = 1
                                  /\ last[g] = "ended" => Times(sortedList, g) = 0

LiveInv == LiveShape /\ ListFollows /\ CopyFollows /\ SortedSettles

LEMMA LiveStart == LiveInit => LiveInv
<1> SUFFICES ASSUME LiveInit PROVE LiveInv
  OBVIOUS
<1>1. <<>> \in Seq(LiveGame) /\ Len(<<>>) = 0
  OBVIOUS
<1>2. LiveShape
  <2>1. Len(sortedList) <= ListCap /\ sortedList \in Seq(LiveGame) /\ 0 \in 0..MaxRewinds
    BY <1>1, LiveAssumption DEF LiveInit
  <2>2. refresh \in [pc: {"idle", "store"}, copy: SUBSET LiveGame]
    BY DEF LiveInit
  <2>3. due \in [LiveGame -> SUBSET Both] /\ last \in [LiveGame -> Both \cup {"none"}]
    BY DEF LiveInit
  <2> QED BY <2>1, <2>2, <2>3 DEF LiveInit, LiveShape
<1>3. ListFollows /\ CopyFollows /\ SortedSettles
  BY DEF LiveInit, ListFollows, CopyFollows, SortedSettles
<1> QED BY <1>2, <1>3 DEF LiveInv

LEMMA TakeIs ==
  ASSUME LiveShape, NEW g \in LiveGame, NEW kind \in Both, Take(g, kind), Touch(g)
  PROVE  /\ due' \in [LiveGame -> SUBSET Both] /\ last' \in [LiveGame -> Both \cup {"none"}]
         /\ last'[g] = kind /\ \A h \in LiveGame : h # g => last'[h] = last[h]
         /\ touched' \subseteq LiveGame /\ unsettled' \subseteq LiveGame
         /\ touched' = touched \cup {g} /\ unsettled' = unsettled \cup {g}
BY DEF LiveShape, Take, Touch

LEMMA AddLiveKeeps ==
  ASSUME LiveInv, NEW g \in LiveGame, AddLive(g)
  PROVE  LiveInv'
<1> USE DEF LiveInv
<1>1. /\ due' \in [LiveGame -> SUBSET Both] /\ last' \in [LiveGame -> Both \cup {"none"}]
      /\ last'[g] = "created" /\ \A h \in LiveGame : h # g => last'[h] = last[h]
      /\ touched' \subseteq LiveGame /\ unsettled' \subseteq LiveGame
      /\ touched' = touched \cup {g} /\ unsettled' = unsettled \cup {g}
  BY TakeIs DEF AddLive, Both
<1>2. list' = list \cup {g} /\ UNCHANGED <<refresh, rewinds, cut>>
  BY DEF AddLive
<1>3. PICK s, s2 : s \in Seq(LiveGame) /\ s = sortedList /\ s2 = Append(s, g) /\ ListCap \in Nat
  BY LiveAssumption DEF LiveShape
<1>4. s2 \in Seq(LiveGame) /\ Len(s2) = Len(s) + 1 /\ Len(s) \in Nat
      /\ \A h : h # g => Times(s2, h) = Times(s, h)
  <2>1. Extended(s, g, s2)
    BY <1>3 DEF Extended
  <2>2. s2 \in Seq(LiveGame) /\ Len(s2) = Len(s) + 1 /\ Len(s) \in Nat
    BY <1>3, <2>1, PlacesOfOneMore
  <2>3. ASSUME NEW h, h # g PROVE Times(s2, h) = Times(s, h)
    BY <1>3, <2>1, <2>3, PlacesOfOneMore
  <2> QED BY <2>2, <2>3
<1>5. sortedList' = IF Len(s) < ListCap THEN s2 ELSE s
  BY <1>3 DEF AddLive
<1>6. sortedList' \in Seq(LiveGame) /\ Len(sortedList') <= ListCap
      /\ \A h : h # g => Times(sortedList', h) = Times(s, h)
  <2>1. CASE Len(s) < ListCap
    BY <1>3, <1>4, <1>5, <2>1
  <2>2. CASE ~(Len(s) < ListCap)
    BY <1>3, <1>5, <2>2 DEF LiveShape
  <2> QED BY <2>1, <2>2
<1>7. LiveShape'
  BY <1>1, <1>2, <1>6 DEF LiveShape
<1>8. ListFollows' /\ CopyFollows'
  BY <1>1, <1>2 DEF ListFollows, CopyFollows
<1>9. SortedSettles'
  <2>1. \A h \in LiveGame \ unsettled' :
          h \in LiveGame \ unsettled /\ last'[h] = last[h] /\ Times(sortedList', h) = Times(sortedList, h)
    BY <1>1, <1>3, <1>6
  <2> QED BY <1>2, <2>1 DEF SortedSettles, Times, Places
<1> QED BY <1>7, <1>8, <1>9

LEMMA RemoveLiveKeeps ==
  ASSUME LiveInv, NEW g \in LiveGame, RemoveLive(g)
  PROVE  LiveInv'
<1> USE DEF LiveInv
<1>1. /\ due' \in [LiveGame -> SUBSET Both] /\ last' \in [LiveGame -> Both \cup {"none"}]
      /\ last'[g] = "ended" /\ \A h \in LiveGame : h # g => last'[h] = last[h]
      /\ touched' \subseteq LiveGame /\ unsettled' \subseteq LiveGame
      /\ touched' = touched \cup {g} /\ unsettled' = unsettled \cup {g}
  BY TakeIs DEF RemoveLive, Both
<1>2. list' = list \ {g} /\ UNCHANGED <<refresh, rewinds, cut>>
  BY DEF RemoveLive
<1>3. PICK s \in Seq(LiveGame) : s = sortedList /\ Len(s) <= ListCap /\ ListCap \in Nat /\ Len(s) \in Nat
  BY LiveAssumption DEF LiveShape
<1>4. sortedList' = DeleteFunc(s, g)
  BY <1>3 DEF RemoveLive
<1>5. DeleteFunc(s, g) \in Seq(LiveGame) /\ Len(DeleteFunc(s, g)) <= Len(s)
      /\ \A h : h # g => Times(DeleteFunc(s, g), h) = Times(s, h)
  BY DeleteFuncDeletes
<1>6. sortedList' \in Seq(LiveGame) /\ Len(sortedList') <= ListCap
      /\ \A h : h # g => Times(sortedList', h) = Times(s, h)
  <2>1. PICK d \in Seq(LiveGame) : d = DeleteFunc(s, g)
    BY <1>5
  <2>2. Len(d) <= ListCap
    BY <1>3, <1>5, <2>1
  <2> QED BY <1>4, <1>5, <2>1, <2>2
<1>7. LiveShape'
  BY <1>1, <1>2, <1>6 DEF LiveShape
<1>8. ListFollows' /\ CopyFollows'
  BY <1>1, <1>2 DEF ListFollows, CopyFollows
<1>9. SortedSettles'
  <2>1. \A h \in LiveGame \ unsettled' :
          h \in LiveGame \ unsettled /\ last'[h] = last[h] /\ Times(sortedList', h) = Times(sortedList, h)
    BY <1>1, <1>3, <1>6
  <2> QED BY <1>2, <2>1 DEF SortedSettles, Times, Places
<1> QED BY <1>7, <1>8, <1>9

LEMMA StoreSortedKeeps ==
  ASSUME LiveInv, StoreSorted
  PROVE  LiveInv'
<1> USE DEF LiveInv
<1>1. refresh.pc = "store" /\ refresh' = [pc |-> "idle", copy |-> {}] /\ unsettled' = touched
      /\ cut' = (Cardinality(refresh.copy) > ListCap) /\ UNCHANGED <<list, due, last, rewinds, touched>>
  BY DEF StoreSorted
<1>2. PICK kept \in SUBSET refresh.copy :
        /\ Cardinality(kept) = ListCap \/ (kept = refresh.copy /\ Cardinality(kept) < ListCap)
        /\ sortedList' = SetToSeq(kept)
  BY DEF StoreSorted
<1>3. refresh.copy \in SUBSET LiveGame /\ kept \in SUBSET LiveGame /\ ListCap \in Nat
  BY LiveAssumption DEF LiveShape
<1>4. /\ SetToSeq(kept) \in Seq(LiveGame) /\ Len(SetToSeq(kept)) = Cardinality(kept)
      /\ Cardinality(kept) \in Nat
      /\ \A h : Times(SetToSeq(kept), h) = IF h \in kept THEN 1 ELSE 0
  BY <1>3, SetToSeqLists
<1>5. ~cut' => kept = refresh.copy
  <2>1. IsFiniteSet(refresh.copy) /\ Cardinality(refresh.copy) \in Nat
    BY <1>3, LiveAssumption, FS_Subset, FS_CardinalityType
  <2>2. /\ Cardinality(kept) <= Cardinality(refresh.copy)
        /\ Cardinality(refresh.copy) = Cardinality(kept) => refresh.copy = kept
    BY <2>1, FS_Subset
  <2>3. PICK a \in Nat, b \in Nat : a = Cardinality(refresh.copy) /\ b = Cardinality(kept)
    BY <1>4, <2>1
  <2>4. ASSUME ~cut', kept # refresh.copy PROVE FALSE
    <3>1. ~(a > ListCap) /\ b = ListCap /\ b <= a /\ a # b
      BY <1>1, <1>2, <2>2, <2>3, <2>4
    <3> QED BY <1>3, <3>1
  <2> QED BY <2>4
<1>6. LiveShape'
  <2>1. sortedList' \in Seq(LiveGame) /\ Len(sortedList') <= ListCap
    BY <1>2, <1>3, <1>4
  <2> QED BY <1>1, <2>1 DEF LiveShape
<1>7. ListFollows' /\ CopyFollows'
  BY <1>1 DEF ListFollows, CopyFollows
<1>8. \A g \in LiveGame \ touched :
        /\ last[g] = "created" /\ ~cut' => g \in kept
        /\ last[g] = "ended" => g \notin kept
  BY <1>1, <1>2, <1>5 DEF ListFollows, CopyFollows
<1>9. SortedSettles'
  <2>1. \A h : Times(sortedList', h) = IF h \in kept THEN 1 ELSE 0
    BY <1>2, <1>4
  <2> QED BY <1>1, <1>8, <2>1 DEF SortedSettles, Times, Places
<1> QED BY <1>6, <1>7, <1>9

\* What one refresh begun after the last event of a game shows of it: the game
\* once while it is in progress, not at all after its end (the map of
\* liveGamesService and the copy that updateLiveGames takes under one lock and
\* stores under another).
THEOREM OneRefreshSettlesHolds == LiveSpec => [](LiveTypeOK /\ OneRefreshSettles)
<1>1. LiveInv /\ [LiveNext]_liveVars => LiveInv'
  <2> SUFFICES ASSUME LiveInv, [LiveNext]_liveVars PROVE LiveInv'
    OBVIOUS
  <2>1. ASSUME NEW g \in LiveGame, AddLive(g) \/ RemoveLive(g) PROVE LiveInv'
    BY <2>1, AddLiveKeeps, RemoveLiveKeeps
  <2>2. ASSUME NEW g \in LiveGame, NEW kind \in Both, Rewind(g, kind) PROVE LiveInv'
    <3>1. /\ rewinds < MaxRewinds /\ rewinds' = rewinds + 1 /\ due' = [due EXCEPT ![g] = @ \cup {kind}]
          /\ UNCHANGED <<list, sortedList, refresh, last, touched, unsettled, cut>>
      BY <2>2 DEF Rewind
    <3>2. rewinds' \in 0..MaxRewinds
      BY <3>1, LiveAssumption DEF LiveInv, LiveShape
    <3>3. due' \in [LiveGame -> SUBSET Both]
      BY <3>1 DEF LiveInv, LiveShape
    <3> QED BY <3>1, <3>2, <3>3
            DEF LiveInv, LiveShape, ListFollows, CopyFollows, SortedSettles, Times, Places
  <2>3. CASE CopyList
    BY <2>3 DEF CopyList, LiveInv, LiveShape, ListFollows, CopyFollows, SortedSettles, Times, Places
  <2>4. CASE StoreSorted
    BY <2>4, StoreSortedKeeps
  <2>5. CASE UNCHANGED liveVars
    BY <2>5 DEF liveVars, LiveInv, LiveShape, ListFollows, CopyFollows, SortedSettles, Times, Places
  <2> QED BY <2>1, <2>2, <2>3, <2>4, <2>5 DEF LiveNext
<1>2. LiveInv => LiveTypeOK
  <2> SUFFICES ASSUME LiveInv PROVE LiveTypeOK
    OBVIOUS
  <2>1. ToSet(sortedList) \subseteq LiveGame
    BY DEF LiveInv, LiveShape, ToSet
  <2> QED BY <2>1 DEF LiveInv, LiveShape, LiveTypeOK
<1>3. LiveInv => OneRefreshSettles
  BY DEF LiveInv, SortedSettles, OneRefreshSettles, Times, Places
<1> QED BY <1>1, <1>2, <1>3, LiveStart, PTL DEF LiveSpec

-----------------------------------------------------------------------------
(* All of them *)

\* In a behaviour of all the parts each part behaves as it does alone.
THEOREM FollowersAreEach ==
  Spec => ChatSpec /\ LiveSpec /\ RatingsSpec /\ AccountsSpec /\ BotSpec
<1>1. Init => ChatInit /\ LiveInit /\ RatingsInit /\ AccountsInit /\ BotInit
  BY DEF Init
<1>2. [Next]_vars => [ChatNext]_chatVars
  BY DEF Next, vars
<1>3. [Next]_vars => [LiveNext]_liveVars
  BY DEF Next, vars
<1>4. [Next]_vars => [RatingsNext]_ratingsVars
  BY DEF Next, vars
<1>5. [Next]_vars => [AccountsNext]_accountVars
  BY DEF Next, vars
<1>6. [Next]_vars => [BotNext]_botVars
  BY DEF Next, vars
<1> QED
  BY <1>1, <1>2, <1>3, <1>4, <1>5, <1>6, PTL
  DEF Spec, ChatSpec, LiveSpec, RatingsSpec, AccountsSpec, BotSpec

\* Every state of all the parts is well typed, given that the expected score is
\* defined for every difference of ratings.
THEOREM FollowersTypeCorrect ==
  ASSUME DOMAIN Expected = Int
  PROVE  Spec => []FollowersTypeOK
<1>1. RatingsSpec => [](RatingsTypeOK /\ RowAgreesWithHistory)
  BY RowAgreesWithHistoryHolds
<1>2. ChatTypeOK /\ LiveTypeOK /\ RatingsTypeOK /\ AccountsTypeOK /\ BotTypeOK => FollowersTypeOK
  BY DEF FollowersTypeOK
<1> QED
  BY <1>1, <1>2, FollowersAreEach, ChatTypeCorrect, OneRefreshSettlesHolds,
     AcknowledgedUpdateKeptHolds, BoardInStepHolds, PTL
=============================================================================
