-------------------------------- MODULE Chat --------------------------------
(***************************************************************************)
(* The chat service: one goroutine for the topic of games, which opens and *)
(* ends the chats, one for the topic of chats, which approves messages;    *)
(* the chats in memory between them, and a key of each chat in Redis.  The *)
(* two events of a game lie in different partitions (a message's key names *)
(* the action) and are taken in either order.                              *)
(***************************************************************************)
EXTENDS Naturals

CONSTANTS
  Game, NoGame,
  ChatMayFail,     \* Redis and the publisher may answer with an error
  MaxCrashes, MaxSent    \* bounds: restarts and repeated events, messages

ASSUME ChatAssumption ==
  NoGame \notin Game /\ ChatMayFail \in BOOLEAN /\ {MaxCrashes, MaxSent} \subseteq Nat

VARIABLES
  chats,       \* chatsManager: the chats in memory
  keys,        \* game_chat:<id> in Redis; they do not expire
  onGame,      \* the goroutine of the games: its pc and the game in hand
  onMsg,       \* the goroutine of the messages
  taken,       \* of each game, which of game.created and game.ended were taken
  told,        \* history: chats announced and keys deleted; since the chat was
               \* opened last, its ends announced and messages approved after
  faults,      \* history: what has gone wrong with the chat of each game
  sent, crashes

chatVars == <<chats, keys, onGame, onMsg, taken, told, faults, sent, crashes>>

Kinds == {"created", "ended"}

\* SETNX failed (unset); the chat's creation was not announced (silent); its key was
\* not deleted (kept); its end was not announced (unsaid); the end of the game
\* found no chat (missed), was taken before the creation (late), or came again
\* (again); a restart forgot the chat, and the creation does not come again (lost).
Fault == {"unset", "silent", "kept", "unsaid", "missed", "late", "again", "lost"}
Fails(g, what) == faults' = [faults EXCEPT ![g] = @ \cup {what}]

Free == [pc |-> "idle", game |-> NoGame]
ChatTypeOK ==
  /\ chats \subseteq Game /\ keys \subseteq Game /\ faults \in [Game -> SUBSET Fault]
  /\ onGame \in [pc: {"idle", "setnx", "created", "delete", "ended"},
                 game: Game \cup {NoGame}]
  /\ onMsg \in [pc: {"idle", "approve"}, game: Game \cup {NoGame}]
  /\ taken \in [Game -> SUBSET Kinds] /\ sent \in 0..MaxSent /\ crashes \in 0..MaxCrashes
  /\ told \in [Game -> [created: Nat, ended: Nat, deleted: Nat, late: Nat]]

ChatInit ==
  /\ chats = {} /\ keys = {} /\ faults = [g \in Game |-> {}]
  /\ onGame = Free /\ onMsg = Free
  /\ taken = [g \in Game |-> {}] /\ sent = 0 /\ crashes = 0
  /\ told = [g \in Game |-> [created |-> 0, ended |-> 0, deleted |-> 0, late |-> 0]]

GoOn(pc) == onGame' = IF pc = "idle" THEN Free ELSE [onGame EXCEPT !.pc = pc]

-----------------------------------------------------------------------------
\* handleGameCreated, up to the chat in memory.
TakeCreated(g) ==
  /\ onGame = Free /\ "created" \notin taken[g]
  /\ taken' = [taken EXCEPT ![g] = @ \cup {"created"}]
  /\ chats' = chats \cup {g}
  /\ onGame' = IF g \in chats THEN Free ELSE [pc |-> "setnx", game |-> g]
  /\ told' = IF g \in chats THEN told ELSE [told EXCEPT ![g].ended = 0, ![g].late = 0]
  /\ IF "ended" \in taken[g] THEN Fails(g, "late") ELSE UNCHANGED faults
  /\ UNCHANGED <<keys, onMsg, sent, crashes>>

\* (mutants of AddGameChat) the key is set although it exists; the answer of
\* Redis is taken the other way round.
AddGameChatAgain ==
  /\ onGame.pc = "setnx"
  /\ keys' = keys \cup {onGame.game} /\ GoOn("created")
  /\ UNCHANGED <<chats, onMsg, taken, told, faults, sent, crashes>>
AddGameChatInverted ==
  /\ onGame.pc = "setnx"
  /\ keys' = keys \cup {onGame.game}
  /\ GoOn(IF onGame.game \in keys THEN "created" ELSE "idle")
  /\ UNCHANGED <<chats, onMsg, taken, told, faults, sent, crashes>>

\* SETNX: a chat that has its key already is not announced again.  After an
\* error the chat stays in memory.
AddGameChat ==
  /\ onGame.pc = "setnx"
  /\ LET g == onGame.game IN
     \/ /\ keys' = keys \cup {g}
        /\ GoOn(IF g \in keys THEN "idle" ELSE "created")
        /\ UNCHANGED faults
     \/ /\ ChatMayFail
        /\ Fails(g, "unset") /\ GoOn("idle")
        /\ UNCHANGED keys
  /\ UNCHANGED <<chats, onMsg, taken, told, sent, crashes>>

\* The error of a publication is only logged.
ChatPublishes(pc, field, fault) ==
  /\ onGame.pc = pc
  /\ \/ told' = [told EXCEPT ![onGame.game][field] = @ + 1] /\ UNCHANGED faults
     \/ ChatMayFail /\ Fails(onGame.game, fault) /\ UNCHANGED told
  /\ GoOn("idle")
  /\ UNCHANGED <<chats, keys, onMsg, taken, sent, crashes>>

PublishCreated == ChatPublishes("created", "created", "silent")
PublishEnded   == ChatPublishes("ended", "ended", "unsaid")

\* (mutant of TakeEnded) the chat is left in memory.
TakeEndedOnly(g) ==
  /\ onGame = Free /\ "ended" \notin taken[g]
  /\ taken' = [taken EXCEPT ![g] = @ \cup {"ended"}]
  /\ onGame' = IF g \in chats THEN [pc |-> "delete", game |-> g] ELSE Free
  /\ IF g \in chats THEN UNCHANGED faults ELSE Fails(g, "missed")
  /\ UNCHANGED <<chats, keys, onMsg, told, sent, crashes>>

\* handleGameEnded: a chat that is not in memory is not ended.
TakeEnded(g) ==
  /\ onGame = Free /\ "ended" \notin taken[g]
  /\ taken' = [taken EXCEPT ![g] = @ \cup {"ended"}]
  /\ chats' = chats \ {g}
  /\ onGame' = IF g \in chats THEN [pc |-> "delete", game |-> g] ELSE Free
  /\ IF g \in chats THEN UNCHANGED faults ELSE Fails(g, "missed")
  /\ UNCHANGED <<keys, onMsg, told, sent, crashes>>

DeleteGameChat ==
  /\ onGame.pc = "delete"
  /\ LET g == onGame.game IN
     \/ /\ keys' = keys \ {g}
        /\ told' = [told EXCEPT ![g].deleted = @ + 1]
        /\ UNCHANGED faults
     \/ ChatMayFail /\ Fails(g, "kept") /\ UNCHANGED <<keys, told>>
  /\ GoOn("ended")
  /\ UNCHANGED <<chats, onMsg, taken, sent, crashes>>

\* handleMsgSent: the chat is looked up, the message added and then published.
\* A message of a stranger, or for no chat, leaves nothing.
TakeMessage(g) ==
  /\ onMsg = Free /\ g \in chats /\ sent < MaxSent
  /\ sent' = sent + 1
  /\ onMsg' = [pc |-> "approve", game |-> g]
  /\ UNCHANGED <<chats, keys, onGame, taken, told, faults, crashes>>

PublishApproved ==
  /\ onMsg.pc = "approve"
  /\ told' = IF told[onMsg.game].ended > 0 THEN [told EXCEPT ![onMsg.game].late = @ + 1] ELSE told
  /\ onMsg' = Free
  /\ UNCHANGED <<chats, keys, onGame, taken, faults, sent, crashes>>

\* What a restart leaves undone: the calls before which the goroutine of the games
\* stopped, and the chat of a game in progress.
Undone(g) ==
  LET stopped == IF onGame.game = g THEN onGame.pc ELSE "idle" IN
  (CASE stopped = "created" -> {"silent"} [] stopped = "delete" -> {"kept", "unsaid"}
     [] stopped = "ended" -> {"unsaid"} [] OTHER -> {})
  \cup (IF taken'[g] = {"created"} THEN {"lost"} ELSE {})

\* The memory is empty, Redis is not, and the events since the last commit come
\* again.
ChatCrash ==
  /\ crashes < MaxCrashes
  /\ crashes' = crashes + 1
  /\ chats' = {} /\ onGame' = Free /\ onMsg' = Free
  /\ taken' \in {t \in [Game -> SUBSET Kinds] : \A g \in Game : t[g] \subseteq taken[g]}
  /\ faults' = [g \in Game |-> faults[g] \cup Undone(g)]
  /\ UNCHANGED <<keys, told, sent>>

\* An event is delivered again without a restart.
Redeliver(g, kind) ==
  /\ crashes < MaxCrashes /\ kind \in taken[g]
  /\ crashes' = crashes + 1
  /\ taken' = [taken EXCEPT ![g] = @ \ {kind}]
  /\ IF kind = "ended" THEN Fails(g, "again") ELSE UNCHANGED faults
  /\ UNCHANGED <<chats, keys, onGame, onMsg, told, sent>>

ChatNext ==
  \/ \E g \in Game : TakeCreated(g) \/ TakeEnded(g) \/ TakeMessage(g)
  \/ AddGameChat \/ PublishCreated \/ DeleteGameChat \/ PublishEnded
  \/ PublishApproved \/ ChatCrash
  \/ \E g \in Game, kind \in Kinds : Redeliver(g, kind)

ChatSpec == ChatInit /\ [][ChatNext]_chatVars

-----------------------------------------------------------------------------
(* Properties *)

\* The end of a chat and a message under way are in two goroutines: a message
\* may be approved after its chat has ended, but one only.
AtMostOneLateMessage == \A g \in Game : told[g].late <= told[g].ended

\* The key in Redis outlives the memory: whatever is delivered again after a
\* restart, a chat is announced again only when its key was deleted meanwhile.
ChatAnnouncedOnce == \A g \in Game : told[g].created <= told[g].deleted + 1

\* Chat, key and announcements follow the game, and this is all that sets them
\* apart: while a game is in progress its chat is in memory, with its key in Redis,
\* and the players were told of it; when it has ended the chat and the key are gone
\* and the players were told so.  Each exception names the only faults after which
\* it is otherwise: a call of the chat service, the order of the two events, or a
\* restart.  So an error of Redis or of the bus leaves no chat open.
After(g, which) == faults[g] \cap which # {}
InMemory(g) ==
  /\ taken[g] = {"created"} /\ g \notin chats => After(g, {"lost", "again"})
  /\ "ended" \in taken[g] /\ g \in chats => After(g, {"late"})
InRedis(g) ==
  /\ g \in chats \ keys => After(g, {"unset"})
  /\ "ended" \in taken[g] /\ g \in keys => After(g, {"kept", "missed", "late"})
PlayersKnow(g) ==
  /\ g \in chats /\ told[g].created = 0 => After(g, {"unset", "silent"})
  /\ "ended" \in taken[g] /\ told[g].created > 0 /\ told[g].ended = 0
       => After(g, {"unsaid", "missed", "late"})
ChatFollowsGame ==
  \A g \in Game : onGame.game # g => InMemory(g) /\ InRedis(g) /\ PlayersKnow(g)

=============================================================================
