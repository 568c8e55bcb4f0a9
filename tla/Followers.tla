----------------------------- MODULE Followers -----------------------------
(***************************************************************************)
(* The parts that follow the events of the game and auth services: the     *)
(* chat service, the list of live games, the ratings, the accounts and the *)
(* bots of the Go client.  They share no state and no message here, so a   *)
(* behaviour of all is checked as the behaviours of each: one of them      *)
(* moves, which one is chosen first.                                       *)
(***************************************************************************)
EXTENDS Chat, LiveList, Ratings, Accounts, BotClient

VARIABLE mover      \* the part that moves in this behaviour

vars == <<mover, chatVars, liveVars, ratingsVars, accountVars, botVars>>

Init ==
  /\ mover \in {"chat", "live", "ratings", "accounts", "bot"}
  /\ ChatInit /\ LiveInit /\ AccountsInit
  /\ RatingsInit /\ BotInit
  /\ mover # "ratings" => endings = CHOOSE e \in [RatedGame -> Endings] : TRUE
  /\ mover # "bot" => server.fresh /\ server.white

Next ==
  \/ /\ mover = "chat" /\ ChatNext
     /\ UNCHANGED <<mover, liveVars, ratingsVars, accountVars, botVars>>
  \/ /\ mover = "live" /\ LiveNext
     /\ UNCHANGED <<mover, chatVars, ratingsVars, accountVars, botVars>>
  \/ /\ mover = "ratings" /\ RatingsNext
     /\ UNCHANGED <<mover, chatVars, liveVars, accountVars, botVars>>
  \/ /\ mover = "accounts" /\ AccountsNext
     /\ UNCHANGED <<mover, chatVars, liveVars, ratingsVars, botVars>>
  \/ /\ mover = "bot" /\ BotNext
     /\ UNCHANGED <<mover, chatVars, liveVars, ratingsVars, accountVars>>

Spec == Init /\ [][Next]_vars

\* The parts that do not move keep the values they have from the start.
FollowersTypeOK ==
  /\ mover = "chat" => ChatTypeOK
  /\ mover = "live" => LiveTypeOK
  /\ mover = "ratings" => RatingsTypeOK
  /\ mover = "accounts" => AccountsTypeOK
  /\ mover = "bot" => BotTypeOK

=============================================================================
