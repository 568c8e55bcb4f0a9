----------------------------- MODULE GameTopic -----------------------------
(***************************************************************************)
(* What the game service promises those who listen to its topic (the       *)
(* gateway, the chat service, the rating service): which announcements of  *)
(* a game may follow which.  How much is promised depends on what may go   *)
(* wrong, hence the three constants.                                       *)
(***************************************************************************)
EXTENDS Naturals, Sequences

CONSTANTS
  Game, Ply,
  Result,        \* the outcomes of a game that is over
  EverySaved,    \* BOOLEAN: no call to Redis or to the publisher fails
  EverySent,     \* BOOLEAN: no publication fails
  ByManager      \* BOOLEAN: a game is only ended by the instance that manages it

VARIABLES
  created,    \* games announced with game.created
  approved,   \* of each game the plies announced with game.moveApproved
  ended,      \* of each game who announced its end, and with what outcome
  late        \* of each game the plies approved after its end

vars == <<created, approved, ended, late>>

Init ==
  /\ created = {}
  /\ approved = [g \in Game |-> <<>>]
  /\ ended = [g \in Game |-> {}]
  /\ late = [g \in Game |-> 0]

\* Ply n of g is approved: it is beyond all that were, and when nothing fails
\* the very next one.  One ply may follow the end, the one that was under way;
\* none follows the announcement of the handler that plays the moves.
Approved(g, n) ==
  /\ \A k \in DOMAIN approved[g] : approved[g][k] < n
  /\ EverySaved => n = Len(approved[g]) + 1
  /\ ByManager => (ended[g] # {} => late[g] = 0)
  /\ EverySent => \A a \in ended[g] : a.by # "game"
  /\ approved' = [approved EXCEPT ![g] = Append(@, n)]
  /\ late' = [late EXCEPT ![g] = IF ended[g] # {} THEN @ + 1 ELSE @]

\* The end of each game of gs is announced, with a result; neither the handler
\* nor the ticker announces it twice.
Ended(gs, by, result) ==
  /\ EverySent /\ by # "http" => \A g \in gs : \A a \in ended[g] : a.by # by
  /\ ended' = [g \in Game |->
       IF g \in gs THEN ended[g] \cup {[by |-> by, outcome |-> result[g]]} ELSE ended[g]]

Create ==
  /\ \E g \in Game : created' = created \cup {g}
  /\ UNCHANGED <<approved, ended, late>>

Approve ==
  /\ \E g \in Game, n \in Ply : Approved(g, n)
  /\ UNCHANGED <<created, ended>>

End ==
  /\ \E gs \in SUBSET Game, by \in {"game", "tick", "http"} :
       \E result \in [gs -> Result] : Ended(gs, by, result)
  /\ UNCHANGED <<created, approved, late>>

\* A ply that ends the game is published together with the end.
ApproveLast ==
  /\ \E g \in Game, n \in Ply, r \in Result :
       Approved(g, n) /\ Ended({g}, "game", [h \in {g} |-> r])
  /\ UNCHANGED created

Next == Create \/ Approve \/ End \/ ApproveLast

Spec == Init /\ [][Next]_vars

=============================================================================
