----------------------------- MODULE GameEntity -----------------------------
(***************************************************************************)
(* One chess game as gameservice/entity/entity.go keeps it.  The position  *)
(* is abstracted to the number of plies played; what a legal ply does to   *)
(* the result, and whether a draw may be claimed, is the chess library's   *)
(* business and is chosen by the caller of Moved and ClaimDraw.            *)
(***************************************************************************)
EXTENDS Naturals

CONSTANTS Player, NoPlayer

ASSUME PlayerAssumption == NoPlayer \notin Player

Status  == {"active", "deactive"}
Outcome == {"none", "white", "black", "draw"}

\* What one legal ply leads to: play goes on, the opponent is mated, or the
\* game is drawn by the rules (stalemate, repetition, dead position).
PlyResult == {"goes_on", "mate", "draw"}

PlayerOrNone == Player \cup {NoPlayer}

GameRecord == [status: Status, outcome: Outcome, moves: Nat, white: PlayerOrNone,
               black: PlayerOrNone, offer: PlayerOrNone]

NewGame(w, b) ==
  [status |-> "active", outcome |-> "none", moves |-> 0,
   white |-> w, black |-> b, offer |-> NoPlayer]

PlayersOf(g) == {g.white, g.black}

Turn(g) == IF g.moves % 2 = 0 THEN g.white ELSE g.black

\* (mutant of WinFor) the winner's id in place of the colour.
WinForId(g, p) == p

WinFor(g, p) == IF p = g.white THEN "white" ELSE "black"

Opponent(g, p) == IF p = g.white THEN g.black ELSE g.white

-----------------------------------------------------------------------------
(* Moves *)

\* (mutant of MayMove) the index check is lost, so a stale ply is played again.
MayMoveAnyIndex(g, p, n) == Turn(g) = p

\* The ply numbered n is taken from p: it is p's turn and n follows the last ply.
MayMove(g, p, n) == Turn(g) = p /\ n - 1 = g.moves

\* A mate or a rule draw replaces whatever result the game had; a ply that
\* leads on leaves it alone.
PlyOutcome(g, res) ==
  CASE res = "mate"    -> WinFor(g, Turn(g))
    [] res = "draw"    -> "draw"
    [] res = "goes_on" -> g.outcome

Moved(g, res) == [g EXCEPT !.moves = @ + 1, !.outcome = PlyOutcome(g, res)]

(* Draws: none of these touches the status *)

MayOfferDraw(g, p) == Turn(g) = p /\ g.offer = NoPlayer

DrawOffered(g, p) == [g EXCEPT !.offer = p]

MayAnswerDraw(g, p) == g.offer # NoPlayer /\ g.offer # p

DrawAccepted(g) == [g EXCEPT !.outcome = "draw"]

DrawRejected(g) == [g EXCEPT !.offer = NoPlayer]

DrawClaimed(g) == [g EXCEPT !.outcome = "draw"]

(* Ends *)

Deactivated(g) == [g EXCEPT !.status = "deactive"]

\* (mutant of Resigned) the library is not told of the resignation.
ResignedUnscored(g, p) == Deactivated(g)

\* The library ignores a resignation once the game has a result; the status
\* is written all the same.
Resigned(g, p) ==
  Deactivated([g EXCEPT !.outcome =
                  IF @ = "none" THEN WinFor(g, Opponent(g, p)) ELSE @])

\* What travels to Redis and back: everything but the pending draw offer.
Encoded(g) == [g EXCEPT !.offer = NoPlayer]

=============================================================================
