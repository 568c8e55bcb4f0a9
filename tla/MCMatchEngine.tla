--------------------------- MODULE MCMatchEngine ---------------------------
EXTENDS MatchEngine, FiniteSets, TLC
CONSTANT u4

Symmetry == Permutations(User \ {u4}) \cup Permutations(Request)

Asking  == {user[r] : r \in Request} \ {NoUser}
AllMade == \A r \in Request : pc[r] # "new"

\* Bounds.  The service stops only while requests are left, and three users'
\* fourth request loses no match.  Two pairs in one sweep need four users: the
\* fourth asks last, and then only what leads to such a sweep, and to a
\* publication of two of which one fails, is explored: nobody gives up and no
\* game begins.
FourInPeace ==
  /\ AllMade => service.pc \notin {"stopping", "stopped"} /\ (u4 \in Asking \/ lost = {})
  /\ u4 \in Asking =>
       /\ Asking = User /\ live = {}
       /\ \A r \in Request : pc[r] # "cancel" /\ answer[r] \notin {"refused", "timeout"}
=============================================================================
