---------------------------- MODULE MCFollowers ----------------------------
EXTENDS Followers

\* The shape of the expected score, over the differences these bounds allow.
MCExpected == [d \in -20..20 |-> IF d > 10 THEN 1000 ELSE IF d < -10 THEN 0 ELSE 500 + 50 * d]

\* Bounds: a bot stops by itself only before its second ply; of the chats, besides being
\* forgotten by a restart, that of one game only has faults.
StopsEarly == board >= 2 => pc["stopper"] \in {"none", "sleep"}
OneFaulty ==
  \A g, h \in Game : faults[g] \ {"lost"} # {} /\ faults[h] \ {"lost"} # {} => g = h
Bounds == StopsEarly /\ OneFaulty
=============================================================================
