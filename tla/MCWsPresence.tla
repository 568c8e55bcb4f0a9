--------------------------- MODULE MCWsPresence ---------------------------
EXTENDS WsPresence, TLC

Symmetry == Permutations(Session) \cup Permutations(OwnGame)
              \cup Permutations(OtherGame)
=============================================================================
