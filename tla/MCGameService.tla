--------------------------- MODULE MCGameService ---------------------------
EXTENDS GameService, TLC


Symmetry == Permutations(Player) \cup Permutations(Game) \cup Permutations(Match)
=============================================================================
