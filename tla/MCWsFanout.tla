---------------------------- MODULE MCWsFanout ----------------------------
EXTENDS WsFanout, TLC

Symmetry == Permutations(Session) \cup Permutations(Game)

\* That the guards of AllDeadlocksKnown are those of the steps: for use as an
\* invariant in fanout.cfg when an action has changed.
GuardsAreExact ==
  /\ ListenerGoesOn <=> ENABLED Listening
  /\ BroadcastGoesOn <=> ENABLED Casting
  /\ TickerGoesOn <=> ENABLED Ticking
  /\ \A s \in Session :
       /\ HandlerGoesOn(s) <=> ENABLED Handling(s)
       /\ ReaderGoesOn(s) <=> ENABLED Reading(s)
       /\ WriterGoesOn(s) <=> ENABLED Writing(s)
       /\ StopGoesOn(s) <=> ENABLED Stopping(s)

=============================================================================
