------------------------------ MODULE LiveList ------------------------------
(***************************************************************************)
(* The list of live games of the game service (liveGamesService): the map  *)
(* and the sorted list that game.created and game.ended change, and the    *)
(* ticker that copies the map under one lock and stores the sorted copy    *)
(* under another.  The two events of a game lie in different partitions    *)
(* and are taken in either order.                                          *)
(***************************************************************************)
EXTENDS Naturals, FiniteSets, SequencesExt

CONSTANTS
  LiveGame,
  ListCap,       \* listCap
  MaxRewinds     \* bound: how often the bus delivers events again

ASSUME LiveAssumption ==
  IsFiniteSet(LiveGame) /\ ListCap \in Nat \ {0} /\ MaxRewinds \in Nat

VARIABLES
  list, sortedList,    \* the map's keys; the sorted list
  refresh,             \* the ticker: its pc and the copy it holds
  due,                 \* of each game, which of its two events are still to come
  last,                \* of each game, the event taken last
  rewinds,
  touched,             \* history: games added or removed since the copy in hand,
  unsettled,           \* ... or since the copy that is stored now
  cut                  \* history: that copy was longer than ListCap

liveVars == <<list, sortedList, refresh, due, last, rewinds, touched, unsettled, cut>>

Both == {"created", "ended"}
LiveTypeOK ==
  /\ list \subseteq LiveGame
  /\ Len(sortedList) <= ListCap /\ ToSet(sortedList) \subseteq LiveGame
  /\ refresh \in [pc: {"idle", "store"}, copy: SUBSET LiveGame]
  /\ due \in [LiveGame -> SUBSET Both] /\ last \in [LiveGame -> Both \cup {"none"}]
  /\ rewinds \in 0..MaxRewinds
  /\ touched \subseteq LiveGame /\ unsettled \subseteq LiveGame /\ cut \in BOOLEAN

LiveInit ==
  /\ list = {} /\ sortedList = <<>> /\ refresh = [pc |-> "idle", copy |-> {}]
  /\ due = [g \in LiveGame |-> Both] /\ last = [g \in LiveGame |-> "none"]
  /\ rewinds = 0
  /\ touched = {} /\ unsettled = {} /\ cut = FALSE

Take(g, kind) ==
  /\ kind \in due[g]
  /\ due' = [due EXCEPT ![g] = @ \ {kind}] /\ last' = [last EXCEPT ![g] = kind]

\* slices.DeleteFunc of the entries of g.
DeleteFunc(s, g) ==
  LET D[i \in 0..Len(s)] ==
        IF i = 0 THEN <<>> ELSE IF s[i] = g THEN D[i - 1] ELSE Append(D[i - 1], s[i])
  IN  D[Len(s)]

Touch(g) == touched' = touched \cup {g} /\ unsettled' = unsettled \cup {g}

-----------------------------------------------------------------------------
\* (mutant of AddLive) the game is appended whatever the length.
AddPastCap(g) ==
  /\ Take(g, "created")
  /\ list' = list \cup {g} /\ sortedList' = Append(sortedList, g)
  /\ Touch(g)
  /\ UNCHANGED <<refresh, rewinds, cut>>

\* add: a game that is there already is appended again.
AddLive(g) ==
  /\ Take(g, "created")
  /\ list' = list \cup {g}
  /\ sortedList' = IF Len(sortedList) < ListCap THEN Append(sortedList, g) ELSE sortedList
  /\ Touch(g)
  /\ UNCHANGED <<refresh, rewinds, cut>>

\* (mutant of RemoveLive) the game is left in the map.
RemoveFromSorted(g) ==
  /\ Take(g, "ended")
  /\ sortedList' = DeleteFunc(sortedList, g)
  /\ Touch(g)
  /\ UNCHANGED <<list, refresh, rewinds, cut>>

RemoveLive(g) ==
  /\ Take(g, "ended")
  /\ list' = list \ {g}
  /\ sortedList' = DeleteFunc(sortedList, g)
  /\ Touch(g)
  /\ UNCHANGED <<refresh, rewinds, cut>>

\* The partition of an event is assigned anew and read again from the last
\* commit: the event comes once more, the list is still there.
Rewind(g, kind) ==
  /\ rewinds < MaxRewinds /\ kind \notin due[g]
  /\ rewinds' = rewinds + 1
  /\ due' = [due EXCEPT ![g] = @ \cup {kind}]
  /\ UNCHANGED <<list, sortedList, refresh, last, touched, unsettled, cut>>

-----------------------------------------------------------------------------
\* updateLiveGames, when the gateway has answered: the copy is taken ...
CopyList ==
  /\ refresh.pc = "idle"
  /\ refresh' = [pc |-> "store", copy |-> list]
  /\ touched' = {}
  /\ UNCHANGED <<list, sortedList, due, last, rewinds, unsettled, cut>>

\* ... sorted, cut and stored.  Which games are cut depends on their scores.
StoreSorted ==
  /\ refresh.pc = "store"
  /\ \E kept \in SUBSET refresh.copy :
       /\ Cardinality(kept) = ListCap \/ (kept = refresh.copy /\ Cardinality(kept) < ListCap)
       /\ sortedList' = SetToSeq(kept)
  /\ refresh' = [pc |-> "idle", copy |-> {}]
  /\ unsettled' = touched /\ cut' = (Cardinality(refresh.copy) > ListCap)
  /\ UNCHANGED <<list, due, last, rewinds, touched>>

LiveNext == \/ \E g \in LiveGame : AddLive(g) \/ RemoveLive(g) \/ \E kind \in Both : Rewind(g, kind)
            \/ CopyList \/ StoreSorted

LiveSpec == LiveInit /\ [][LiveNext]_liveVars

-----------------------------------------------------------------------------
(* Property *)

\* What a refresh overwrites, and what is appended twice, is wrong until the
\* next refresh and no longer: a game whose last event came before the copy that
\* is stored now is shown once if that was its creation (and there was room for
\* all), and not at all if it was its end.  (A creation taken after the end lists
\* the game for good.)
OneRefreshSettles ==
  \A g \in LiveGame \ unsettled :
    LET shown == Cardinality({k \in DOMAIN sortedList : sortedList[k] = g}) IN
    /\ last[g] = "created" /\ ~cut => shown = 1
    /\ last[g] = "ended" => shown = 0

=============================================================================
