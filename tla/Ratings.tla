------------------------------ MODULE Ratings ------------------------------
(***************************************************************************)
(* The rating service: each instance takes game.ended events one at a time *)
(* (handleGameEnded), reads the two players' rows, computes the new scores *)
(* (CalculateElo) and writes rows and history in one transaction.          *)
(***************************************************************************)
EXTENDS Integers, Sequences, FiniteSets, FiniteSetsExt

CONSTANTS
  RatedUser, RatedGame, NoRated,
  Instance,
  MinScore,               \* also the base score of a new player
  KnightTop, RookTop,     \* the levels' bounds that CalculateElo tells apart
  KNew, KIntermediate, KExpert,
  Expected,               \* permille expected of a player, by s2 - s1
  MaxConns,               \* connections of an instance's pool
  RepoMayFail,
  MaxDeliveries           \* bound: how often an event is delivered

ASSUME RatingsAssumption ==
  /\ NoRated \notin RatedGame /\ MinScore \in Nat /\ MaxDeliveries \in Nat
  /\ {KNew, KIntermediate, KExpert, MaxConns} \subseteq Nat \ {0}
  /\ \A d \in DOMAIN Expected :
       Expected[d] \in 0..1000 /\ Expected[-d] = 1000 - Expected[d]
  /\ RepoMayFail \in BOOLEAN

VARIABLES
  endings,      \* the game.ended event of each game
  deliveries,   \* of each game
  inst,         \* of each instance: its pc, the game in hand, the rows it has read
  rows,         \* table ratings; a missing row is that of a new player
  history,      \* table game_elo_changes
  leaked,       \* of each instance, the connections whose transaction never ends
  raced         \* history: users whose row was written from an old reading

ratingsVars == <<endings, deliveries, inst, rows, history, leaked, raced>>

NewPlayer == [score |-> MinScore, best |-> 0, played |-> 0, won |-> 0, lost |-> 0, draw |-> 0]
\* An announced end has a result: EndHasOutcome of GameService.
Endings ==
  {e \in [p1: RatedUser, p2: RatedUser, p1White: BOOLEAN, outcome: {"1-0", "0-1", "1/2"}] :
     e.p1 # e.p2}
Resting == [pc |-> "idle", game |-> NoRated, r1 |-> NewPlayer, r2 |-> NewPlayer]
Row == [score: Nat, best: Nat, played: Nat, won: Nat, lost: Nat, draw: Nat]

RatingsTypeOK ==
  /\ endings \in [RatedGame -> Endings]
  /\ deliveries \in [RatedGame -> 0..MaxDeliveries]
  /\ inst \in [Instance -> [pc: {"idle", "second", "update"}, game: RatedGame \cup {NoRated},
                            r1: Row, r2: Row]]
  /\ rows \in [RatedUser -> Row]
  /\ \A u \in RatedUser : rows[u].score >= MinScore
  /\ leaked \in [Instance -> 0..MaxConns] /\ raced \subseteq RatedUser
  /\ \A k \in DOMAIN history :
       history[k] \in [user: RatedUser, game: RatedGame, change: Int,
                       result: {"win", "draw", "loss"}]

RatingsInit ==
  /\ endings \in [RatedGame -> Endings]
  /\ deliveries = [g \in RatedGame |-> 0]
  /\ inst = [i \in Instance |-> Resting]
  /\ rows = [u \in RatedUser |-> NewPlayer]
  /\ history = <<>> /\ leaked = [i \in Instance |-> 0] /\ raced = {}

-----------------------------------------------------------------------------
(* pkg/elo *)

KFactor(s) == IF s <= KnightTop THEN KNew ELSE IF s <= RookTop THEN KIntermediate ELSE KExpert

\* score is 1000 for a win, 500 for a draw, 0 for a loss; the result is cut to
\* an integer.
CalculateElo(s1, s2, score) ==
  LET new == 1000 * s1 + KFactor(s1) * (score - Expected[s2 - s1]) IN
  IF new < 1000 * MinScore THEN MinScore ELSE new \div 1000

Score1(e) == CASE e.outcome = "1/2" -> 500
               [] e.outcome # "1/2" /\ (e.outcome = "1-0") = e.p1White -> 1000
               [] OTHER -> 0
ResultOf(score) == CASE score = 1000 -> "win" [] score = 0 -> "loss" [] OTHER -> "draw"

\* updateGameStats looks at the outcome and the colour again.
Stats(r, e, first) ==
  LET mine == (e.outcome = "1-0") = (e.p1White = first) IN
  CASE e.outcome = "1/2" -> [r EXCEPT !.played = @ + 1, !.draw = @ + 1]
    [] e.outcome # "1/2" /\ mine -> [r EXCEPT !.played = @ + 1, !.won = @ + 1]
    [] OTHER -> [r EXCEPT !.played = @ + 1, !.lost = @ + 1]

Scored(r, elo) == [r EXCEPT !.score = elo, !.best = IF @ < elo THEN elo ELSE @]

-----------------------------------------------------------------------------
(* handleGameEnded *)

\* Every call of the database waits for a connection.
HasConn(i) == leaked[i] < MaxConns

ReadFirst(i, g) ==
  /\ inst[i].pc = "idle" /\ HasConn(i)
  /\ deliveries[g] < MaxDeliveries
  /\ deliveries' = [deliveries EXCEPT ![g] = @ + 1]
  /\ \/ inst' = [inst EXCEPT ![i] = [Resting EXCEPT !.pc = "second", !.game = g,
                                                    !.r1 = rows[endings[g].p1]]]
     \/ RepoMayFail /\ UNCHANGED inst
  /\ UNCHANGED <<endings, rows, history, leaked, raced>>

ReadSecond(i) ==
  /\ inst[i].pc = "second" /\ HasConn(i)
  /\ \/ inst' = [inst EXCEPT ![i].pc = "update", ![i].r2 = rows[endings[inst[i].game].p2]]
     \/ RepoMayFail /\ inst' = [inst EXCEPT ![i] = Resting]
  /\ UNCHANGED <<endings, deliveries, rows, history, leaked, raced>>

\* The users of whom instance i holds a row.
ReadBy(i) == LET e == endings[inst[i].game] IN
             CASE inst[i].pc = "idle" -> {} [] inst[i].pc = "second" -> {e.p1}
               [] OTHER -> {e.p1, e.p2}

Elo1(i) == CalculateElo(inst[i].r1.score, inst[i].r2.score, Score1(endings[inst[i].game]))
Elo2(i) == CalculateElo(inst[i].r2.score, inst[i].r1.score, 1000 - Score1(endings[inst[i].game]))

Rows(i) ==
  LET e == endings[inst[i].game] IN
  [rows EXCEPT ![e.p1] = Stats(Scored(inst[i].r1, Elo1(i)), e, TRUE),
               ![e.p2] = Stats(Scored(inst[i].r2, Elo2(i)), e, FALSE)]

Changes(i) ==
  LET g == inst[i].game  e == endings[g] IN
  <<[user |-> e.p1, game |-> g, change |-> Elo1(i) - inst[i].r1.score,
     result |-> ResultOf(Score1(e))],
    [user |-> e.p2, game |-> g, change |-> Elo2(i) - inst[i].r2.score,
     result |-> ResultOf(1000 - Score1(e))]>>

\* (mutant of Update) the rows are written before, not in the transaction.
UpdateRowsFirst(i) ==
  /\ inst[i].pc = "update" /\ HasConn(i)
  /\ rows' = Rows(i)
  /\ raced' = raced \cup UNION {ReadBy(j) \cap ReadBy(i) : j \in Instance \ {i}}
  /\ \/ history' = history \o Changes(i) /\ UNCHANGED leaked
     \/ RepoMayFail /\ leaked' = [leaked EXCEPT ![i] = @ + 1] /\ UNCHANGED history
  /\ inst' = [inst EXCEPT ![i] = Resting]
  /\ UNCHANGED <<endings, deliveries>>

\* Update: one transaction.  After a statement that failed it is neither
\* committed nor rolled back, and keeps its connection.
Update(i) ==
  /\ inst[i].pc = "update" /\ HasConn(i)
  /\ \/ /\ rows' = Rows(i)
        /\ history' = history \o Changes(i)
        /\ raced' = raced \cup UNION {ReadBy(j) \cap ReadBy(i) : j \in Instance \ {i}}
        /\ UNCHANGED leaked
     \/ /\ RepoMayFail
        /\ leaked' \in {leaked, [leaked EXCEPT ![i] = @ + 1]}
        /\ UNCHANGED <<rows, history, raced>>
  /\ inst' = [inst EXCEPT ![i] = Resting]
  /\ UNCHANGED <<endings, deliveries>>

RatingsNext ==
  \E i \in Instance :
    ReadSecond(i) \/ Update(i) \/ \E g \in RatedGame : ReadFirst(i, g)

RatingsSpec == RatingsInit /\ [][RatingsNext]_ratingsVars

-----------------------------------------------------------------------------
(* Property *)

Entries(u) == {k \in DOMAIN history : history[k].user = u}
Entered(u, result) == Cardinality({k \in Entries(u) : history[k].result = result})

\* A user's row tells what the history of his games tells: the score is the base
\* and the changes, the counters are the results, counted by another function.
\* Failures between the statements, an event delivered twice and a second
\* instance do not part them, unless two instances held the same row at once.
RowAgreesWithHistory ==
  \A u \in RatedUser \ raced :
    /\ rows[u].score = MinScore + MapThenSumSet(LAMBDA k : history[k].change, Entries(u))
    /\ rows[u].played = Cardinality(Entries(u))
    /\ rows[u].won = Entered(u, "win") /\ rows[u].lost = Entered(u, "loss")
    /\ rows[u].draw = Entered(u, "draw")

=============================================================================
