-------------------------- MODULE OrderedDelivery --------------------------
(***************************************************************************)
(* What the event bus promises the services that listen to it: every       *)
(* subscription is handed the events it wants of a partition one after the *)
(* other and in the order in which they were stored.  Partitions are not   *)
(* ordered between each other.  A new session of the consumer may go back, *)
(* so that events are handed again; only after a crash may it go forward,  *)
(* over at most one wanted event of each partition.                        *)
(***************************************************************************)
EXTENDS Naturals, Sequences

CONSTANTS Sub, Partition, Event,
          Wants               \* [Sub -> SUBSET Event]

VARIABLES
  log,       \* of each partition, the events stored
  seen,      \* [Sub -> [Partition -> Nat]]: the last event that is done with
  mayMiss    \* the partitions that have not been consumed since a crash

vars == <<log, seen, mayMiss>>

\* The wanted events after the one at `from`, up to the one at `to`.
Wanted(s, p, from, to) == {n \in from + 1 .. to : log[p][n] \in Wants[s]}

Init ==
  /\ log = [p \in Partition |-> <<>>]
  /\ seen = [s \in Sub |-> [p \in Partition |-> 0]]
  /\ mayMiss = {}

\* A producer that retries may store an event twice.
Store(p) ==
  /\ \E e \in Event : \/ log' = [log EXCEPT ![p] = Append(@, e)]
                      \/ log' = [log EXCEPT ![p] = @ \o <<e, e>>]
  /\ UNCHANGED <<seen, mayMiss>>

\* The next wanted event of p.
Hand(s, p) ==
  /\ \E n \in seen[s][p] + 1 .. Len(log[p]) :
       /\ Wanted(s, p, seen[s][p], n) = {n}
       /\ seen' = [seen EXCEPT ![s][p] = n]
  /\ UNCHANGED <<log, mayMiss>>

\* The partitions of a session are consumed from the offsets last committed,
\* the same for every subscription.
Resume(parts) ==
  /\ seen' \in [Sub -> [Partition -> Nat]]
  /\ \A s \in Sub : \A p \in Partition \ parts : seen'[s][p] = seen[s][p]
  /\ \A p \in parts, s, t \in Sub :
       /\ seen'[s][p] = seen'[t][p] /\ seen'[s][p] <= Len(log[p])
       /\ \A m, n \in Wanted(s, p, seen[s][p], seen'[s][p]) : p \in mayMiss /\ m = n
  /\ mayMiss' = mayMiss \ parts
  /\ UNCHANGED log

Crash ==
  /\ mayMiss' = Partition
  /\ UNCHANGED <<log, seen>>

Next ==
  \/ \E p \in Partition : Store(p) \/ \E s \in Sub : Hand(s, p)
  \/ \E parts \in SUBSET Partition : Resume(parts)
  \/ Crash

Spec == Init /\ [][Next]_vars

=============================================================================
