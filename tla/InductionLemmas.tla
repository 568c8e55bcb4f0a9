-------------------------- MODULE InductionLemmas --------------------------
(***************************************************************************)
(* Induction over numbers for the proofs about recursive functions, sums   *)
(* and counts.  The library's theorems of induction have an operator for a *)
(* parameter; here a set takes its place, and the least element of a set   *)
(* of natural numbers is what they rest on.                                *)
(***************************************************************************)
EXTENDS Integers, WellFoundedInduction, TLAPS

\* A set of natural numbers has a least element.
LEMMA NatMin ==
  ASSUME NEW T \in SUBSET Nat, T # {}
  PROVE  \E x \in T : \A y \in T : x <= y
<1>1. IsWellFoundedOn(OpToRel(<, Nat), Nat)
  BY NatLessThanWellFounded
<1>3. \A x, y \in Nat : x < y => <<x, y>> \in OpToRel(<, Nat)
  BY DEF OpToRel
<1>4. PICK x \in T : \A y \in T : ~ (<<y, x>> \in OpToRel(<, Nat))
  BY <1>1, WFMin
<1>5. \A y \in T : ~(y < x)
  BY <1>3, <1>4
<1> QED BY <1>5

\* Induction, of a set: what has 0 and with each number the next has all.
LEMMA UpTo ==
  ASSUME NEW n \in Nat, NEW G, 0 \in G, \A i \in 1..n : i - 1 \in G => i \in G
  PROVE  0..n \subseteq G
<1> DEFINE Bad == {i \in 0..n : i \notin G}
<1>1. SUFFICES ASSUME Bad # {} PROVE FALSE
  OBVIOUS
<1>2. PICK m \in Bad : \A i \in Bad : m <= i
  <2>1. Bad \in SUBSET Nat
    OBVIOUS
  <2> HIDE DEF Bad
  <2> QED BY <1>1, <2>1, NatMin
<1>3. m \in 1..n /\ m - 1 \notin Bad
  BY <1>2
<1> QED BY <1>3

\* The same from n down.
LEMMA DownTo ==
  ASSUME NEW n \in Nat, NEW G, n \in G, \A i \in 1..n : i \in G => i - 1 \in G
  PROVE  0..n \subseteq G
<1> DEFINE H == {i \in 0..n : n - i \in G}
<1>1. 0 \in H /\ \A i \in 1..n : i - 1 \in H => i \in H
  <2>1. 0 \in H
    OBVIOUS
  <2>2. ASSUME NEW i \in 1..n, i - 1 \in H  PROVE i \in H
    <3>1. n - (i - 1) \in G /\ n - (i - 1) \in 1..n
      BY <2>2
    <3>2. (n - (i - 1)) - 1 = n - i
      OBVIOUS
    <3> QED BY <3>1, <3>2
  <2> QED BY <2>1, <2>2
<1>2. 0..n \subseteq H
  <2> HIDE DEF H
  <2> QED BY <1>1, UpTo
<1>3. ASSUME NEW i \in 0..n PROVE i \in G
  <2>1. n - i \in 0..n
    OBVIOUS
  <2>2. n - i \in H
    BY <1>2, <2>1
  <2>3. n - (n - i) = i
    OBVIOUS
  <2> QED BY <2>2, <2>3
<1> QED BY <1>3

\* f is the run of n steps from c.
Runs(f, n, S, c, step) ==
  f \in [0..n -> S] /\ f[0] = c /\ \A i \in 1..n : f[i] = step[i][f[i - 1]]

\* A recursive function exists: the steps may be taken one after the other.
LEMMA StepByStep ==
  ASSUME NEW n \in Nat, NEW S, NEW c \in S, NEW step \in [1..n -> [S -> S]]
  PROVE  \E f : Runs(f, n, S, c, step)
<1> DEFINE Good(m, f) == f[0] = c /\ \A i \in 1..m : f[i] = step[i][f[i - 1]]
           G == {m \in 0..n : \E f \in [0..m -> S] : Good(m, f)}
<1>1. 0 \in G
  <2> DEFINE g == [i \in 0..0 |-> c]
  <2>1. g \in [0..0 -> S] /\ g[0] = c
    OBVIOUS
  <2>2. Good(0, g)
    BY <2>1
  <2> HIDE DEF g
  <2> QED BY <2>1, <2>2
<1>2. ASSUME NEW m \in 1..n, m - 1 \in G  PROVE m \in G
  <2>1. PICK f \in [0..(m - 1) -> S] : Good(m - 1, f)
    BY <1>2
  <2> DEFINE g == [i \in 0..m |-> IF i = m THEN step[m][f[m - 1]] ELSE f[i]]
  <2>2. g \in [0..m -> S]
    <3>1. f[m - 1] \in S
      OBVIOUS
    <3>2. step[m][f[m - 1]] \in S
      BY <3>1
    <3> QED BY <3>2
  <2>3. g[0] = c
    BY <2>1
  <2>4. ASSUME NEW i \in 1..m PROVE g[i] = step[i][g[i - 1]]
    <3>1. CASE i = m
      BY <3>1
    <3>2. CASE i # m
      BY <3>2, <2>1
    <3> QED BY <3>1, <3>2
  <2>5. Good(m, g)
    <3> HIDE DEF g
    <3> QED BY <2>3, <2>4
  <2> HIDE DEF g, Good
  <2> QED BY <2>2, <2>5
<1>3. n \in G
  <2>1. \A m \in 1..n : m - 1 \in G => m \in G
    BY <1>2
  <2>2. 0..n \subseteq G
    <3> HIDE DEF G
    <3> QED BY <1>1, <2>1, UpTo
  <2> QED BY <2>2
<1> QED BY <1>3 DEF Runs

=============================================================================
