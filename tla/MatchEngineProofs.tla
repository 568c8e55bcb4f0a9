------------------------ MODULE MatchEngineProofs -------------------------
(***************************************************************************)
(* The safety properties of the match engine, for any users, requests and  *)
(* number of levels.  First what one tick finds: findMatches goes through  *)
(* the levels by a recursive function, so this is by induction.  Then the  *)
(* types and the inductive invariants of the queue and of the matches.     *)
(***************************************************************************)
EXTENDS MatchEngine, InductionLemmas

-----------------------------------------------------------------------------
(* What one tick pairs *)

\* What is paired of p is paired of p \o q, and the one left over of p goes in
\* front of q.
LEMMA PairsOfConcat ==
  ASSUME NEW X, NEW p \in Seq(X), NEW q \in Seq(X)
  PROVE  /\ Pairs(p \o q) = Pairs(p) \cup Pairs(Rest(p) \o q)
         /\ Rest(p \o q) = Rest(Rest(p) \o q)
         /\ Rest(p) \in Seq(X)
<1> DEFINE h == Len(p) \div 2
           s == p \o q
           t == Rest(p) \o q
<1>1. /\ Rest(p) \in Seq(X) /\ h \in Nat /\ s \in Seq(X) /\ t \in Seq(X)
      /\ Len(s) = Len(p) + Len(q) /\ Len(p) = 2 * h + Len(Rest(p))
  BY DEF Rest
<1>2. Len(t) = Len(s) - 2 * h
  BY SMTT(20), <1>1
<1>3. ASSUME NEW i \in 1..Len(t) PROVE t[i] = s[2 * h + i]
  <2>1. CASE Len(p) % 2 = 1
    <3>1. Rest(p) = <<p[Len(p)]>> /\ Len(p) = 2 * h + 1
      BY <2>1 DEF Rest
    <3>2. CASE i = 1
      BY <3>1, <3>2
    <3>3. CASE i # 1
      BY <3>1, <3>3, <1>1, <1>2
    <3> QED BY <3>2, <3>3
  <2>2. CASE Len(p) % 2 # 1
    <3>1. Rest(p) = <<>> /\ Len(p) = 2 * h
      BY <2>2 DEF Rest
    <3> QED BY <3>1, <1>1, <1>2
  <2> QED BY <2>1, <2>2
<1>4. \A i \in 1..Len(p) : s[i] = p[i]
  OBVIOUS
<1>4a. \A a, b \in Nat : (2 * a + b) \div 2 = a + b \div 2 /\ (2 * a + b) % 2 = b % 2
  OBVIOUS
<1>4b. Len(t) \in Nat /\ Len(s) = 2 * h + Len(t)
  <2> HIDE DEF s, t, h
  <2>1. Len(t) \in Nat /\ Len(s) \in Nat
    BY <1>1
  <2>2. \A a, b, c \in Nat : a = b - 2 * c => b = 2 * c + a
    OBVIOUS
  <2>3. h \in Nat
    BY <1>1
  <2> QED BY <2>1, <2>2, <2>3, <1>2
<1>5. Len(s) \div 2 = h + Len(t) \div 2 /\ Len(t) \in Nat
  <2> HIDE DEF s, t, h
  <2> QED BY <1>1, <1>4a, <1>4b
<1>6. Rest(s) = Rest(t)
  <2>1. Len(s) % 2 = Len(t) % 2
    <3> HIDE DEF s, t, h
    <3> QED BY <1>1, <1>4a, <1>4b
  <2>2. CASE Len(t) = 0
    <3> HIDE DEF s, t, h
    <3> QED BY <2>1, <2>2 DEF Rest
  <2>3. CASE Len(t) # 0
    <3> HIDE DEF s, t, h
    <3>1. t[Len(t)] = s[Len(s)]
      BY SMTT(20), <2>3, <1>1, <1>2, <1>3
    <3> QED BY <2>1, <3>1 DEF Rest
  <2> QED BY <2>2, <2>3
<1>7. Pairs(s) = Pairs(p) \cup Pairs(t)
  <2>1. ASSUME NEW k \in 1..h
        PROVE  {s[2 * k - 1], s[2 * k]} = {p[2 * k - 1], p[2 * k]}
    <3>1. 2 * k - 1 \in 1..Len(p) /\ 2 * k \in 1..Len(p)
      <4> HIDE DEF s, t, h
      <4> QED BY <1>1
    <3> QED BY <3>1, <1>4
  <2>2. ASSUME NEW k \in 1..(Len(t) \div 2)
        PROVE  {t[2 * k - 1], t[2 * k]} = {s[2 * (h + k) - 1], s[2 * (h + k)]}
    <3> HIDE DEF s, t, h
    <3>1. 2 * k - 1 \in 1..Len(t) /\ 2 * k \in 1..Len(t)
      BY <1>5
    <3>2. 2 * h + (2 * k - 1) = 2 * (h + k) - 1 /\ 2 * h + 2 * k = 2 * (h + k)
      BY <1>1
    <3> QED BY <3>1, <3>2, <1>3
  <2>3. Pairs(p) \subseteq Pairs(s)
    <3> SUFFICES ASSUME NEW k \in 1..h PROVE {p[2 * k - 1], p[2 * k]} \in Pairs(s)
      BY DEF Pairs
    <3>1. k \in 1..(Len(s) \div 2)
      <4> HIDE DEF s, t, h
      <4> QED BY <1>1, <1>5
    <3>2. {s[2 * k - 1], s[2 * k]} \in Pairs(s)
      <4> HIDE DEF s, t, h
      <4> QED BY <3>1 DEF Pairs
    <3> QED BY <2>1, <3>2
  <2>4. Pairs(t) \subseteq Pairs(s)
    <3> HIDE DEF s, t, h
    <3> SUFFICES ASSUME NEW k \in 1..(Len(t) \div 2) PROVE {t[2 * k - 1], t[2 * k]} \in Pairs(s)
      BY DEF Pairs
    <3>1. h + k \in 1..(Len(s) \div 2)
      BY <1>1, <1>5
    <3>2. {s[2 * (h + k) - 1], s[2 * (h + k)]} \in Pairs(s)
      BY <3>1 DEF Pairs
    <3> QED BY <2>2, <3>2
  <2>5. Pairs(s) \subseteq Pairs(p) \cup Pairs(t)
    <3> SUFFICES ASSUME NEW k \in 1..(Len(s) \div 2)
                 PROVE  {s[2 * k - 1], s[2 * k]} \in Pairs(p) \cup Pairs(t)
      BY DEF Pairs
    <3>1. CASE k <= h
      <4>1. k \in 1..h
        BY <3>1
      <4>2. {p[2 * k - 1], p[2 * k]} \in Pairs(p)
        BY <4>1 DEF Pairs
      <4> QED BY <4>1, <4>2, <2>1
    <3>2. CASE k > h
      <4> DEFINE j == k - h
      <4>1. j \in 1..(Len(t) \div 2) /\ h + j = k
        <5> HIDE DEF s, t, h
        <5> QED BY <3>2, <1>1, <1>5
      <4>2. {t[2 * j - 1], t[2 * j]} \in Pairs(t)
        <5> HIDE DEF s, t, h, j
        <5> QED BY <4>1 DEF Pairs
      <4>3. {t[2 * j - 1], t[2 * j]} = {s[2 * k - 1], s[2 * k]}
        <5> HIDE DEF s, t, h, j
        <5> QED BY <4>1, <2>2
      <4> QED BY <4>2, <4>3
    <3>3. k <= h \/ k > h
      <4> HIDE DEF s, t, h
      <4> QED BY <1>1, <1>5
    <3> QED BY <3>1, <3>2, <3>3
  <2> QED BY <2>3, <2>4, <2>5
<1> QED BY <1>1, <1>6, <1>7

\* Of a line in which nobody stands twice, those who are paired and the one
\* left over are all, and nobody is both.
LEMMA PairsOfLine ==
  ASSUME NEW X, NEW s \in Seq(X), \A i, j \in 1..Len(s) : s[i] = s[j] => i = j
  PROVE  Elements(Rest(s)) = Elements(s) \ UNION Pairs(s)
<1>1. UNION Pairs(s) = {s[i] : i \in 1..2 * (Len(s) \div 2)}
  <2>1. ASSUME NEW i \in 1..2 * (Len(s) \div 2) PROVE s[i] \in UNION Pairs(s)
    <3>1. PICK k \in 1..(Len(s) \div 2) : i = 2 * k - 1 \/ i = 2 * k
      <4>1. CASE i % 2 = 1
        <5>1. (i + 1) \div 2 \in 1..(Len(s) \div 2) /\ i = 2 * ((i + 1) \div 2) - 1
          BY <4>1
        <5> QED BY <5>1
      <4>2. CASE i % 2 = 0
        <5>1. i \div 2 \in 1..(Len(s) \div 2) /\ i = 2 * (i \div 2)
          BY <4>2
        <5> QED BY <5>1
      <4> QED BY <4>1, <4>2
    <3>2. {s[2 * k - 1], s[2 * k]} \in Pairs(s)
      BY DEF Pairs
    <3> QED BY <3>1, <3>2
  <2>2. ASSUME NEW k \in 1..(Len(s) \div 2)
        PROVE  {s[2 * k - 1], s[2 * k]} \subseteq {s[i] : i \in 1..2 * (Len(s) \div 2)}
    <3>1. 2 * k - 1 \in 1..2 * (Len(s) \div 2) /\ 2 * k \in 1..2 * (Len(s) \div 2)
      OBVIOUS
    <3> QED BY <3>1
  <2> QED BY SMTT(20), <2>1, <2>2 DEF Pairs
<1>2. CASE Len(s) % 2 = 1
  <2>1. Len(s) = 2 * (Len(s) \div 2) + 1 /\ Rest(s) = <<s[Len(s)]>>
    BY <1>2 DEF Rest
  <2>2. Elements(Rest(s)) = {s[Len(s)]}
    BY <2>1 DEF Elements
  <2>3. Elements(s) = {s[i] : i \in 1..Len(s)}
    BY DEF Elements
  <2>4. s[Len(s)] \notin UNION Pairs(s) /\ Len(s) \in 1..Len(s)
    BY <1>1, <2>1
  <2>5. ASSUME NEW i \in 1..Len(s), s[i] \notin UNION Pairs(s) PROVE i = Len(s)
    <3>1. PICK n \in Nat : n = Len(s) \div 2
      OBVIOUS
    <3>2. i \notin 1..2 * n
      BY <1>1, <2>5, <3>1
    <3>3. Len(s) = 2 * n + 1
      BY <2>1, <3>1
    <3> QED BY <3>2, <3>3
  <2> QED BY <2>2, <2>3, <2>4, <2>5
<1>3. CASE Len(s) % 2 # 1
  <2>1. Len(s) = 2 * (Len(s) \div 2) /\ Rest(s) = <<>>
    BY <1>3 DEF Rest
  <2>2. Elements(Rest(s)) = {}
    BY <2>1 DEF Elements
  <2>3. Elements(s) = {s[i] : i \in 1..Len(s)}
    BY DEF Elements
  <2> QED BY <1>1, <2>1, <2>2, <2>3
<1> QED BY <1>2, <1>3

\* What the lemmas about the sweep need of the types.
QueuesOK == queue \in [Level -> Seq(Request)]
\* What is carried from a level to the next.
Carried  == [rest: Seq(Request), pairs: SUBSET SUBSET Request]

\* Pairs and Rest stay among the elements of the sequence.
LEMMA PairsType ==
  ASSUME NEW X, NEW s \in Seq(X)
  PROVE  Rest(s) \in Seq(X) /\ Pairs(s) \subseteq SUBSET X
<1>1. Rest(s) \in Seq(X)
  BY DEF Rest
<1>2. ASSUME NEW k \in 1..(Len(s) \div 2) PROVE {s[2 * k - 1], s[2 * k]} \subseteq X
  <2>1. 2 * k - 1 \in 1..Len(s) /\ 2 * k \in 1..Len(s)
    OBVIOUS
  <2> QED BY <2>1
<1> QED BY SMTT(20), <1>1, <1>2 DEF Pairs

\* LineFrom is what its recursive definition says, and so is SweepFrom.
LEMMA LineFromDef ==
  ASSUME QueuesOK
  PROVE  /\ LineFrom[0] = <<>>
         /\ \A l \in Level : LineFrom[l] = queue[l] \o LineFrom[l - 1]
<1>0. MaxLevel \in Nat
  BY EngineAssumption
<1> DEFINE step == [l \in 1..MaxLevel |-> [x \in Seq(Request) |-> queue[l] \o x]]
<1>1. step \in [1..MaxLevel -> [Seq(Request) -> Seq(Request)]]
  BY DEF QueuesOK, Level
<1>2. PICK f : Runs(f, MaxLevel, Seq(Request), <<>>, step)
  <2> DEFINE c == <<>>
  <2>1. c \in Seq(Request)
    OBVIOUS
  <2>2. \E f : Runs(f, MaxLevel, Seq(Request), c, step)
    <3> HIDE DEF step, c
    <3> QED BY <1>0, <1>1, <2>1, StepByStep
  <2> QED BY <2>2
<1>2a. /\ f \in [0..MaxLevel -> Seq(Request)] /\ f[0] = <<>>
       /\ \A i \in 1..MaxLevel : f[i] = step[i][f[i - 1]]
  <2> HIDE DEF step
  <2> QED BY <1>2 DEF Runs
<1>3. f = [l \in 0..MaxLevel |-> IF l = 0 THEN <<>> ELSE queue[l] \o f[l - 1]]
  <2>1. ASSUME NEW l \in 1..MaxLevel PROVE f[l] = queue[l] \o f[l - 1]
    <3>1. f[l - 1] \in Seq(Request)
      BY <1>0, <1>2a
    <3>2. \A x \in Seq(Request) : step[l][x] = queue[l] \o x
      OBVIOUS
    <3> HIDE DEF step
    <3> QED BY <1>2a, <3>1, <3>2
  <2>2. \A l \in 0..MaxLevel : l = 0 \/ l \in 1..MaxLevel
    BY <1>0
  <2>3. \A l \in 1..MaxLevel : l # 0
    OBVIOUS
  <2>4. ASSUME NEW l \in 0..MaxLevel
        PROVE  f[l] = IF l = 0 THEN <<>> ELSE queue[l] \o f[l - 1]
    <3> HIDE DEF step
    <3> QED BY <1>2a, <2>1, <2>2, <2>3, Zenon
  <2> HIDE DEF step
  <2> QED BY <1>2a, <2>4
<1>4. LineFrom = [l \in 0..MaxLevel |-> IF l = 0 THEN <<>> ELSE queue[l] \o LineFrom[l - 1]]
  BY <1>3, Zenon DEF LineFrom
<1> QED BY <1>0, <1>4 DEF Level

LEMMA SweepFromDef ==
  ASSUME QueuesOK
  PROVE  /\ SweepFrom[MaxLevel + 1] = [rest |-> <<>>, pairs |-> {}]
         /\ \A l \in Level :
              SweepFrom[l] = [rest |-> Rest(SweepFrom[l + 1].rest \o queue[l]),
                              pairs |-> SweepFrom[l + 1].pairs
                                          \cup Pairs(SweepFrom[l + 1].rest \o queue[l])]
<1>0. MaxLevel \in Nat
  BY EngineAssumption
<1> DEFINE Falls(x, s) == [rest |-> Rest(s), pairs |-> x.pairs \cup Pairs(s)]
           step == [i \in 1..MaxLevel |->
                     [x \in Carried |-> Falls(x, x.rest \o queue[MaxLevel + 1 - i])]]
<1>1. step \in [1..MaxLevel -> [Carried -> Carried]]
  <2>1. ASSUME NEW i \in 1..MaxLevel, NEW x \in Carried
        PROVE  Falls(x, x.rest \o queue[MaxLevel + 1 - i]) \in Carried
    <3>1. x.rest \o queue[MaxLevel + 1 - i] \in Seq(Request)
      BY <1>0 DEF QueuesOK, Level, Carried
    <3>2. /\ Rest(x.rest \o queue[MaxLevel + 1 - i]) \in Seq(Request)
          /\ Pairs(x.rest \o queue[MaxLevel + 1 - i]) \subseteq SUBSET Request
      BY <3>1, PairsType
    <3> QED BY <3>2 DEF Carried
  <2> HIDE DEF Falls
  <2> QED BY <2>1
<1>2. PICK f : Runs(f, MaxLevel, Carried, [rest |-> <<>>, pairs |-> {}], step)
  <2> DEFINE c == [rest |-> <<>>, pairs |-> {}]
  <2>1. c \in Carried
    BY DEF Carried
  <2>2. \E f : Runs(f, MaxLevel, Carried, c, step)
    <3> HIDE DEF step, c
    <3> QED BY <1>0, <1>1, <2>1, StepByStep
  <2> QED BY <2>2
<1>2a. /\ f \in [0..MaxLevel -> Carried] /\ f[0] = [rest |-> <<>>, pairs |-> {}]
       /\ \A i \in 1..MaxLevel : f[i] = step[i][f[i - 1]]
  <2> HIDE DEF step
  <2> QED BY <1>2 DEF Runs
<1> DEFINE g == [l \in 1..MaxLevel + 1 |-> f[MaxLevel + 1 - l]]
<1>3. g = [l \in 1..MaxLevel + 1 |->
            IF l = MaxLevel + 1 THEN [rest |-> <<>>, pairs |-> {}]
            ELSE LET s == g[l + 1].rest \o queue[l] IN
                 [rest |-> Rest(s), pairs |-> g[l + 1].pairs \cup Pairs(s)]]
  <2>1. ASSUME NEW l \in 1..MaxLevel
        PROVE  g[l] = Falls(g[l + 1], g[l + 1].rest \o queue[l])
    <3> DEFINE i == MaxLevel + 1 - l
               x == f[i - 1]
    <3>1. /\ i \in 1..MaxLevel /\ i - 1 \in 0..MaxLevel /\ MaxLevel + 1 - i = l
          /\ MaxLevel + 1 - (l + 1) = i - 1
          /\ l \in 1..MaxLevel + 1 /\ l + 1 \in 1..MaxLevel + 1
      BY <1>0
    <3>2. x \in Carried
      <4> HIDE DEF i, step
      <4> QED BY <1>2a, <3>1
    <3>3. g[l + 1] = x /\ g[l] = f[i]
      <4> HIDE DEF step
      <4> QED BY <3>1
    <3>4. f[i] = step[i][x]
      <4> HIDE DEF step, i
      <4> QED BY <1>2a, <3>1
    <3>5. step[i][x] = Falls(x, x.rest \o queue[MaxLevel + 1 - i])
      <4> HIDE DEF i, x, Falls
      <4> QED BY <3>1, <3>2
    <3> HIDE DEF g, step, Falls, i, x
    <3> QED BY <3>1, <3>3, <3>4, <3>5
  <2>2. g[MaxLevel + 1] = [rest |-> <<>>, pairs |-> {}]
    <3>1. g[MaxLevel + 1] = f[0]
      BY <1>0
    <3> HIDE DEF g, step
    <3> QED BY <1>2a, <3>1
  <2>3. \A l \in 1..MaxLevel + 1 : l = MaxLevel + 1 \/ l \in 1..MaxLevel
    BY <1>0
  <2> QED BY <2>1, <2>2, <2>3
<1>4. SweepFrom = [l \in 1..MaxLevel + 1 |->
            IF l = MaxLevel + 1 THEN [rest |-> <<>>, pairs |-> {}]
            ELSE LET s == SweepFrom[l + 1].rest \o queue[l] IN
                 [rest |-> Rest(s), pairs |-> SweepFrom[l + 1].pairs \cup Pairs(s)]]
  <2> HIDE DEF g
  <2> QED BY <1>3, Zenon DEF SweepFrom
<1>5. /\ MaxLevel + 1 \in 1..MaxLevel + 1
      /\ \A l \in Level : l \in 1..MaxLevel + 1 /\ l # MaxLevel + 1
  BY <1>0 DEF Level
<1> HIDE DEF g, step
<1> QED BY <1>4, <1>5, Zenon

\* findMatches pairs the neighbours of the line, level by level.
LEMMA SweepIsOfLine ==
  ASSUME QueuesOK
  PROVE  /\ Line \in Seq(Request)
         /\ Sweep.pairs = Pairs(Line) /\ Sweep.rest = Rest(Line)
<1>0. MaxLevel \in Nat
  BY EngineAssumption
<1>1. \A l \in 0..MaxLevel : LineFrom[l] \in Seq(Request)
  <2> DEFINE G == {l \in 0..MaxLevel : LineFrom[l] \in Seq(Request)}
  <2>1. 0 \in G
    <3>1. <<>> \in Seq(Request) /\ 0 \in 0..MaxLevel
      BY <1>0
    <3> QED BY <3>1, LineFromDef, Zenon
  <2>2. ASSUME NEW l \in 1..MaxLevel, l - 1 \in G PROVE l \in G
    <3>1. l \in Level /\ l \in 0..MaxLevel /\ queue[l] \in Seq(Request)
      BY <1>0 DEF QueuesOK, Level
    <3>2. queue[l] \o LineFrom[l - 1] \in Seq(Request)
      BY <2>2, <3>1
    <3>3. LineFrom[l] \in Seq(Request)
      BY <3>1, <3>2, LineFromDef, Zenon
    <3> QED BY <3>1, <3>3
  <2>3. 0..MaxLevel \subseteq G
    <3>1. \A l \in 1..MaxLevel : l - 1 \in G => l \in G
      BY <2>2
    <3> HIDE DEF G
    <3> QED BY <1>0, <2>1, <3>1, UpTo
  <2> QED BY <2>3
<1> DEFINE at(l) == SweepFrom[l + 1]
           Done(l) == /\ at(l).rest \in Seq(Request)
                      /\ at(l).pairs \cup Pairs(at(l).rest \o LineFrom[l]) = Pairs(Line)
                      /\ Rest(at(l).rest \o LineFrom[l]) = Rest(Line)
           G == {l \in 0..MaxLevel : Done(l)}
<1>2. MaxLevel \in G
  <2>1. at(MaxLevel).rest = <<>> /\ at(MaxLevel).pairs = {}
    BY SweepFromDef
  <2>2. LineFrom[MaxLevel] \in Seq(Request)
    BY <1>0, <1>1
  <2>3. <<>> \o LineFrom[MaxLevel] = Line
    BY <2>2 DEF Line
  <2>4. Done(MaxLevel)
    <3>1. <<>> \in Seq(Request) /\ {} \cup Pairs(Line) = Pairs(Line)
      OBVIOUS
    <3> HIDE DEF at
    <3> QED BY <2>1, <2>3, <3>1, Zenon
  <2> QED BY <1>0, <2>4
<1>3. ASSUME NEW l \in 1..MaxLevel, l \in G PROVE l - 1 \in G
  <2> DEFINE p == at(l).rest \o queue[l]
             q == LineFrom[l - 1]
  <2>1. l - 1 + 1 = l /\ l - 1 \in 0..MaxLevel /\ l \in Level
    BY <1>0 DEF Level
  <2>2. at(l - 1).rest = Rest(p) /\ at(l - 1).pairs = at(l).pairs \cup Pairs(p)
    <3>1. at(l - 1) = SweepFrom[l]
      BY <2>1
    <3>2. at(l - 1) = [rest |-> Rest(p), pairs |-> at(l).pairs \cup Pairs(p)]
      <4> HIDE DEF at
      <4>1. at(l) = SweepFrom[l + 1]
        BY DEF at
      <4> QED BY <2>1, <3>1, <4>1, SweepFromDef, Zenon
    <3> HIDE DEF at, p
    <3> QED BY <3>2
  <2>3. q \in Seq(Request) /\ queue[l] \in Seq(Request) /\ at(l).rest \in Seq(Request)
    BY <1>1, <1>3, <2>1 DEF QueuesOK
  <2>4. at(l).rest \o LineFrom[l] = p \o q
    <3>1. LineFrom[l] = queue[l] \o q
      BY <2>1, LineFromDef
    <3>2. at(l).rest \o (queue[l] \o q) = (at(l).rest \o queue[l]) \o q
      <4>1. \A x, y, z \in Seq(Request) : x \o (y \o z) = (x \o y) \o z
        OBVIOUS
      <4> HIDE DEF at, q
      <4> QED BY <2>3, <4>1
    <3> HIDE DEF at, q
    <3> QED BY <3>1, <3>2, Zenon
  <2>5. p \in Seq(Request)
    BY <2>3
  <2>6. /\ Pairs(p \o q) = Pairs(p) \cup Pairs(Rest(p) \o q)
        /\ Rest(p \o q) = Rest(Rest(p) \o q)
        /\ Rest(p) \in Seq(Request)
    <3> HIDE DEF p, q
    <3> QED BY <2>3, <2>5, PairsOfConcat
  <2>7. Done(l)
    BY <1>3
  <2>8. Done(l - 1)
    <3> HIDE DEF at, p
    <3> QED BY <2>2, <2>4, <2>6, <2>7
  <2> QED BY <2>1, <2>8
<1>4. 0 \in G
  <2>1. \A l \in 1..MaxLevel : l \in G => l - 1 \in G
    BY <1>3
  <2>2. 0..MaxLevel \subseteq G
    <3> HIDE DEF G
    <3> QED BY <1>0, <1>2, <2>1, DownTo
  <2> QED BY <1>0, <2>2
<1>5. Sweep = at(0)
  BY DEF Sweep
<1>6. Sweep.rest \in Seq(Request) /\ Sweep.rest \o LineFrom[0] = Sweep.rest
  <2>1. Sweep.rest \in Seq(Request)
    BY <1>4, <1>5
  <2>2. Sweep.rest \o <<>> = Sweep.rest
    BY <2>1
  <2> QED BY <2>1, <2>2, LineFromDef, Zenon
<1>7. Sweep.pairs \cup Pairs(Sweep.rest) = Pairs(Line) /\ Rest(Sweep.rest) = Rest(Line)
  BY <1>4, <1>5, <1>6
<1>8. \E s \in Seq(Request) : Sweep.rest = Rest(s)
  <2>1. 1 \in Level
    BY EngineAssumption DEF Level
  <2> DEFINE s == SweepFrom[2].rest \o queue[1]
  <2>2. Sweep.rest = Rest(s)
    <3>1. Sweep = [rest |-> Rest(s), pairs |-> SweepFrom[1 + 1].pairs \cup Pairs(s)]
      <4>1. 1 + 1 = 2
        OBVIOUS
      <4> QED BY <2>1, <4>1, SweepFromDef DEF Sweep
    <3> HIDE DEF s
    <3> QED BY <3>1
  <2>3. 1 \in G
    <3>1. \A l \in 1..MaxLevel : l \in G => l - 1 \in G
      BY <1>3
    <3>2. 0..MaxLevel \subseteq G
      <4> HIDE DEF G
      <4> QED BY <1>0, <1>2, <3>1, DownTo
    <3> QED BY <2>1, <3>2, <1>0 DEF Level
  <2>4. SweepFrom[2].rest \in Seq(Request)
    BY <2>3
  <2>5. s \in Seq(Request)
    BY <2>1, <2>4 DEF QueuesOK
  <2> QED BY <2>2, <2>5
<1>9. Pairs(Sweep.rest) = {} /\ Rest(Sweep.rest) = Sweep.rest
  <2>1. PICK s \in Seq(Request) : Sweep.rest = Rest(s)
    BY <1>8
  <2>2. Len(Rest(s)) \div 2 = 0
    BY DEF Rest
  <2>3. Pairs(Rest(s)) = {}
    BY <2>2 DEF Pairs
  <2>4. Rest(Rest(s)) = Rest(s)
    BY DEF Rest
  <2> QED BY <2>1, <2>3, <2>4
<1>10. Line \in Seq(Request)
  BY <1>0, <1>1 DEF Line
<1> QED BY <1>7, <1>9, <1>10

\* Nobody is in s twice.
Once(s) == \A j, k \in DOMAIN s : s[j] = s[k] => j = k

\* The inductive invariant of the queue.
QueueInv ==
  /\ \A l \in Level : Once(queue[l])
  /\ \A l \in Level : \A r \in Elements(queue[l]) : level[r] = l
  /\ \A r, s \in Queued : user[r] = user[s] => r = s
  /\ NobodyGoneIsQueued

\* Those in the line are those in the queue, and nobody stands there twice.
LEMMA LineIsQueue ==
  ASSUME QueuesOK
  PROVE  Elements(Line) = Queued
<1>0. MaxLevel \in Nat
  BY EngineAssumption
<1> DEFINE To(l) == {x \in Request : \E k \in 1..l : x \in Elements(queue[k])}
           Good(l) == LineFrom[l] \in Seq(Request) /\ Elements(LineFrom[l]) = To(l)
           G == {l \in 0..MaxLevel : Good(l)}
<1>1. 0 \in G
  <2>1. <<>> \in Seq(Request) /\ Elements(<<>>) = {} /\ To(0) = {}
    BY DEF Elements
  <2>2. Good(0)
    <3> HIDE DEF To
    <3> QED BY <2>1, LineFromDef, Zenon
  <2> QED BY <1>0, <2>2
<1>2. ASSUME NEW l \in 1..MaxLevel, l - 1 \in G PROVE l \in G
  <2>1. l \in Level /\ queue[l] \in Seq(Request)
    BY DEF QueuesOK, Level
  <2>2. LineFrom[l] = queue[l] \o LineFrom[l - 1]
    BY <2>1, LineFromDef
  <2>3. \A s, t \in Seq(Request) : Elements(s \o t) = Elements(s) \cup Elements(t)
    <3> TAKE s, t \in Seq(Request)
    <3>1. \A i \in 1..Len(s) : (s \o t)[i] = s[i]
      OBVIOUS
    <3>2. ASSUME NEW i \in 1..Len(t) PROVE Len(s) + i \in DOMAIN (s \o t) /\ (s \o t)[Len(s) + i] = t[i]
      OBVIOUS
    <3>3. \A i \in DOMAIN (s \o t) : i \in 1..Len(s) \/ i - Len(s) \in 1..Len(t)
      OBVIOUS
    <3>4. \A i \in DOMAIN (s \o t) : i \notin 1..Len(s) => (s \o t)[i] = t[i - Len(s)]
      OBVIOUS
    <3>5. DOMAIN s = 1..Len(s) /\ DOMAIN t = 1..Len(t) /\ 1..Len(s) \subseteq DOMAIN (s \o t)
      OBVIOUS
    <3>6. Elements(s) \subseteq Elements(s \o t)
      BY <3>1, <3>5 DEF Elements
    <3>7. Elements(t) \subseteq Elements(s \o t)
      BY <3>2, <3>5 DEF Elements
    <3>8. Elements(s \o t) \subseteq Elements(s) \cup Elements(t)
      BY <3>1, <3>3, <3>4, <3>5 DEF Elements
    <3> QED BY <3>6, <3>7, <3>8
  <2>4. To(l) = Elements(queue[l]) \cup To(l - 1)
    <3>1. \A x \in Elements(queue[l]) : x \in Request
      BY <2>1 DEF Elements
    <3>2. \A k \in 1..l : k = l \/ k \in 1..(l - 1)
      OBVIOUS
    <3>3. l \in 1..l /\ 1..(l - 1) \subseteq 1..l
      OBVIOUS
    <3> QED BY <3>1, <3>2, <3>3
  <2>5. queue[l] \o LineFrom[l - 1] \in Seq(Request)
    BY <1>2, <2>1
  <2>6. Good(l)
    <3>1. Good(l - 1)
      BY <1>2
    <3> HIDE DEF To
    <3> QED BY <2>1, <2>2, <2>3, <2>4, <2>5, <3>1
  <2> QED BY <2>6
<1>3. MaxLevel \in G
  <2>1. \A l \in 1..MaxLevel : l - 1 \in G => l \in G
    BY <1>2
  <2>2. 0..MaxLevel \subseteq G
    <3> HIDE DEF G
    <3> QED BY <1>0, <1>1, <2>1, UpTo
  <2>3. MaxLevel \in 0..MaxLevel
    BY <1>0
  <2> HIDE DEF G
  <2> QED BY <2>2, <2>3
<1>4. To(MaxLevel) = Queued
  <2>1. \A l \in Level : \A x \in Elements(queue[l]) : x \in Request
    BY DEF QueuesOK, Elements
  <2> QED BY <2>1 DEF Queued, Level
<1> QED BY <1>3, <1>4 DEF Line

LEMMA LineOnce ==
  ASSUME QueuesOK, QueueInv
  PROVE  Once(Line)
<1>0. MaxLevel \in Nat
  BY EngineAssumption
<1> DEFINE Low(l) == \A x \in Elements(LineFrom[l]) : x \in Request /\ level[x] \in 1..l
           Good(l) == LineFrom[l] \in Seq(Request) /\ Once(LineFrom[l]) /\ Low(l)
           G == {l \in 0..MaxLevel : Good(l)}
<1>1. 0 \in G
  <2>1. <<>> \in Seq(Request) /\ Elements(<<>>) = {} /\ Once(<<>>)
    BY DEF Elements, Once
  <2>2. Good(0)
    BY <2>1, LineFromDef, Zenon
  <2> QED BY <1>0, <2>2
<1>2. ASSUME NEW l \in 1..MaxLevel, l - 1 \in G PROVE l \in G
  <2> DEFINE s == queue[l]
             t == LineFrom[l - 1]
  <2>1. l \in Level /\ s \in Seq(Request) /\ t \in Seq(Request)
    BY <1>2 DEF QueuesOK, Level
  <2>2. LineFrom[l] = s \o t
    BY <2>1, LineFromDef
  <2>3. Once(s) /\ Once(t)
    BY <1>2, <2>1 DEF QueueInv
  <2>4. \A i \in 1..Len(s) : level[s[i]] = l
    <3>1. \A i \in 1..Len(s) : s[i] \in Elements(s)
      BY <2>1 DEF Elements
    <3> QED BY <2>1, <3>1 DEF QueueInv
  <2>5. \A i \in 1..Len(t) : level[t[i]] \in 1..(l - 1)
    <3>1. \A i \in 1..Len(t) : t[i] \in Elements(t)
      BY <2>1 DEF Elements
    <3> QED BY <1>2, <3>1
  <2>6. ASSUME NEW i \in 1..Len(s \o t)
        PROVE  \/ i \in 1..Len(s) /\ (s \o t)[i] = s[i] /\ level[(s \o t)[i]] = l
               \/ i - Len(s) \in 1..Len(t) /\ (s \o t)[i] = t[i - Len(s)] /\ level[(s \o t)[i]] \in 1..(l - 1)
    <3> HIDE DEF s, t
    <3>1. CASE i <= Len(s)
      <4>1. i \in 1..Len(s) /\ (s \o t)[i] = s[i]
        BY <2>1, <3>1
      <4> QED BY <2>4, <4>1
    <3>2. CASE i > Len(s)
      <4>1. i - Len(s) \in 1..Len(t) /\ (s \o t)[i] = t[i - Len(s)]
        BY <2>1, <3>2
      <4> QED BY <2>5, <4>1
    <3> QED BY <2>1, <3>1, <3>2
  <2>7. l \notin 1..(l - 1)
    OBVIOUS
  <2>8. Once(s \o t)
    <3> SUFFICES ASSUME NEW i \in 1..Len(s \o t), NEW j \in 1..Len(s \o t), (s \o t)[i] = (s \o t)[j]
                 PROVE  i = j
      <4> HIDE DEF s, t
      <4>1. DOMAIN (s \o t) = 1..Len(s \o t)
        BY <2>1
      <4> QED BY <4>1 DEF Once
    <3> HIDE DEF s, t
    <3>1. CASE i \in 1..Len(s) /\ (s \o t)[i] = s[i] /\ level[(s \o t)[i]] = l
      <4>1. j \in 1..Len(s) /\ (s \o t)[j] = s[j]
        BY <2>6, <2>7, <3>1
      <4>2. s[i] = s[j]
        BY <3>1, <4>1, Zenon
      <4>3. DOMAIN s = 1..Len(s)
        BY <2>1
      <4> QED BY <2>3, <3>1, <4>1, <4>2, <4>3, Zenon DEF Once
    <3>2. CASE i - Len(s) \in 1..Len(t) /\ (s \o t)[i] = t[i - Len(s)] /\ level[(s \o t)[i]] \in 1..(l - 1)
      <4>1. j - Len(s) \in 1..Len(t) /\ (s \o t)[j] = t[j - Len(s)]
        BY <2>6, <2>7, <3>2
      <4>2. i - Len(s) = j - Len(s)
        <5>1. t[i - Len(s)] = t[j - Len(s)]
          BY <3>2, <4>1, Zenon
        <5>2. DOMAIN t = 1..Len(t)
          BY <2>1
        <5> QED BY <2>3, <3>2, <4>1, <5>1, <5>2, Zenon DEF Once
      <4>3. \A a \in Nat : i - a = j - a => i = j
        OBVIOUS
      <4> QED BY <2>1, <4>2, <4>3
    <3> QED BY <2>6, <3>1, <3>2
  <2>9. Low(l)
    <3> SUFFICES ASSUME NEW i \in 1..Len(s \o t) PROVE (s \o t)[i] \in Request /\ level[(s \o t)[i]] \in 1..l
      <4>1. LineFrom[l] \in Seq(Request) /\ LineFrom[l] = s \o t
        BY <2>1, <2>2
      <4>2. DOMAIN (s \o t) = 1..Len(s \o t)
        BY <2>1
      <4> QED BY <4>1, <4>2 DEF Elements
    <3>1. (s \o t)[i] \in Request
      <4>1. s \o t \in Seq(Request)
        BY <2>1
      <4> HIDE DEF s, t
      <4> QED BY <4>1
    <3>2. l \in 1..l /\ 1..(l - 1) \subseteq 1..l
      OBVIOUS
    <3> HIDE DEF s, t
    <3> QED BY <2>6, <3>1, <3>2
  <2>10. s \o t \in Seq(Request)
    BY <2>1
  <2> HIDE DEF s, t
  <2>11. Good(l)
    BY <2>2, <2>8, <2>9, <2>10
  <2> QED BY <2>11
<1>3. MaxLevel \in G
  <2>1. \A l \in 1..MaxLevel : l - 1 \in G => l \in G
    BY <1>2
  <2>2. 0..MaxLevel \subseteq G
    <3> HIDE DEF G
    <3> QED BY <1>0, <1>1, <2>1, UpTo
  <2> QED BY <1>0, <2>2
<1> QED BY <1>3 DEF Line

\* What one tick finds: neighbours of the line, who are in the queue, and one
\* request of the queue at most is left over.
LEMMA Found ==
  ASSUME QueuesOK
  PROVE  /\ Sweep.pairs \subseteq Pairing
         /\ \A m \in Sweep.pairs : m # {} /\ m \subseteq Queued
         /\ Sweep.rest \in Seq(Request) /\ Elements(Sweep.rest) \subseteq Queued
         /\ Sweep.rest = <<>> \/ \E r \in Queued : Sweep.rest = <<r>> /\ Elements(Sweep.rest) = {r}
<1>1. /\ Line \in Seq(Request) /\ Sweep.pairs = Pairs(Line) /\ Sweep.rest = Rest(Line)
      /\ Elements(Line) = Queued
  BY SweepIsOfLine, LineIsQueue
<1>2. \A i \in 1..Len(Line) : Line[i] \in Queued /\ Line[i] \in Request
  BY <1>1 DEF Elements
<1>3. ASSUME NEW k \in 1..(Len(Line) \div 2)
      PROVE  /\ {Line[2 * k - 1], Line[2 * k]} \in Pairing
             /\ {Line[2 * k - 1], Line[2 * k]} \subseteq Queued
  <2>1. 2 * k - 1 \in 1..Len(Line) /\ 2 * k \in 1..Len(Line)
    BY <1>1
  <2> QED BY <1>2, <2>1 DEF Pairing
<1>4. Sweep.rest \in Seq(Request)
  BY <1>1, PairsType
<1>5. Sweep.rest = <<>> \/ \E r \in Queued : Sweep.rest = <<r>> /\ Elements(Sweep.rest) = {r}
  <2>1. CASE Len(Line) % 2 = 1
    <3>1. Len(Line) \in 1..Len(Line) /\ Rest(Line) = <<Line[Len(Line)]>>
      BY <1>1, <2>1 DEF Rest
    <3>2. Elements(<<Line[Len(Line)]>>) = {Line[Len(Line)]}
      BY DEF Elements
    <3> QED BY <1>1, <1>2, <3>1, <3>2
  <2>2. CASE Len(Line) % 2 # 1
    BY <1>1, <2>2 DEF Rest
  <2> QED BY <2>1, <2>2
<1>6. Elements(Sweep.rest) \subseteq Queued
  <2>1. Elements(<<>>) = {}
    BY DEF Elements
  <2> QED BY <1>5, <2>1
<1>7. ASSUME NEW m \in Pairs(Line)
      PROVE  m \in Pairing /\ m # {} /\ m \subseteq Queued
  <2>1. PICK k \in 1..(Len(Line) \div 2) : m = {Line[2 * k - 1], Line[2 * k]}
    BY DEF Pairs
  <2> QED BY <1>3, <2>1
<1> QED BY <1>1, <1>4, <1>5, <1>6, <1>7

\* What cancelRequest leaves of a level's queue: less, and nobody of that user.
LEMMA WithoutFirstIs ==
  ASSUME NEW s \in Seq(Request), NEW u
  PROVE  /\ WithoutFirst(s, u) \in Seq(Request)
         /\ Elements(WithoutFirst(s, u)) \subseteq Elements(s)
         /\ Once(s) => Once(WithoutFirst(s, u))
         /\ Once(s) /\ (\A r, q \in Elements(s) : user[r] = user[q] => r = q)
              => \A r \in Elements(WithoutFirst(s, u)) : user[r] # u
<1> DEFINE mine == {j \in DOMAIN s : user[s[j]] = u}
<1>1. CASE mine = {}
  <2>1. WithoutFirst(s, u) = s
    BY <1>1 DEF WithoutFirst
  <2>2. \A r \in Elements(s) : user[r] # u
    BY <1>1 DEF Elements
  <2> QED BY <2>1, <2>2
<1>2. CASE mine # {}
  <2>1. \E k \in mine : \A j \in mine : k <= j
    <3>1. mine \in SUBSET Nat
      OBVIOUS
    <3> HIDE DEF mine
    <3> QED BY <1>2, <3>1, NatMin
  <2> DEFINE k == CHOOSE k \in mine : \A j \in mine : k <= j
             t == SubSeq(s, 1, k - 1) \o SubSeq(s, k + 1, Len(s))
  <2>2. k \in mine /\ WithoutFirst(s, u) = t
    <3>1. k \in mine
      <4> HIDE DEF mine
      <4> QED BY <2>1
    <3>2. WithoutFirst(s, u) = t
      BY <1>2, Zenon DEF WithoutFirst
    <3> QED BY <3>1, <3>2
  <2>3. k \in 1..Len(s) /\ user[s[k]] = u
    BY <2>2
  <2> HIDE DEF k, mine
  <2>4. t \in Seq(Request) /\ Len(t) = Len(s) - 1
    <3>1. SubSeq(s, 1, k - 1) \in Seq(Request) /\ SubSeq(s, k + 1, Len(s)) \in Seq(Request)
      BY <2>3
    <3>2. Len(SubSeq(s, 1, k - 1)) = k - 1 /\ Len(SubSeq(s, k + 1, Len(s))) = Len(s) - k
      BY <2>3
    <3>3. \A a, b \in Seq(Request) : a \o b \in Seq(Request) /\ Len(a \o b) = Len(a) + Len(b)
      OBVIOUS
    <3>4. t \in Seq(Request) /\ Len(t) = (k - 1) + (Len(s) - k)
      BY <3>1, <3>2, <3>3
    <3>5. Len(s) \in Nat
      OBVIOUS
    <3> HIDE DEF t
    <3>6. (k - 1) + (Len(s) - k) = Len(s) - 1
      BY <2>3, <3>5
    <3> QED BY <3>4, <3>6
  <2>5. \A i \in 1..Len(s) - 1 : t[i] = IF i < k THEN s[i] ELSE s[i + 1]
    <3> DEFINE a == SubSeq(s, 1, k - 1)
               b == SubSeq(s, k + 1, Len(s))
    <3>1. /\ a \in Seq(Request) /\ Len(a) = k - 1 /\ \A i \in 1..k - 1 : a[i] = s[i]
      BY <2>3
    <3>2. /\ b \in Seq(Request) /\ Len(b) = Len(s) - k
          /\ \A i \in 1..Len(s) - k : b[i] = s[k + i]
      BY <2>3
    <3> HIDE DEF a, b
    <3>3. ASSUME NEW i \in 1..Len(s) - 1, i < k PROVE (a \o b)[i] = s[i]
      BY <2>3, <3>1, <3>2, <3>3
    <3>4. ASSUME NEW i \in 1..Len(s) - 1, i >= k PROVE (a \o b)[i] = s[i + 1]
      <4>1. i - (k - 1) \in 1..Len(s) - k /\ k + (i - (k - 1)) = i + 1 /\ i > Len(a)
        BY <2>3, <3>1, <3>4
      <4>2. (a \o b)[i] = b[i - (k - 1)]
        BY <2>3, <3>1, <3>2, <4>1
      <4> QED BY <3>2, <4>1, <4>2
    <3>5. t = a \o b
      BY DEF a, b
    <3> HIDE DEF t
    <3>6. \A i \in 1..Len(s) - 1 : i >= k <=> ~(i < k)
      BY <2>3
    <3> QED BY <3>3, <3>4, <3>5, <3>6
  <2>6. DOMAIN t = 1..Len(s) - 1 /\ DOMAIN s = 1..Len(s) /\ Len(s) \in Nat
    <3> HIDE DEF t
    <3> QED BY <2>4
  <2> HIDE DEF t
  <2>7. Elements(t) \subseteq Elements(s)
    BY <2>3, <2>5, <2>6 DEF Elements
  <2>8. Once(s) => Once(t)
    BY SMTT(20), <2>3, <2>5, <2>6 DEF Once
  <2>9. ASSUME Once(s) PROVE s[k] \notin Elements(t)
    BY <2>3, <2>5, <2>6, <2>9 DEF Once, Elements
  <2>10. s[k] \in Elements(s)
    BY <2>3, <2>6 DEF Elements
  <2> QED BY <2>2, <2>3, <2>4, <2>7, <2>8, <2>9, <2>10
<1> QED BY <1>1, <1>2

-----------------------------------------------------------------------------
(* The types *)

LEMMA EngineInit == Init => TypeOK
<1> SUFFICES ASSUME Init PROVE TypeOK
  OBVIOUS
<1>1. 1 \in Level
  BY EngineAssumption DEF Level
<1> QED BY <1>1 DEF Init, TypeOK, Pairing

LEMMA TypeRequests ==
  ASSUME TypeOK, NEW r \in Request,
         \/ \E u \in User : CheckLiveGame(r, u)
         \/ \E l \in Level : AddToQueue(r, l)
         \/ ReceiveMatch(r) \/ GiveUp(r) \/ CancelRequest(r)
  PROVE  TypeOK'
<1>1. ASSUME NEW u \in User, CheckLiveGame(r, u) PROVE TypeOK'
  BY <1>1 DEF TypeOK, CheckLiveGame, world
<1>2. ASSUME NEW l \in Level, AddToQueue(r, l) PROVE TypeOK'
  <2>1. queue' \in [Level -> Seq(Request)] /\ level' \in [Request -> Level]
    <3>1. Append(queue[l], r) \in Seq(Request)
      BY DEF TypeOK
    <3>2. /\ queue' = queue \/ queue' = [queue EXCEPT ![l] = Append(queue[l], r)]
          /\ level' = level \/ level' = [level EXCEPT ![r] = l]
      BY <1>2 DEF AddToQueue
    <3>3. queue \in [Level -> Seq(Request)] /\ level \in [Request -> Level]
      BY DEF TypeOK
    <3>4. queue' \in [Level -> Seq(Request)]
      <4> DEFINE longer == Append(queue[l], r)
      <4> HIDE DEF longer
      <4>1. longer \in Seq(Request) /\ (queue' = queue \/ queue' = [queue EXCEPT ![l] = longer])
        BY <3>1, <3>2 DEF longer
      <4> QED BY <3>3, <4>1
    <3>5. level' \in [Request -> Level]
      BY <3>2, <3>3
    <3> QED BY <3>4, <3>5
  <2> QED BY <1>2, <2>1 DEF TypeOK, AddToQueue, world
<1>3. CASE ReceiveMatch(r)
  BY <1>3 DEF TypeOK, ReceiveMatch, world
<1>4. CASE GiveUp(r)
  BY <1>4 DEF TypeOK, GiveUp, world
<1>5. CASE CancelRequest(r)
  <2>1. queue' \in [Level -> Seq(Request)]
    <3>1. level[r] \in Level /\ queue[level[r]] \in Seq(Request)
      BY DEF TypeOK
    <3>2. WithoutFirst(queue[level[r]], user[r]) \in Seq(Request)
      BY <3>1, WithoutFirstIs
    <3> QED BY <1>5, <3>1, <3>2 DEF TypeOK, CancelRequest
  <2> QED BY <1>5, <2>1 DEF TypeOK, CancelRequest, world
<1> QED BY <1>1, <1>2, <1>3, <1>4, <1>5

LEMMA TypeEngine ==
  ASSUME TypeOK,
         \/ FindMatches \/ HandOver \/ PublishMatches \/ Stop \/ EngineStops
         \/ \E m \in published : GameServiceTakes(m) \/ GameEnds(m)
  PROVE  TypeOK'
<1>1. CASE FindMatches
  <2>1. Sweep.pairs \subseteq Pairing /\ Sweep.rest \in Seq(Request)
    BY Found DEF TypeOK, QueuesOK
  <2>2. queue' \in [Level -> Seq(Request)]
    <3>1. <<>> \in Seq(Request)
      OBVIOUS
    <3> QED BY <1>1, <2>1, <3>1 DEF FindMatches
  <2>3. response' \in [Request -> Pairing \cup {{}}]
    <3>1. \A r \in Request : (\E m \in Sweep.pairs : r \in m) =>
            (CHOOSE m \in Sweep.pairs : r \in m) \in Pairing
      BY <2>1
    <3> QED BY <1>1, <3>1 DEF FindMatches, TypeOK
  <2>4. engine' \in [pc: {"idle", "send", "stopped"}, held: SUBSET Pairing]
    BY <1>1, <2>1 DEF FindMatches
  <2> QED BY <1>1, <2>2, <2>3, <2>4 DEF FindMatches, TypeOK, requests, world
<1>2. CASE HandOver
  BY <1>2 DEF TypeOK, HandOver, requests, world
<1>3. CASE PublishMatches
  BY <1>3 DEF TypeOK, PublishMatches, requests
<1>4. CASE Stop
  BY <1>4 DEF TypeOK, Stop, requests, world
<1>5. CASE EngineStops
  BY <1>5 DEF TypeOK, EngineStops, requests, world
<1>6. ASSUME NEW m \in published, GameServiceTakes(m) \/ GameEnds(m) PROVE TypeOK'
  <2>1. m \in Pairing
    BY DEF TypeOK
  <2>2. consumed' \subseteq Pairing /\ live' \subseteq Pairing
    BY <1>6, <2>1 DEF TypeOK, GameServiceTakes, GameEnds
  <2> QED BY <1>6, <2>2 DEF TypeOK, GameServiceTakes, GameEnds, requests
<1> QED BY <1>1, <1>2, <1>3, <1>4, <1>5, <1>6

LEMMA TypeStep == TypeOK /\ [Next]_vars => TypeOK'
<1> SUFFICES ASSUME TypeOK, [Next]_vars PROVE TypeOK'
  OBVIOUS
<1>1. CASE UNCHANGED vars
  BY <1>1 DEF TypeOK, vars, requests, world
<1>2. CASE Next
  BY <1>2, TypeRequests, TypeEngine DEF Next
<1> QED BY <1>1, <1>2

\* Whatever the levels and however many ask, the engine never holds anything but
\* pairs of requests, nor a queue anything but requests.
THEOREM EngineTypeCorrect == Spec => []TypeOK
<1> QED BY EngineInit, TypeStep, PTL DEF Spec

-----------------------------------------------------------------------------
(* The queue *)

\* The invariant of the queue is about who is in it and where they wait.
LEMMA QueueStays ==
  ASSUME QueueInv, queue' = queue, level' = level,
         \A r \in Queued : user'[r] = user[r] /\ pc'[r] \in {"waiting", "cancel"}
  PROVE  QueueInv' /\ Queued' = Queued
<1>1. Queued' = Queued
  BY DEF Queued, Elements
<1>2. \A l \in Level : Elements(queue'[l]) = Elements(queue[l])
  OBVIOUS
<1>3. \A l \in Level : Elements(queue[l])' = Elements(queue'[l])
  BY DEF Elements
<1>4. \A l \in Level : Once(queue[l])' <=> Once(queue[l])
  BY DEF Once
<1> QED BY <1>1, <1>2, <1>3, <1>4 DEF QueueInv, NobodyGoneIsQueued

\* addToQueue appends somebody whose user nobody in the queue is.
LEMMA QueueAdd ==
  ASSUME TypeOK, QueueInv, NEW r \in Request, NEW l \in Level, AddToQueue(r, l)
  PROVE  QueueInv' /\ Queued' \subseteq Queued \cup {r}
<1>1. r \notin Queued
  BY DEF AddToQueue, QueueInv, NobodyGoneIsQueued
<1>2. CASE AlreadyQueued(r)
  <2>1. /\ queue' = queue /\ level' = level /\ user' = user
        /\ pc' = [pc EXCEPT ![r] = "done"]
    BY <1>2 DEF AddToQueue
  <2>2. \A q \in Queued : q \in Request /\ pc[q] \in {"waiting", "cancel"}
    <3>1. \A k \in Level : \A q \in Elements(queue[k]) : q \in Request
      BY DEF TypeOK, Elements
    <3> QED BY <3>1 DEF Queued, QueueInv, NobodyGoneIsQueued
  <2>3. \A q \in Queued : user'[q] = user[q] /\ pc'[q] \in {"waiting", "cancel"}
    BY <1>1, <2>1, <2>2 DEF TypeOK
  <2> QED BY <2>1, <2>3, QueueStays
<1>3. CASE ~AlreadyQueued(r)
  <2>1. /\ queue' = [queue EXCEPT ![l] = Append(queue[l], r)]
        /\ level' = [level EXCEPT ![r] = l] /\ pc' = [pc EXCEPT ![r] = "waiting"]
        /\ user' = user
    BY <1>3 DEF AddToQueue
  <2>2. queue[l] \in Seq(Request) /\ queue \in [Level -> Seq(Request)]
    BY DEF TypeOK
  <2>3. /\ Len(Append(queue[l], r)) = Len(queue[l]) + 1 /\ Append(queue[l], r) \in Seq(Request)
        /\ \A i \in 1..Len(queue[l]) : Append(queue[l], r)[i] = queue[l][i]
        /\ Append(queue[l], r)[Len(queue[l]) + 1] = r
    BY <2>2
  <2>4. Elements(Append(queue[l], r)) = Elements(queue[l]) \cup {r}
    <3>1. DOMAIN Append(queue[l], r) = 1..Len(queue[l]) + 1 /\ DOMAIN queue[l] = 1..Len(queue[l])
      BY <2>2, <2>3
    <3>2. /\ Len(queue[l]) + 1 \in 1..Len(queue[l]) + 1 /\ 1..Len(queue[l]) \subseteq 1..Len(queue[l]) + 1
          /\ \A i \in 1..Len(queue[l]) + 1 : i \in 1..Len(queue[l]) \/ i = Len(queue[l]) + 1
      BY <2>2
    <3> HIDE DEF Elements
    <3> QED BY <2>3, <3>1, <3>2 DEF Elements
  <2>5. \A k \in Level : Elements(queue[k])' = IF k = l THEN Elements(queue[l]) \cup {r} ELSE Elements(queue[k])
    <3>1. \A k \in Level : Elements(queue[k])' = Elements(queue'[k])
      BY DEF Elements
    <3>2. \A k \in Level : queue'[k] = IF k = l THEN Append(queue[l], r) ELSE queue[k]
      BY <2>1, <2>2
    <3> QED BY <2>4, <3>1, <3>2
  <2>6. Queued' = Queued \cup {r}
    BY <2>5 DEF Queued
  <2>7. \A q \in Queued : user[q] # user[r] /\ q \in Request /\ q # r
    <3>1. \A k \in Level : \A q \in Elements(queue[k]) : q \in Request
      BY DEF TypeOK, Elements
    <3> QED BY <1>1, <1>3, <3>1 DEF AlreadyQueued, Queued
  <2>8. r \notin Elements(queue[l])
    BY <1>1 DEF Queued
  <2>9. Once(Append(queue[l], r))
    <3>1. \A i \in 1..Len(queue[l]) : queue[l][i] # r
      BY <2>2, <2>8 DEF Elements
    <3>2. \A i, j \in 1..Len(queue[l]) : queue[l][i] = queue[l][j] => i = j
      BY <2>2 DEF QueueInv, Once
    <3>3. DOMAIN Append(queue[l], r) = 1..Len(queue[l]) + 1
      BY <2>2, <2>3
    <3>4. \A i \in 1..Len(queue[l]) + 1 : i \in 1..Len(queue[l]) \/ i = Len(queue[l]) + 1
      BY <2>2
    <3> HIDE DEF Once
    <3> QED BY <2>3, <3>1, <3>2, <3>3, <3>4 DEF Once
  <2>10. \A k \in Level : Once(queue[k])'
    <3>1. \A k \in Level : Once(queue[k])' <=> Once(queue'[k])
      BY DEF Once
    <3>2. \A k \in Level : queue'[k] = IF k = l THEN Append(queue[l], r) ELSE queue[k]
      BY <2>1, <2>2
    <3> QED BY <2>9, <3>1, <3>2 DEF QueueInv
  <2>11. \A k \in Level : \A q \in Elements(queue[k])' : level'[q] = k
    <3>1. \A k \in Level : \A q \in Elements(queue[k]) : level[q] = k /\ q \in Queued
      BY DEF QueueInv, Queued
    <3>2. level \in [Request -> Level]
      BY DEF TypeOK
    <3> QED BY <2>1, <2>5, <2>7, <3>1, <3>2
  <2>12. \A q, s \in Queued' : user'[q] = user'[s] => q = s
    BY <2>1, <2>6, <2>7 DEF QueueInv
  <2>13. NobodyGoneIsQueued'
    <3>1. pc \in [Request -> {"new", "checked", "waiting", "cancel", "done"}]
      BY DEF TypeOK
    <3> QED BY <2>1, <2>6, <2>7, <3>1 DEF QueueInv, NobodyGoneIsQueued
  <2> QED BY <2>6, <2>10, <2>11, <2>12, <2>13 DEF QueueInv
<1> QED BY <1>2, <1>3

\* The request that is cancelled is the first of its user, if it is still there.
LEMMA QueueCancel ==
  ASSUME TypeOK, QueueInv, NEW r \in Request, CancelRequest(r)
  PROVE  QueueInv' /\ Queued' \subseteq Queued
<1> DEFINE l == level[r]
           s == WithoutFirst(queue[l], user[r])
<1>1. /\ queue' = [queue EXCEPT ![l] = s] /\ level' = level
      /\ pc' = [pc EXCEPT ![r] = "done"] /\ user' = user
  BY DEF CancelRequest
<1>2. l \in Level /\ queue[l] \in Seq(Request) /\ queue \in [Level -> Seq(Request)]
  BY DEF TypeOK
<1>3. Once(queue[l]) /\ \A p, q \in Elements(queue[l]) : user[p] = user[q] => p = q
  BY <1>2 DEF QueueInv, Queued
<1>4. /\ Elements(s) \subseteq Elements(queue[l]) /\ Once(s)
      /\ \A q \in Elements(s) : user[q] # user[r]
  BY <1>2, <1>3, WithoutFirstIs
<1> HIDE DEF s, l
<1>5. \A k \in Level : queue'[k] = IF k = l THEN s ELSE queue[k]
  BY <1>1, <1>2
<1>6. \A k \in Level : Elements(queue[k])' = Elements(queue'[k])
  BY DEF Elements
<1>7. \A k \in Level : Elements(queue[k])' \subseteq Elements(queue[k])
  BY <1>4, <1>5, <1>6
<1>8. Queued' \subseteq Queued
  BY <1>7 DEF Queued
<1>9. r \notin Queued'
  <2>1. \A k \in Level : r \in Elements(queue[k]) => k = l
    BY DEF QueueInv, l
  <2>2. r \notin Elements(s)
    BY <1>4
  <2> QED BY <1>5, <1>6, <1>7, <2>1, <2>2 DEF Queued
<1>10. \A k \in Level : Once(queue[k])'
  <2>1. \A k \in Level : Once(queue[k])' <=> Once(queue'[k])
    BY DEF Once
  <2> QED BY <1>4, <1>5, <2>1 DEF QueueInv
<1>11. NobodyGoneIsQueued'
  <2>1. \A q \in Queued : q # r => pc'[q] = pc[q]
    <3>1. \A k \in Level : \A q \in Elements(queue[k]) : q \in Request
      BY DEF TypeOK, Elements
    <3> QED BY <1>1, <3>1 DEF TypeOK, Queued
  <2> QED BY <1>8, <1>9, <2>1 DEF QueueInv, NobodyGoneIsQueued
<1> QED BY <1>1, <1>7, <1>8, <1>10, <1>11 DEF QueueInv

\* A tick leaves one request in the queue at most.
LEMMA QueueSweep ==
  ASSUME TypeOK, QueueInv, FindMatches
  PROVE  QueueInv' /\ Queued' \subseteq Elements(Sweep.rest)
<1>1. /\ queue' = [l \in Level |-> IF \E r \in Elements(Sweep.rest) : level[r] = l THEN Sweep.rest ELSE <<>>]
      /\ level' = level /\ pc' = pc /\ user' = user
  BY DEF FindMatches, requests
<1>2. Elements(<<>>) = {} /\ Once(<<>>) /\ \A r : Once(<<r>>)
  BY DEF Elements, Once
<1>3. Sweep.rest = <<>> \/ \E r \in Queued : Sweep.rest = <<r>> /\ Elements(Sweep.rest) = {r}
  BY Found DEF TypeOK, QueuesOK
<1>4. /\ \A k \in Level : Elements(queue[k])' = Elements(queue'[k])
      /\ \A k \in Level : Once(queue[k])' <=> Once(queue'[k])
  BY DEF Elements, Once
<1>5. CASE Sweep.rest = <<>>
  <2>1. \A l \in Level : queue'[l] = <<>>
    BY <1>1, <1>5
  <2>2. Queued' = {}
    BY <1>2, <1>4, <2>1 DEF Queued
  <2> QED BY <1>2, <1>4, <2>1, <2>2 DEF QueueInv, NobodyGoneIsQueued
<1>6. ASSUME NEW r \in Queued, Sweep.rest = <<r>>, Elements(Sweep.rest) = {r}
      PROVE  QueueInv' /\ Queued' \subseteq Elements(Sweep.rest)
  <2>1. \A l \in Level : queue'[l] = IF level[r] = l THEN <<r>> ELSE <<>>
    BY <1>1, <1>6
  <2>2. \A l \in Level : Elements(queue[l])' = IF level[r] = l THEN {r} ELSE {}
    BY <1>2, <1>4, <1>6, <2>1
  <2>3. Queued' \subseteq {r}
    BY <2>2 DEF Queued
  <2>4. NobodyGoneIsQueued'
    BY <1>1, <2>3 DEF QueueInv, NobodyGoneIsQueued
  <2>5. \A l \in Level : Once(queue[l])'
    BY <1>2, <1>4, <2>1
  <2>6. \A l \in Level : \A q \in Elements(queue[l])' : level'[q] = l
    BY <1>1, <2>2
  <2> QED BY <1>6, <2>3, <2>4, <2>5, <2>6 DEF QueueInv
<1> QED BY <1>3, <1>5, <1>6

\* A request that has its match is no longer queued, nor will it be.
GotItOut ==
  \A r \in Request : response[r] # {} => r \notin Queued /\ pc[r] \notin {"new", "checked"}

LEMMA QueueInit == Init => QueueInv /\ GotItOut
<1> SUFFICES ASSUME Init PROVE QueueInv /\ GotItOut
  OBVIOUS
<1>1. \A l \in Level : queue[l] = <<>>
  BY DEF Init
<1>2. Elements(<<>>) = {} /\ Once(<<>>)
  BY DEF Elements, Once
<1>3. \A l \in Level : Elements(queue[l]) = {} /\ Once(queue[l])
  BY <1>1, <1>2
<1>4. Queued = {}
  BY <1>3 DEF Queued
<1> QED BY <1>3, <1>4 DEF QueueInv, NobodyGoneIsQueued, GotItOut, Init

LEMMA QueueStep == TypeOK /\ QueueInv /\ GotItOut /\ [Next]_vars => QueueInv' /\ GotItOut'
<1> SUFFICES ASSUME TypeOK, QueueInv, GotItOut, [Next]_vars PROVE QueueInv' /\ GotItOut'
  OBVIOUS
<1>1. \A q \in Queued : q \in Request /\ pc[q] \in {"waiting", "cancel"}
  <2>1. \A k \in Level : \A q \in Elements(queue[k]) : q \in Request
    BY DEF TypeOK, Elements
  <2> QED BY <2>1 DEF Queued, QueueInv, NobodyGoneIsQueued
\* The queue and the answers stay; nobody goes back.
<1>2. ASSUME queue' = queue, level' = level, response' = response,
             \A q \in Queued : user'[q] = user[q] /\ pc'[q] \in {"waiting", "cancel"},
             \A q \in Request : pc'[q] \in {"new", "checked"} => pc[q] \in {"new", "checked"}
      PROVE  QueueInv' /\ GotItOut'
  <2>1. QueueInv' /\ Queued' = Queued
    BY <1>2, QueueStays
  <2> QED BY <1>2, <2>1 DEF GotItOut
<1>2a. ASSUME queue' = queue, level' = level, user' = user, pc' = pc, response' = response
       PROVE  QueueInv' /\ GotItOut'
  BY <1>1, <1>2, <1>2a
<1>3. ASSUME NEW r \in Request, NEW u \in User, CheckLiveGame(r, u) PROVE QueueInv' /\ GotItOut'
  <2>1. \A q \in Queued : user'[q] = user[q] /\ pc'[q] = pc[q]
    <3>1. r \notin Queued
      BY <1>1, <1>3 DEF CheckLiveGame
    <3> QED BY <1>1, <1>3, <3>1 DEF CheckLiveGame, TypeOK
  <2>2. queue' = queue /\ level' = level /\ response' = response
    BY <1>3 DEF CheckLiveGame
  <2>3. \A q \in Request : pc'[q] \in {"new", "checked"} => pc[q] \in {"new", "checked"}
    BY <1>3 DEF CheckLiveGame, TypeOK
  <2> QED BY <1>1, <1>2, <2>1, <2>2, <2>3
<1>4. ASSUME NEW r \in Request, NEW l \in Level, AddToQueue(r, l) PROVE QueueInv' /\ GotItOut'
  <2>1. QueueInv' /\ Queued' \subseteq Queued \cup {r}
    BY <1>4, QueueAdd
  <2>2. response[r] = {}
    BY <1>4 DEF AddToQueue, GotItOut
  <2>3. \A q \in Request : pc'[q] \in {"new", "checked"} => pc[q] \in {"new", "checked"}
    <3>1. pc' = [pc EXCEPT ![r] = "done"] \/ pc' = [pc EXCEPT ![r] = "waiting"]
      BY <1>4 DEF AddToQueue
    <3> QED BY <3>1 DEF TypeOK
  <2>4. response' = response
    BY <1>4 DEF AddToQueue
  <2> QED BY <2>1, <2>2, <2>3, <2>4 DEF GotItOut
<1>5. ASSUME NEW r \in Request, ReceiveMatch(r) PROVE QueueInv' /\ GotItOut'
  <2>1. /\ pc' = [pc EXCEPT ![r] = "done"] /\ queue' = queue /\ level' = level /\ user' = user
        /\ response' = response
    BY <1>5 DEF ReceiveMatch
  <2>2. r \notin Queued
    BY <1>5 DEF ReceiveMatch, GotItOut
  <2>3. \A q \in Queued : user'[q] = user[q] /\ pc'[q] \in {"waiting", "cancel"}
    BY <1>1, <2>1, <2>2 DEF TypeOK
  <2>4. \A q \in Request : pc'[q] \in {"new", "checked"} => pc[q] \in {"new", "checked"}
    BY <2>1 DEF TypeOK
  <2> QED BY <1>2, <2>1, <2>3, <2>4
<1>6. ASSUME NEW r \in Request, GiveUp(r) PROVE QueueInv' /\ GotItOut'
  <2>1. /\ pc' = [pc EXCEPT ![r] = "cancel"] /\ queue' = queue /\ level' = level /\ user' = user
        /\ response' = response
    BY <1>6 DEF GiveUp
  <2>2. \A q \in Queued : user'[q] = user[q] /\ pc'[q] \in {"waiting", "cancel"}
    BY <1>1, <2>1 DEF TypeOK
  <2>3. \A q \in Request : pc'[q] \in {"new", "checked"} => pc[q] \in {"new", "checked"}
    BY <2>1 DEF TypeOK
  <2> QED BY <1>2, <2>1, <2>2, <2>3
<1>7. ASSUME NEW r \in Request, CancelRequest(r) PROVE QueueInv' /\ GotItOut'
  <2>1. QueueInv' /\ Queued' \subseteq Queued
    BY <1>7, QueueCancel
  <2>2. response' = response /\ pc' = [pc EXCEPT ![r] = "done"]
    BY <1>7 DEF CancelRequest
  <2>3. \A q \in Request : pc'[q] \in {"new", "checked"} => pc[q] \in {"new", "checked"}
    BY <2>2 DEF TypeOK
  <2> QED BY <2>1, <2>2, <2>3 DEF GotItOut
<1>8. CASE FindMatches
  <2>1. QueueInv' /\ Queued' \subseteq Elements(Sweep.rest)
    BY <1>8, QueueSweep
  <2>2. /\ Elements(Sweep.rest) \subseteq Queued
        /\ \A m \in Sweep.pairs : m \subseteq Queued
    BY Found DEF TypeOK, QueuesOK
  <2>3. Elements(Sweep.rest) = Elements(Line) \ UNION Sweep.pairs
    <3>1. /\ Line \in Seq(Request) /\ Sweep.pairs = Pairs(Line) /\ Sweep.rest = Rest(Line)
          /\ Once(Line)
      BY SweepIsOfLine, LineOnce DEF TypeOK, QueuesOK
    <3>2. \A i, j \in 1..Len(Line) : Line[i] = Line[j] => i = j
      BY <3>1 DEF Once
    <3> QED BY <3>1, <3>2, PairsOfLine
  <2>4. /\ response' = [r \in Request |->
             IF \E m \in Sweep.pairs : r \in m THEN CHOOSE m \in Sweep.pairs : r \in m ELSE response[r]]
        /\ pc' = pc
    BY <1>8 DEF FindMatches, requests
  <2>5. ASSUME NEW q \in Request, response'[q] # {}
        PROVE  q \notin Queued' /\ pc'[q] \notin {"new", "checked"}
    <3>1. CASE \E m \in Sweep.pairs : q \in m
      BY <1>1, <2>1, <2>2, <2>3, <2>4, <3>1
    <3>2. CASE ~ \E m \in Sweep.pairs : q \in m
      <4>1. response[q] # {}
        BY <2>4, <2>5, <3>2
      <4> QED BY <2>1, <2>2, <2>4, <4>1 DEF GotItOut
    <3> QED BY <3>1, <3>2
  <2> QED BY <2>1, <2>5 DEF GotItOut
<1>9. CASE HandOver \/ PublishMatches \/ Stop \/ EngineStops
  BY <1>2a, <1>9 DEF HandOver, PublishMatches, Stop, EngineStops, requests
<1>10. ASSUME NEW m \in published, GameServiceTakes(m) \/ GameEnds(m) PROVE QueueInv' /\ GotItOut'
  BY <1>2a, <1>10 DEF GameServiceTakes, GameEnds, requests
<1>11. CASE UNCHANGED vars
  BY <1>2a, <1>11 DEF vars, requests
<1> QED BY <1>3, <1>4, <1>5, <1>6, <1>7, <1>8, <1>9, <1>10, <1>11 DEF Next

-----------------------------------------------------------------------------
(* The matches *)

\* The inductive invariant of the matches: whoever holds none has handed them on,
\* and a request that has its match finds it on its way.
WayInv ==
  /\ engine.pc # "send" => engine.held = {}
  /\ service.pc # "publish" => service.held = {}
  /\ \A r \in Request : response[r] # {} =>
       response[r] \in engine.held \cup service.held \cup published \cup lost
  /\ \A r \in Request : answer[r] = "match" => response[r] # {}

LEMMA WayInit == Init => WayInv
BY DEF Init, WayInv

LEMMA WayStep == TypeOK /\ WayInv /\ [Next]_vars => WayInv'
<1> SUFFICES ASSUME TypeOK, WayInv, [Next]_vars PROVE WayInv'
  OBVIOUS
<1>1. ASSUME NEW r \in Request,
             \/ \E u \in User : CheckLiveGame(r, u)
             \/ \E l \in Level : AddToQueue(r, l)
             \/ ReceiveMatch(r) \/ GiveUp(r) \/ CancelRequest(r)
      PROVE  WayInv'
  <2>1. /\ response' = response /\ engine' = engine /\ service' = service
        /\ published' = published /\ lost' = lost
    BY <1>1 DEF CheckLiveGame, AddToQueue, ReceiveMatch, GiveUp, CancelRequest, world
  <2>2. \/ answer' = answer
        \/ \E a \in {"refused", "timeout"} : answer' = [answer EXCEPT ![r] = a]
        \/ answer' = [answer EXCEPT ![r] = "match"] /\ response[r] # {}
    BY <1>1 DEF CheckLiveGame, AddToQueue, ReceiveMatch, GiveUp, CancelRequest
  <2>3. \A q \in Request : answer'[q] = "match" => response[q] # {}
    BY <2>2 DEF TypeOK, WayInv
  <2> QED BY <2>1, <2>3 DEF WayInv
<1>2. CASE FindMatches
  <2>1. /\ response' = [r \in Request |->
             IF \E m \in Sweep.pairs : r \in m THEN CHOOSE m \in Sweep.pairs : r \in m ELSE response[r]]
        /\ engine' = [pc |-> "send", held |-> Sweep.pairs] /\ engine.pc = "idle"
        /\ answer' = answer /\ service' = service /\ published' = published /\ lost' = lost
    BY <1>2 DEF FindMatches, requests, world
  <2>2. ASSUME NEW r \in Request
        PROVE  \/ response'[r] = response[r]
               \/ response'[r] \in Sweep.pairs /\ response'[r] # {}
    BY <2>1
  <2> QED BY <2>1, <2>2 DEF WayInv
<1>3. CASE HandOver
  <2>1. /\ engine' = [pc |-> "idle", held |-> {}]
        /\ service' = [pc |-> IF engine.held = {} THEN "select" ELSE "publish", held |-> engine.held]
        /\ service.pc = "select"
        /\ answer' = answer /\ response' = response /\ published' = published /\ lost' = lost
    BY <1>3 DEF HandOver, requests, world
  <2> QED BY <2>1 DEF WayInv
<1>4. CASE PublishMatches
  <2>1. PICK sent \in SUBSET service.held :
          published' = published \cup sent /\ lost' = lost \cup (service.held \ sent)
    BY <1>4 DEF PublishMatches
  <2>2. /\ service' = [pc |-> "select", held |-> {}] /\ engine' = engine
        /\ answer' = answer /\ response' = response
    BY <1>4 DEF PublishMatches, requests
  <2> QED BY <2>1, <2>2 DEF WayInv
<1>5. CASE Stop
  <2>1. service'.pc = "stopping" /\ service'.held = service.held /\ service.pc = "select"
    BY <1>5 DEF Stop, TypeOK
  <2> QED BY <1>5, <2>1 DEF WayInv, Stop, requests, world
<1>6. CASE EngineStops
  <2>1. /\ engine'.held = engine.held /\ engine.pc = "idle"
        /\ service'.held = service.held /\ service.pc = "stopping"
    BY <1>6 DEF EngineStops, TypeOK
  <2> QED BY <1>6, <2>1 DEF WayInv, EngineStops, requests, world
<1>7. ASSUME NEW m \in published, GameServiceTakes(m) \/ GameEnds(m) PROVE WayInv'
  BY <1>7 DEF WayInv, GameServiceTakes, GameEnds, requests
<1>8. CASE UNCHANGED vars
  BY <1>8 DEF WayInv, vars, requests, world
<1> QED BY <1>1, <1>2, <1>3, <1>4, <1>5, <1>6, <1>7, <1>8 DEF Next

-----------------------------------------------------------------------------
(* The theorems *)

\* One tick pairs the neighbours of the whole queue, read from king to pawn, and
\* leaves one request over at most, however many levels there are and however
\* long their queues: findMatches loses nobody and takes nobody twice.
THEOREM SweepPairsNeighboursHolds == Spec => []SweepPairsNeighbours
<1>1. QueuesOK /\ QueueInv => SweepPairsNeighbours
  <2> SUFFICES ASSUME QueuesOK, QueueInv PROVE SweepPairsNeighbours
    OBVIOUS
  <2>1. /\ Line \in Seq(Request) /\ Sweep.pairs = Pairs(Line) /\ Sweep.rest = Rest(Line)
        /\ Once(Line) /\ Elements(Line) = Queued
    BY SweepIsOfLine, LineOnce, LineIsQueue
  <2>2. \A i, j \in 1..Len(Line) : Line[i] = Line[j] => i = j
    BY <2>1 DEF Once
  <2>3. Elements(Rest(Line)) = Elements(Line) \ UNION Pairs(Line)
    BY <2>1, <2>2, PairsOfLine
  <2> QED BY <2>1, <2>3 DEF SweepPairsNeighbours
<1>2. TypeOK => QueuesOK
  BY DEF TypeOK, QueuesOK
<1> QED BY <1>1, <1>2, EngineInit, TypeStep, QueueInit, QueueStep, PTL DEF Spec

\* A user waits once, over all the levels, through requests that come at the same
\* time, give up, or find the level of the user changed.
THEOREM QueuedOnceHolds == Spec => []QueuedOnce
<1>1. TypeOK /\ QueueInv => QueuedOnce
  <2> SUFFICES ASSUME TypeOK, QueueInv PROVE QueuedOnce
    OBVIOUS
  <2>1. \A l \in Level : \A r \in Elements(queue[l]) : r \in Queued
    BY DEF Queued
  <2>2. ASSUME NEW l \in Level, NEW j \in DOMAIN queue[l], NEW k \in DOMAIN queue[l],
               user[queue[l][j]] = user[queue[l][k]]
        PROVE  j = k
    <3>1. queue[l][j] \in Elements(queue[l]) /\ queue[l][k] \in Elements(queue[l])
      BY DEF Elements
    <3>2. queue[l][j] = queue[l][k]
      BY <2>1, <2>2, <3>1 DEF QueueInv
    <3> QED BY <3>2 DEF QueueInv, Once
  <2>3. ASSUME NEW l \in Level, NEW k \in Level,
               NEW r \in Elements(queue[l]), NEW s \in Elements(queue[k]), user[r] = user[s]
        PROVE  l = k
    <3>1. r = s
      BY <2>1, <2>3 DEF QueueInv
    <3> QED BY <3>1 DEF QueueInv
  <2> QED BY <2>2, <2>3 DEF QueuedOnce
<1> QED BY <1>1, EngineInit, TypeStep, QueueInit, QueueStep, PTL DEF Spec

\* The engine never pairs a request whose client has been answered: cancelRequest
\* takes out the first request of the same user, and that is always the right one.
THEOREM NobodyGoneIsQueuedHolds == Spec => []NobodyGoneIsQueued
<1>1. QueueInv => NobodyGoneIsQueued
  BY DEF QueueInv
<1> QED BY <1>1, EngineInit, TypeStep, QueueInit, QueueStep, PTL DEF Spec

\* Between the client's answer and the event nothing is dropped, also while the
\* service is busy or stops: matchCh makes the engine wait with what it holds.
THEOREM AnsweredMatchIsOnItsWayHolds == Spec => []AnsweredMatchIsOnItsWay
<1>1. WayInv => AnsweredMatchIsOnItsWay
  BY DEF WayInv, AnsweredMatchIsOnItsWay
<1> QED BY <1>1, EngineInit, TypeStep, WayInit, WayStep, PTL DEF Spec

=============================================================================
