--------------------------- MODULE EventBusProofs ---------------------------
(***************************************************************************)
(* Theorems about the Kafka side of a service, for any topics, partitions, *)
(* subscriptions and bounds: a partition has one ConsumeClaim, consumption *)
(* goes on, and the bus implements OrderedDelivery.                        *)
(***************************************************************************)
EXTENDS EventBus, SequenceTheorems, TLAPS

(* The list of Consume calls *)

CallType == [pc: {"start", "session", "release"}, domains: SUBSET Domain,
             cancelled: BOOLEAN, current: BOOLEAN, group: {"new", "old"}]

LEMMA TypedCall ==
  ASSUME calls \in Seq(CallType), NEW k \in DOMAIN calls
  PROVE  calls[k] \in CallType
OBVIOUS

LEMMA WithoutCall ==
  ASSUME calls \in Seq(CallType), NEW k \in DOMAIN calls
  PROVE  /\ Without(k) \in Seq(CallType) /\ Len(Without(k)) = Len(calls) - 1
         /\ \A i \in DOMAIN Without(k) :
              LET j == IF i < k THEN i ELSE i + 1 IN
              j \in DOMAIN calls /\ j # k /\ Without(k)[i] = calls[j]
<1> DEFINE left == SubSeq(calls, 1, k - 1)
           right == SubSeq(calls, k + 1, Len(calls))
<1>1. Len(calls) \in Nat /\ k \in 1..Len(calls) /\ \A i \in 1..Len(calls) : calls[i] \in CallType
  OBVIOUS
<1>2. /\ left \in Seq(CallType) /\ Len(left) = k - 1
      /\ \A i \in 1..k - 1 : left[i] = calls[i]
  <2>1. \A i \in 1..k - 1 : calls[i] \in CallType
    BY <1>1
  <2> QED
    BY <1>1, <2>1, SubSeqProperties
<1>3. /\ right \in Seq(CallType) /\ Len(right) = Len(calls) - k
      /\ \A i \in 1..Len(calls) - k : right[i] = calls[k + i]
  <2>1. \A i \in k + 1..Len(calls) : calls[i] \in CallType
    BY <1>1
  <2> QED
    BY <1>1, <2>1, SubSeqProperties
<1>0. left \o right = Without(k)
  BY DEF Without
<1> HIDE DEF left, right
<1>4. /\ Without(k) \in Seq(CallType) /\ Len(Without(k)) = Len(calls) - 1
      /\ \A i \in 1..Len(calls) - 1 :
           Without(k)[i] = IF i <= k - 1 THEN left[i] ELSE right[i - (k - 1)]
  <2>1. Len(left) + Len(right) = Len(calls) - 1
    BY <1>1, <1>2, <1>3
  <2>2. /\ left \o right \in Seq(CallType)
        /\ Len(left \o right) = Len(left) + Len(right)
        /\ \A i \in 1..Len(left) + Len(right) :
             (left \o right)[i] = IF i <= Len(left) THEN left[i] ELSE right[i - Len(left)]
    BY <1>2, <1>3, ConcatProperties
  <2> QED
    BY <1>0, <1>2, <2>1, <2>2
<1>5. ASSUME NEW i \in 1..Len(calls) - 1
      PROVE  LET j == IF i < k THEN i ELSE i + 1 IN
             j \in 1..Len(calls) /\ j # k /\ Without(k)[i] = calls[j]
  <2>1. CASE i < k
    BY <1>1, <1>2, <1>4, <2>1
  <2>2. CASE i >= k
    <3>1. i - (k - 1) \in 1..Len(calls) - k /\ k + (i - (k - 1)) = i + 1
      BY <1>1, <2>2
    <3>2. Without(k)[i] = right[i - (k - 1)]
      <4>1. ~(i <= k - 1)
        BY <1>1, <2>2
      <4> QED
        BY <1>4, <4>1
    <3> QED
      BY SMTT(20), <1>1, <1>3, <2>2, <3>1, <3>2
  <2> QED
    BY <1>1, <2>1, <2>2
<1>6. DOMAIN Without(k) = 1..Len(calls) - 1
  BY <1>1, <1>4
<1> QED
  BY <1>1, <1>4, <1>5, <1>6

LEMMA MappedCalls ==
  ASSUME calls \in Seq(CallType), NEW f \in [DOMAIN calls -> CallType]
  PROVE  f \in Seq(CallType) /\ Len(f) = Len(calls)
BY SMT

LEMMA StartedCall ==
  ASSUME calls \in Seq(CallType), NEW ds \in SUBSET Domain, StartConsume(ds)
  PROVE  /\ calls' \in Seq(CallType) /\ Len(calls') = Len(calls) + 1
         /\ \A i \in DOMAIN calls : calls'[i] = [calls[i] EXCEPT !.current = FALSE]
         /\ calls'[Len(calls) + 1] = Call(ds)
<1> DEFINE before == [k \in DOMAIN calls |-> [calls[k] EXCEPT !.current = FALSE]]
<1>1. before \in [DOMAIN calls -> CallType]
  <2>1. \A k \in DOMAIN calls : [calls[k] EXCEPT !.current = FALSE] \in CallType
    BY TypedCall DEF CallType
  <2> QED
    BY <2>1
<1>2. before \in Seq(CallType) /\ Len(before) = Len(calls)
  BY <1>1, MappedCalls
<1>3. Call(ds) \in CallType
  BY DEF Call, CallType
<1>4. calls' = Append(before, Call(ds))
  BY DEF StartConsume
<1>5. \A i \in DOMAIN calls : before[i] = [calls[i] EXCEPT !.current = FALSE]
  OBVIOUS
<1> HIDE DEF before
<1> QED
  BY <1>2, <1>3, <1>4, <1>5

LEMMA StartedGroup ==
  ASSUME calls = <<>>, NEW ds \in SUBSET Domain, StartGroup(ds)
  PROVE  calls' = <<Call(ds)>> /\ calls' \in Seq(CallType)
<1>1. DOMAIN calls = {}
  OBVIOUS
<1>2. [k \in DOMAIN calls |-> [calls[k] EXCEPT !.current = FALSE, !.group = "old"]] = <<>>
  BY <1>1
<1>3. Call(ds) \in CallType
  BY DEF Call, CallType
<1> QED
  BY <1>2, <1>3 DEF StartGroup

LEMMA SetPcCall ==
  ASSUME calls \in Seq(CallType), NEW k \in DOMAIN calls,
         NEW pc \in {"start", "session", "release"}, SetPc(k, pc)
  PROVE  /\ calls' \in Seq(CallType) /\ Len(calls') = Len(calls)
         /\ \A i \in DOMAIN calls :
              calls'[i] = IF i = k THEN [calls[k] EXCEPT !.pc = pc] ELSE calls[i]
<1>1. [calls[k] EXCEPT !.pc = pc] \in CallType
  BY TypedCall DEF CallType
<1> QED
  BY <1>1 DEF SetPc

LEMMA CancelledCalls ==
  ASSUME calls \in Seq(CallType)
  PROVE  /\ Cancelled \in Seq(CallType) /\ Len(Cancelled) = Len(calls)
         /\ \A i \in DOMAIN calls :
              Cancelled[i] = [calls[i] EXCEPT !.cancelled = @ \/ calls[i].current]
<1>1. \A i \in DOMAIN calls : [calls[i] EXCEPT !.cancelled = @ \/ calls[i].current] \in CallType
  BY TypedCall DEF CallType
<1>2. Cancelled \in [DOMAIN calls -> CallType]
  BY <1>1 DEF Cancelled
<1> QED
  BY <1>2, MappedCalls DEF Cancelled

-----------------------------------------------------------------------------
(* Types *)

LEMMA Parameters ==
  /\ PartitionOf \in [Event -> Partition]
  /\ \A v \in Service : /\ Program[v] \in Seq(Sub) /\ Len(Program[v]) \in Nat \ {0}
                         /\ DOMAIN Program[v] = 1..Len(Program[v])
  /\ MaxSessionEnds \in Nat /\ MaxCrashes \in Nat
<1>1. \A v \in Service : Program[v] \in Seq(Sub) /\ Program[v] # <<>>
  BY BusAssumption
<1>2. \A v \in Service : Len(Program[v]) \in Nat \ {0} /\ DOMAIN Program[v] = 1..Len(Program[v])
  BY <1>1, EmptySeq
<1>3. {MaxSessionEnds, MaxCrashes} \subseteq Nat /\ PartitionOf \in [Event -> Partition]
  BY BusAssumption
<1> QED
  BY <1>1, <1>2, <1>3

LEMMA TypeInit == Init => TypeOK
<1> SUFFICES ASSUME Init PROVE TypeOK
  OBVIOUS
<1>1. \A v \in Service : 1 \in DOMAIN Program[v]
  BY Parameters
<1>2. calls = <<>> /\ <<>> \in Seq(CallType)
  BY DEF Init, Fresh
<1>8. /\ td \subseteq Domain /\ {isRunnig, addingTopic} \subseteq BOOLEAN /\ reconnects \in Nat
      /\ main \in [pc: {"add", "consume", "wait", "added", "attach", "done"},
                    service: Service, at: Nat]
      /\ main.at \in DOMAIN Program[main.service]
  <2>1. PICK v \in Service : main = [pc |-> "add", service |-> v, at |-> 1] /\ td = {}
    BY DEF Init, Fresh
  <2> QED
    BY <1>1, <2>1 DEF Init
<1>9. ends \in 0..MaxSessionEnds /\ crashes \in 0..MaxCrashes
  BY Parameters DEF Init
<1>3. log \in [Partition -> Seq(Event)] /\ \A p \in Partition : log[p] = <<>>
  BY DEF Init
<1>4. {committed, offset} \subseteq [Partition -> Nat]
      /\ \A p \in Partition : committed[p] = 0 /\ offset[p] = 0
  BY DEF Init
<1>5. \A p \in Partition : committed[p] <= Len(log[p]) /\ offset[p] <= Len(log[p])
  BY <1>3, <1>4
<1>6. claim \in [Partition -> [pc: {"none", "idle", "lock", "send"}, left: SUBSET Sub]]
  BY DEF Init, Fresh, NoClaim
<1>7. \A p \in Partition : \A n \in DOMAIN log[p] : PartitionOf[log[p][n]] = p
  BY <1>3
<1> QED
  BY <1>2, <1>3, <1>4, <1>5, <1>6, <1>7, <1>8, <1>9 DEF Init, Fresh, TypeOK, CallType

\* What every event of a log has in common, and where every offset is.
LEMMA TypedLog ==
  ASSUME TypeOK, NEW p \in Partition
  PROVE  /\ log[p] \in Seq(Event) /\ Len(log[p]) \in Nat
         /\ committed[p] \in 0..Len(log[p]) /\ offset[p] \in 0..Len(log[p])
         /\ \A s \in Sub : seen[s][p] \in Nat
         /\ \A n \in 1..Len(log[p]) : log[p][n] \in Event /\ PartitionOf[log[p][n]] = p
<1>1. log[p] \in Seq(Event) /\ committed[p] \in Nat /\ offset[p] \in Nat
      /\ committed[p] <= Len(log[p]) /\ offset[p] <= Len(log[p])
  BY DEF TypeOK
<1>2. \A n \in DOMAIN log[p] : PartitionOf[log[p][n]] = p
  BY <1>1 DEF TypeOK
<1>3. \A s \in Sub : seen[s][p] \in Nat
  <2>1. seen \in [Sub -> [Partition -> Nat]]
    BY DEF TypeOK
  <2> QED
    BY <2>1
<1> QED
  BY <1>1, <1>2, <1>3

\* A log is only appended to.
LEMMA PublishAppends ==
  ASSUME TypeOK, NEW e \in Event, Publish(e), NEW p \in Partition
  PROVE  /\ log' \in [Partition -> Seq(Event)] /\ Len(log[p]) <= Len(log'[p])
         /\ \A n \in 1..Len(log[p]) : log'[p][n] = log[p][n]
         /\ \A n \in 1..Len(log'[p]) : PartitionOf[log'[p][n]] = p
<1> DEFINE q == PartitionOf[e]
<1>1. q \in Partition
  BY Parameters
<1>2. \A r \in Partition : log[r] \in Seq(Event)
  BY DEF TypeOK
<1>3. CASE log' = [log EXCEPT ![q] = Append(@, e)]
  <2>1. log'[q] = Append(log[q], e) /\ \A r \in Partition : r # q => log'[r] = log[r]
    BY <1>1, <1>3 DEF TypeOK
  <2>2. log' \in [Partition -> Seq(Event)]
    <3>1. Append(log[q], e) \in Seq(Event) /\ log \in [Partition -> Seq(Event)]
      BY <1>1, <1>2, AppendProperties DEF TypeOK
    <3> QED
      BY <1>1, <1>3, <3>1
  <2>3. CASE p = q
    <3>1. /\ Len(log'[p]) = Len(log[p]) + 1 /\ log'[p][Len(log[p]) + 1] = e
          /\ \A n \in 1..Len(log[p]) : log'[p][n] = log[p][n]
      BY <1>2, <2>1, <2>3, AppendProperties
    <3>2. \A n \in 1..Len(log[p]) + 1 : n \in 1..Len(log[p]) \/ n = Len(log[p]) + 1
      BY TypedLog
    <3>3. Len(log[p]) \in Nat /\ \A n \in 1..Len(log[p]) : PartitionOf[log[p][n]] = p
      BY TypedLog
    <3>4. \A n \in 1..Len(log'[p]) : PartitionOf[log'[p][n]] = p
      BY SMTT(20), <2>3, <3>1, <3>2, <3>3
    <3> QED
      BY <2>2, <3>1, <3>3, <3>4
  <2>4. CASE p # q
    BY <2>1, <2>2, <2>4, TypedLog
  <2> QED
    BY <2>3, <2>4
<1>4. CASE log' = [log EXCEPT ![q] = @ \o <<e, e>>]
  <2>1. log'[q] = log[q] \o <<e, e>> /\ \A r \in Partition : r # q => log'[r] = log[r]
    BY <1>1, <1>4 DEF TypeOK
  <2>2. <<e, e>> \in Seq(Event) /\ Len(<<e, e>>) = 2 /\ \A i \in 1..2 : <<e, e>>[i] = e
    OBVIOUS
  <2>3. /\ log'[q] \in Seq(Event) /\ Len(log'[q]) = Len(log[q]) + 2
        /\ \A i \in 1..Len(log[q]) + 2 :
             log'[q][i] = IF i <= Len(log[q]) THEN log[q][i] ELSE <<e, e>>[i - Len(log[q])]
    BY <1>1, <1>2, <2>1, <2>2, ConcatProperties
  <2>4. log' \in [Partition -> Seq(Event)]
    BY <1>1, <1>2, <1>4, <2>1, <2>3 DEF TypeOK
  <2>5. CASE p = q
    <3>1. \A i \in 1..Len(log[q]) + 2 : i <= Len(log[q]) \/ i - Len(log[q]) \in 1..2
      BY <1>1, <1>2
    <3>2. \A i \in 1..Len(log[q]) + 2 : PartitionOf[log'[q][i]] = q
      <4> TAKE i \in 1..Len(log[q]) + 2
      <4>1. CASE i <= Len(log[q])
        <5>1. i \in 1..Len(log[q])
          BY <1>1, <4>1, TypedLog
        <5> QED
          BY ZenonT(30), <1>1, <2>3, <4>1, <5>1, TypedLog
      <4>2. CASE ~(i <= Len(log[q]))
        BY <2>2, <2>3, <3>1, <4>2
      <4> QED
        BY <4>1, <4>2
    <3>3. /\ Len(log[q]) \in Nat
          /\ \A i \in 1..Len(log[q]) : i \in 1..Len(log[q]) + 2 /\ i <= Len(log[q])
      BY <1>1, TypedLog
    <3> QED
      BY <2>3, <2>4, <2>5, <3>2, <3>3
  <2>6. CASE p # q
    BY <2>1, <2>4, <2>6, TypedLog
  <2> QED
    BY <2>5, <2>6
<1> QED
  BY <1>3, <1>4 DEF Publish

(* TypeOK by what its parts are about *)
LogOK ==
  /\ log \in [Partition -> Seq(Event)]
  /\ \A p \in Partition : \A n \in DOMAIN log[p] : PartitionOf[log[p][n]] = p
PosOK ==
  /\ committed \in [Partition -> Nat] /\ offset \in [Partition -> Nat]
  /\ \A p \in Partition : committed[p] <= Len(log[p]) /\ offset[p] <= Len(log[p])
MainOK ==
  /\ main \in [pc: {"add", "consume", "wait", "added", "attach", "done"},
                service: Service, at: Nat]
  /\ main.at \in DOMAIN Program[main.service]
  /\ subs \subseteq Sub /\ reader \in [Sub -> {"none", "idle", "busy"}]
GroupOK ==
  /\ td \subseteq Domain /\ isRunnig \in BOOLEAN /\ addingTopic \in BOOLEAN
  /\ muHolder \in {"nobody", "main", "reconnect"} /\ reconnects \in Nat
ListOK == calls \in Seq(CallType)
ClaimOK ==
  /\ claim \in [Partition -> [pc: {"none", "idle", "lock", "send"}, left: SUBSET Sub]]
  /\ seen \in [Sub -> [Partition -> Nat]] /\ mayMiss \subseteq Partition
CountOK ==
  /\ ends \in 0..MaxSessionEnds /\ crashes \in 0..MaxCrashes
  /\ missedEnd \in {"no", "join failed", "ended while adding"}

LEMMA TypeParts ==
  TypeOK <=> LogOK /\ PosOK /\ MainOK /\ GroupOK /\ ListOK /\ ClaimOK /\ CountOK
BY DEF TypeOK, LogOK, PosOK, MainOK, GroupOK, ListOK, ClaimOK, CountOK, CallType

LEMMA TypeStep == TypeOK /\ [Next]_vars => TypeOK'
<1> SUFFICES ASSUME TypeOK, [Next]_vars PROVE TypeOK'
  OBVIOUS
<1>a. LogOK /\ PosOK /\ MainOK /\ GroupOK /\ ListOK /\ ClaimOK /\ CountOK
  BY TypeParts
<1>b. LogOK' /\ PosOK' /\ MainOK' /\ GroupOK' /\ ListOK' /\ ClaimOK' /\ CountOK' => TypeOK'
  BY DEF TypeOK, LogOK, PosOK, MainOK, GroupOK, ListOK, ClaimOK, CountOK, CallType
<1>c. UNCHANGED kafka /\ UNCHANGED offset => LogOK' /\ PosOK'
  BY <1>a DEF kafka, LogOK, PosOK
<1>d. /\ UNCHANGED service => MainOK'
      /\ UNCHANGED group => GroupOK'
      /\ UNCHANGED calls => ListOK'
  BY <1>a DEF service, group, MainOK, GroupOK, ListOK
<1>e. UNCHANGED <<claim, seen, mayMiss>> => ClaimOK'
  BY <1>a DEF ClaimOK
<1>f. UNCHANGED <<ends, crashes, missedEnd>> => CountOK'
  BY <1>a DEF CountOK
<1>g. Current \in Sub /\ Filter[Current].domain \in Domain
  <2>1. main.service \in Service /\ main.at \in DOMAIN Mine
    BY <1>a DEF MainOK, Mine
  <2>2. Mine \in Seq(Sub)
    BY <2>1, Parameters DEF Mine
  <2> QED
    BY <2>1, <2>2 DEF Current, Domain
<1>h. ListOK <=> calls \in Seq(CallType)
  BY DEF ListOK
<1>i. ListOK' <=> calls' \in Seq(CallType)
  BY DEF ListOK
<1>1. ASSUME NEW e \in Event, Publish(e) PROVE TypeOK'
  <2>1. LogOK'
    <3>1. \A p \in Partition :
            log' \in [Partition -> Seq(Event)] /\ \A n \in 1..Len(log'[p]) : PartitionOf[log'[p][n]] = p
      BY <1>1, PublishAppends
    <3>2. log' \in [Partition -> Seq(Event)]
      BY <1>1, <3>1, Parameters
    <3> QED
      BY <3>1, <3>2 DEF LogOK
  <2>2. PosOK'
    <3>1. ASSUME NEW p \in Partition
          PROVE  committed[p] <= Len(log'[p]) /\ offset[p] <= Len(log'[p])
      <4>1. Len(log'[p]) \in Nat
        BY <2>1 DEF LogOK
      <4> QED
        BY <1>1, <4>1, PublishAppends, TypedLog
    <3> QED
      BY <1>1, <1>a, <3>1 DEF Publish, claims, PosOK
  <2> QED
    BY <1>1, <1>b, <1>d, <1>e, <1>f, <2>1, <2>2 DEF Publish, claims, history
<1>2. CASE AddSub
  <2>1. MainOK'
    BY <1>2, <1>a, <1>g DEF AddSub, Goes, MainOK
  <2> QED
    BY <1>2, <1>b, <1>c, <1>d, <1>e, <1>f, <2>1 DEF AddSub, claims, history
<1>3. CASE ConsumeFirst
  <2>1. MainOK'
    BY <1>3, <1>a DEF ConsumeFirst, Goes, MainOK
  <2>2. GroupOK' /\ td' \in SUBSET Domain
    BY <1>3, <1>a, <1>g DEF ConsumeFirst, GroupOK
  <2>3. ListOK'
    BY <1>3, <1>a, <1>h, <1>i, <2>2, StartedCall DEF ConsumeFirst
  <2> QED
    BY <1>3, <1>b, <1>c, <1>e, <1>f, <2>1, <2>2, <2>3 DEF ConsumeFirst, claims, history
<1>4. CASE ConsumeMore
  <2>1. MainOK' /\ GroupOK'
    BY <1>4, <1>a DEF ConsumeMore, Goes, MainOK, GroupOK
  <2>2. ListOK'
    BY <1>4, <1>a, <1>h, <1>i, CancelledCalls DEF ConsumeMore
  <2> QED
    BY <1>4, <1>b, <1>c, <1>e, <1>f, <2>1, <2>2 DEF ConsumeMore, claims, history
<1>5. CASE AddingRestarts
  <2>1. MainOK'
    BY <1>5, <1>a DEF AddingRestarts, Goes, MainOK
  <2>2. GroupOK' /\ td' \in SUBSET Domain
    BY <1>5, <1>a, <1>g DEF AddingRestarts, Restart, GroupOK
  <2>3. ListOK'
    BY <1>5, <1>i, <2>2, StartedGroup DEF AddingRestarts, Restart
  <2> QED
    BY <1>5, <1>b, <1>c, <1>e, <1>f, <2>1, <2>2, <2>3 DEF AddingRestarts, claims, history
<1>6. CASE AddingDone
  <2>1. MainOK' /\ GroupOK'
    BY <1>6, <1>a DEF AddingDone, Goes, MainOK, GroupOK
  <2> QED
    BY <1>6, <1>b, <1>c, <1>d, <1>e, <1>f, <2>1 DEF AddingDone, claims, history
<1>7. CASE Attach
  <2>1. main.service \in Service /\ main.at \in DOMAIN Mine
    BY <1>a DEF MainOK, Mine
  <2>2. main.at \in Nat /\ (main.at = Len(Mine) \/ main.at + 1 \in DOMAIN Mine)
    BY <2>1, Parameters DEF Mine
  <2>3. reader' \in [Sub -> {"none", "idle", "busy"}] /\ subs' \subseteq Sub
    BY <1>7, <1>a DEF Attach, MainOK
  <2>4. \/ main' = [main EXCEPT !.pc = "done"]
        \/ /\ main' = [main EXCEPT !.pc = "add", !.at = @ + 1]
           /\ main.at + 1 \in DOMAIN Mine
    BY <1>7, <2>2 DEF Attach
  <2>5. main'.at \in Nat /\ main'.service = main.service /\ main'.at \in DOMAIN Mine
        /\ main' \in [pc: {"add", "consume", "wait", "added", "attach", "done"},
                      service: Service, at: Nat]
    <3>1. CASE main' = [main EXCEPT !.pc = "done"]
      BY <1>a, <2>1, <3>1 DEF MainOK
    <3>2. CASE main' = [main EXCEPT !.pc = "add", !.at = @ + 1] /\ main.at + 1 \in DOMAIN Mine
      <4>1. main' = [pc |-> "add", service |-> main.service, at |-> main.at + 1]
        BY <1>a, <3>2 DEF MainOK
      <4> QED
        BY <2>1, <2>2, <3>2, <4>1
    <3> QED
      BY <2>4, <3>1, <3>2
  <2>6. MainOK'
    BY <2>3, <2>5 DEF MainOK, Mine
  <2> QED
    BY <1>7, <1>b, <1>c, <1>d, <1>e, <1>f, <2>6 DEF Attach, claims, history
<1>8. ASSUME NEW k \in DOMAIN calls, SetUp(k) PROVE TypeOK'
  <2>1. ListOK'
    BY <1>8, <1>a, <1>h, <1>i, SetPcCall DEF SetUp
  <2>2. LogOK' /\ PosOK'
    <3>1. /\ offset' \in [Partition -> Nat] /\ committed' = committed /\ log' = log
          /\ \A p \in Partition : offset'[p] \in {committed[p], offset[p]}
      BY <1>8, <1>a DEF SetUp, kafka, PosOK
    <3> QED
      BY <1>a, <3>1 DEF LogOK, PosOK
  <2>3. ClaimOK'
    <3>1. claim' \in [Partition -> [pc: {"none", "idle", "lock", "send"}, left: SUBSET Sub]]
      BY <1>8, <1>a DEF SetUp, NoClaim, ClaimOK
    <3>2. seen' \in [Sub -> [Partition -> Nat]]
      BY <1>8, <1>a DEF SetUp, ClaimOK, PosOK
    <3> QED
      BY <1>8, <1>a, <3>1, <3>2 DEF SetUp, ClaimOK
  <2> QED
    BY <1>8, <1>b, <1>d, <1>f, <2>1, <2>2, <2>3 DEF SetUp
<1>9. ASSUME NEW k \in DOMAIN calls, JoinFails(k) PROVE TypeOK'
  <2>1. ListOK'
    BY <1>9, <1>a, <1>h, <1>i, WithoutCall DEF JoinFails
  <2>2. GroupOK' /\ CountOK'
    BY <1>9, <1>a DEF JoinFails, GroupOK, CountOK
  <2> QED
    BY <1>9, <1>b, <1>c, <1>d, <1>e, <2>1, <2>2 DEF JoinFails, claims
<1>10. ASSUME NEW k \in DOMAIN calls, EndSession(k) PROVE TypeOK'
  <2>1. ListOK'
    BY <1>10, <1>a, <1>h, <1>i, SetPcCall DEF EndSession
  <2>2. CountOK'
    <3>1. ends' = ends \/ (ends < MaxSessionEnds /\ ends' = ends + 1)
      BY <1>10 DEF EndSession
    <3>2. ends' \in 0..MaxSessionEnds
      <4>1. ends \in 0..MaxSessionEnds /\ MaxSessionEnds \in Nat
        BY <1>a, Parameters DEF CountOK
      <4> QED
        BY <3>1, <4>1
    <3> QED
      BY <1>10, <1>a, <3>2 DEF EndSession, CountOK
  <2> QED
    BY <1>10, <1>b, <1>c, <1>d, <1>e, <2>1, <2>2 DEF EndSession, claims
<1>11. ASSUME NEW k \in DOMAIN calls, Cleanup(k) PROVE TypeOK'
  <2>1. ListOK'
    BY <1>11, <1>a, <1>h, <1>i, WithoutCall DEF Cleanup
  <2>2. LogOK' /\ PosOK'
    <3>1. offset' \in [Partition -> Nat] /\ \A p \in Partition : offset'[p] \in {0, offset[p]}
      BY <1>11, <1>a DEF Cleanup, PosOK
    <3>2. committed' \in [Partition -> Nat]
          /\ \A p \in Partition : committed'[p] \in {committed[p], offset[p]}
      BY <1>11, <1>a DEF Cleanup, PosOK
    <3>3. \A p \in Partition : offset'[p] <= Len(log[p]) /\ committed'[p] <= Len(log[p])
      <4> TAKE p \in Partition
      <4>1. 0 <= Len(log[p]) /\ offset[p] <= Len(log[p]) /\ committed[p] <= Len(log[p])
        BY TypedLog
      <4> QED
        BY <3>1, <3>2, <4>1
    <3> QED
      BY <1>11, <1>a, <3>1, <3>2, <3>3 DEF Cleanup, LogOK, PosOK
  <2>3. ClaimOK'
    BY <1>11, <1>a DEF Cleanup, NoClaim, ClaimOK
  <2>4. GroupOK' /\ CountOK'
    <3>1. reconnects' = reconnects \/ reconnects' = reconnects + 1
      BY <1>11 DEF Cleanup
    <3>2. missedEnd' = missedEnd \/ missedEnd' = "ended while adding"
      BY <1>11 DEF Cleanup
    <3>3. reconnects' \in Nat
      BY <1>a, <3>1 DEF GroupOK
    <3>4. GroupOK'
      BY <1>11, <1>a, <3>3 DEF Cleanup, GroupOK
    <3> QED
      BY <1>11, <1>a, <3>2, <3>4 DEF Cleanup, CountOK
  <2> QED
    BY <1>11, <1>b, <1>d, <2>1, <2>2, <2>3, <2>4 DEF Cleanup
<1>12. ASSUME NEW p \in Partition, AutoCommit(p) PROVE TypeOK'
  <2>1. LogOK' /\ PosOK'
    <3>1. /\ committed' \in [Partition -> Nat] /\ log' = log /\ offset' = offset
          /\ \A q \in Partition : committed'[q] \in {committed[q], offset[q]}
      BY <1>12, <1>a DEF AutoCommit, claims, PosOK
    <3> QED
      BY <1>a, <3>1 DEF LogOK, PosOK
  <2> QED
    BY <1>12, <1>b, <1>d, <1>e, <1>f, <2>1 DEF AutoCommit, claims, history
<1>13. CASE ReconnectLocks
  <2>1. GroupOK'
    BY <1>13, <1>a DEF ReconnectLocks, GroupOK
  <2> QED
    BY <1>13, <1>b, <1>c, <1>d, <1>e, <1>f, <2>1 DEF ReconnectLocks, claims, history
<1>14. CASE ReconnectRestarts
  <2>1. GroupOK' /\ td' \in SUBSET Domain
    BY <1>14, <1>a DEF ReconnectRestarts, Restart, GroupOK
  <2>2. ListOK'
    BY <1>14, <1>i, <2>1, StartedGroup DEF ReconnectRestarts, Restart
  <2> QED
    BY <1>14, <1>b, <1>c, <1>d, <1>e, <1>f, <2>1, <2>2 DEF ReconnectRestarts, claims, history
<1>15. ASSUME NEW p \in Partition, Fetch(p) PROVE TypeOK'
  <2>1. LogOK' /\ PosOK'
    <3>1. offset[p] \in Nat /\ Len(log[p]) \in Nat /\ offset[p] < Len(log[p])
      BY <1>15, TypedLog DEF Fetch
    <3>2. /\ offset' = [offset EXCEPT ![p] = offset[p] + 1] /\ committed' = committed /\ log' = log
          /\ offset[p] + 1 \in Nat /\ offset[p] + 1 <= Len(log[p])
      BY <1>15, <3>1 DEF Fetch, kafka
    <3> QED
      BY <1>a, <3>2 DEF LogOK, PosOK
  <2>2. ClaimOK'
    <3>1. PICK c \in {"lock", "idle"} : claim' = [claim EXCEPT ![p].pc = c]
      BY <1>15 DEF Fetch
    <3>2. claim[p] \in [pc: {"none", "idle", "lock", "send"}, left: SUBSET Sub]
      BY <1>a DEF ClaimOK
    <3>3. [claim[p] EXCEPT !.pc = c] \in [pc: {"none", "idle", "lock", "send"}, left: SUBSET Sub]
      BY <3>2
    <3>4. claim' = [claim EXCEPT ![p] = [claim[p] EXCEPT !.pc = c]]
      BY <3>1
    <3> QED
      BY ZenonT(30), <1>15, <1>a, <3>3, <3>4 DEF Fetch, history, ClaimOK
  <2> QED
    BY <1>15, <1>b, <1>d, <1>f, <2>1, <2>2 DEF Fetch, history
<1>16. ASSUME NEW p \in Partition, Send(p) PROVE TypeOK'
  <2>1. ClaimOK'
    BY <1>16, <1>a DEF Send, NoClaim, history, ClaimOK, MainOK
  <2> QED
    BY <1>16, <1>b, <1>c, <1>d, <1>f, <2>1 DEF Send, history
<1>17. ASSUME NEW p \in Partition, NEW s \in Sub, Hand(p, s) PROVE TypeOK'
  <2>1. ClaimOK'
    BY <1>17, <1>a DEF Hand, ClaimOK, PosOK
  <2>2. MainOK'
    BY <1>17, <1>a DEF Hand, MainOK
  <2> QED
    BY <1>17, <1>b, <1>c, <1>d, <1>f, <2>1, <2>2 DEF Hand
<1>18. ASSUME NEW s \in Sub, Handled(s) PROVE TypeOK'
  <2>1. MainOK'
    BY <1>18, <1>a DEF Handled, MainOK
  <2> QED
    BY <1>18, <1>b, <1>c, <1>d, <1>e, <1>f, <2>1 DEF Handled, claims, history
<1>19. CASE Crash
  <2>1. MainOK'
    BY <1>19, <1>a, Parameters DEF Crash, Fresh, MainOK
  <2>2. GroupOK' /\ ListOK'
    BY <1>19, <1>a, <1>i, EmptySeq DEF Crash, Fresh, GroupOK
  <2>3. LogOK' /\ PosOK'
    <3>1. offset' = [q \in Partition |-> 0] /\ committed' = committed /\ log' = log
      BY <1>19 DEF Crash, kafka
    <3>2. \A q \in Partition : 0 <= Len(log[q])
      BY TypedLog
    <3> QED
      BY <1>a, <3>1, <3>2 DEF LogOK, PosOK
  <2>4. ClaimOK'
    BY <1>19, <1>a DEF Crash, Fresh, NoClaim, ClaimOK
  <2>5. CountOK'
    <3>1. crashes < MaxCrashes /\ crashes' = crashes + 1
      BY <1>19 DEF Crash
    <3>2. crashes' \in 0..MaxCrashes
      <4>1. crashes \in 0..MaxCrashes /\ MaxCrashes \in Nat
        BY <1>a, Parameters DEF CountOK
      <4> QED
        BY <3>1, <4>1
    <3> QED
      BY <1>19, <1>a, <3>2 DEF Crash, CountOK
  <2> QED
    BY <1>b, <2>1, <2>2, <2>3, <2>4, <2>5
<1>20. CASE UNCHANGED vars
  BY <1>20, <1>a, <1>b, <1>c, <1>d, <1>e, <1>f DEF vars, claims, history
<1> QED
  BY <1>1, <1>2, <1>3, <1>4, <1>5, <1>6, <1>7, <1>8, <1>9, <1>10, <1>11, <1>12, <1>13,
     <1>14, <1>15, <1>16, <1>17, <1>18, <1>19, <1>20
     DEF Next, Subscribing, Consuming, Claiming, Reconnecting

-----------------------------------------------------------------------------
(* The strengthening of the three invariants *)

\* consumerGroup.mu is held over both steps of adding a topic, and for as long as
\* addingTopic is set; only calls that are being waited for are cancelled.
MainHoldsMu ==
  /\ muHolder = "main" <=> main.pc \in {"wait", "added"}
  /\ addingTopic <=> muHolder = "main"
CallsOK ==
  \A k \in DOMAIN calls :
    /\ calls[k].group = "new" /\ calls[k].domains \subseteq td
    /\ calls[k].cancelled => main.pc = "wait"

\* The call reConsume has made is there, or there is an excuse.
AddedIsConsumed == main.pc = "added" /\ missedEnd = "no" => calls # <<>>

BusInv == MainHoldsMu /\ CallsOK /\ AddedIsConsumed /\ OneSession /\ ConsumptionGoesOn

LEMMA BusInit == Init => BusInv
<1> SUFFICES ASSUME Init PROVE BusInv
  OBVIOUS
<1>1. calls = <<>> /\ DOMAIN calls = {} /\ main.pc = "add" /\ td = {}
  BY DEF Init, Fresh
<1> QED
  BY <1>1 DEF Init, BusInv, MainHoldsMu, CallsOK, AddedIsConsumed, OneSession, ConsumptionGoesOn

\* A call that returns leaves the others as they are.
LEMMA OthersStay ==
  ASSUME ListOK, CallsOK, OneSession, NEW k \in DOMAIN calls,
         calls' = Without(k), UNCHANGED <<td, main>>
  PROVE  CallsOK' /\ OneSession'
<1>1. /\ calls \in Seq(CallType) /\ calls' \in Seq(CallType)
      /\ k \in 1..Len(calls) /\ DOMAIN calls' = 1..Len(calls) - 1
  BY WithoutCall DEF ListOK
<1>2. \A i \in DOMAIN calls' :
        LET j == IF i < k THEN i ELSE i + 1 IN
        j \in DOMAIN calls /\ j # k /\ calls'[i] = calls[j]
  BY WithoutCall DEF ListOK
<1>3. CallsOK'
  BY <1>2 DEF CallsOK
<1>4. ASSUME NEW i \in DOMAIN calls', NEW j \in DOMAIN calls', InSession(i)', InSession(j)'
      PROVE  i = j
  <2>1. (IF i < k THEN i ELSE i + 1) = (IF j < k THEN j ELSE j + 1)
    BY <1>2, <1>4 DEF OneSession, InSession
  <2> QED
    BY <1>1, <2>1
<1> QED
  BY <1>3, <1>4 DEF OneSession

LEMMA BusStep == TypeOK /\ BusInv /\ [Next]_vars => BusInv'
<1> SUFFICES ASSUME TypeOK, BusInv, [Next]_vars PROVE BusInv'
  OBVIOUS
<1>a. MainHoldsMu /\ CallsOK /\ AddedIsConsumed /\ OneSession /\ ConsumptionGoesOn
  BY DEF BusInv
<1>b. MainHoldsMu' /\ CallsOK' /\ AddedIsConsumed' /\ OneSession' /\ ConsumptionGoesOn' => BusInv'
  BY DEF BusInv
<1>c. MainOK /\ GroupOK /\ ListOK
  BY TypeParts
<1>d. UNCHANGED <<main, group, calls, missedEnd>> => BusInv'
  BY <1>a, <1>b DEF group, MainHoldsMu, CallsOK, AddedIsConsumed, OneSession, InSession, ConsumptionGoesOn
<1>e. calls \in Seq(CallType) /\ Len(calls) \in Nat /\ DOMAIN calls = 1..Len(calls)
  BY <1>c DEF ListOK
<1>1. ASSUME NEW e \in Event, Publish(e) PROVE BusInv'
  BY <1>1, <1>d DEF Publish, service, history
<1>2. CASE AddSub
  <2>1. main'.pc = "consume" /\ main.pc = "add"
    BY <1>2, <1>c DEF AddSub, Goes, MainOK
  <2> QED
    BY <1>2, <1>a, <1>b, <2>1 DEF AddSub, group, history, MainHoldsMu, CallsOK, AddedIsConsumed,
       OneSession, InSession, ConsumptionGoesOn
<1>3. CASE ConsumeFirst
  <2>1. main'.pc = "attach" /\ main.pc = "consume" /\ muHolder = "nobody" /\ muHolder' = "nobody"
        /\ addingTopic' = addingTopic
    BY <1>3, <1>c DEF ConsumeFirst, Goes, MainOK
  <2>2. td' \in SUBSET Domain /\ td \subseteq td' /\ StartConsume(td')
    BY <1>3, TypeStep, TypeParts DEF ConsumeFirst, TypeOK
  <2>3. /\ calls' \in Seq(CallType) /\ Len(calls') = Len(calls) + 1
        /\ \A i \in DOMAIN calls : calls'[i] = [calls[i] EXCEPT !.current = FALSE]
        /\ calls'[Len(calls) + 1] = Call(td')
    BY <1>e, <2>2, StartedCall
  <2>4. DOMAIN calls' = DOMAIN calls \cup {Len(calls) + 1} /\ calls' # <<>>
    BY <1>e, <2>3
  <2>5. \A i \in DOMAIN calls : /\ calls'[i].group = calls[i].group /\ calls'[i].pc = calls[i].pc
                                /\ calls'[i].domains = calls[i].domains
                                /\ calls'[i].cancelled = calls[i].cancelled
    BY <1>e, <2>3, TypedCall DEF CallType
  <2>6. CallsOK'
    BY <1>a, <2>1, <2>2, <2>3, <2>4, <2>5 DEF CallsOK, Call
  <2>7. OneSession'
    BY <1>a, <2>3, <2>4, <2>5 DEF OneSession, InSession, Call
  <2> QED
    BY <1>a, <1>b, <2>1, <2>4, <2>6, <2>7 DEF MainHoldsMu, AddedIsConsumed, ConsumptionGoesOn
<1>4. CASE ConsumeMore
  <2>1. main'.pc = "wait" /\ muHolder' = "main" /\ addingTopic' /\ td' = td
    BY <1>4, <1>c DEF ConsumeMore, Goes, MainOK
  <2>2. DOMAIN calls' = DOMAIN calls
    BY <1>4, <1>e, CancelledCalls DEF ConsumeMore
  <2>3. \A i \in DOMAIN calls : /\ calls'[i].group = calls[i].group /\ calls'[i].pc = calls[i].pc
                                /\ calls'[i].domains = calls[i].domains
    BY <1>4, <1>e, CancelledCalls, TypedCall DEF ConsumeMore, CallType
  <2> QED
    BY <1>a, <1>b, <2>1, <2>2, <2>3 DEF MainHoldsMu, CallsOK, AddedIsConsumed, OneSession, InSession,
       ConsumptionGoesOn
<1>5. CASE AddingRestarts
  <2>1. main'.pc = "added" /\ main.pc = "wait" /\ UNCHANGED <<muHolder, addingTopic, missedEnd>>
    BY <1>5, <1>c DEF AddingRestarts, Goes, MainOK, history
  <2>2. calls' = <<Call(td')>>
    BY <1>5, TypeStep, StartedGroup DEF AddingRestarts, Restart, TypeOK
  <2> QED
    BY <1>a, <1>b, <2>1, <2>2 DEF MainHoldsMu, CallsOK, AddedIsConsumed, OneSession, Call, ConsumptionGoesOn
<1>6. CASE AddingDone
  <2>1. main'.pc = "attach" /\ main.pc = "added" /\ muHolder' = "nobody" /\ ~addingTopic'
        /\ UNCHANGED <<calls, td, missedEnd>>
    BY <1>6, <1>c DEF AddingDone, Goes, MainOK, history
  <2> QED
    BY <1>a, <1>b, <2>1 DEF MainHoldsMu, CallsOK, AddedIsConsumed, OneSession, InSession, ConsumptionGoesOn
<1>7. CASE Attach
  <2>1. main'.pc \in {"add", "done"} /\ main.pc = "attach" /\ UNCHANGED <<group, calls, missedEnd>>
    BY <1>7, <1>c DEF Attach, MainOK, history
  <2> QED
    BY <1>a, <1>b, <2>1 DEF group, MainHoldsMu, CallsOK, AddedIsConsumed, OneSession, InSession, ConsumptionGoesOn
<1>8. ASSUME NEW k \in DOMAIN calls, SetUp(k) PROVE BusInv'
  <2>1. UNCHANGED <<main, group, missedEnd>>
    BY <1>8 DEF SetUp, service
  <2>2. DOMAIN calls' = DOMAIN calls /\ \A i \in DOMAIN calls :
          calls'[i] = IF i = k THEN [calls[k] EXCEPT !.pc = "session"] ELSE calls[i]
    <3>1. /\ calls' \in Seq(CallType) /\ Len(calls') = Len(calls)
          /\ \A i \in DOMAIN calls :
               calls'[i] = IF i = k THEN [calls[k] EXCEPT !.pc = "session"] ELSE calls[i]
      BY <1>8, <1>e, SetPcCall DEF SetUp
    <3> QED
      BY <1>e, <3>1
  <2>3. \A i \in DOMAIN calls : calls'[i].group = calls[i].group /\ calls'[i].domains = calls[i].domains
                                /\ calls'[i].cancelled = calls[i].cancelled
                                /\ (i # k => calls'[i].pc = calls[i].pc)
    BY <1>e, <2>2, TypedCall DEF CallType
  <2>4. \A i \in DOMAIN calls : ~InSession(i)
    BY <1>8, <1>a DEF SetUp, Locked, CallsOK
  <2>5. OneSession'
    BY <2>2, <2>3, <2>4 DEF OneSession, InSession
  <2>6. CallsOK'
    BY <1>a, <2>1, <2>2, <2>3 DEF CallsOK, group
  <2> QED
    BY <1>a, <1>b, <2>1, <2>2, <2>5, <2>6 DEF group, MainHoldsMu, AddedIsConsumed, ConsumptionGoesOn
<1>9. ASSUME NEW k \in DOMAIN calls, JoinFails(k) PROVE BusInv'
  <2>1. UNCHANGED <<main, td, addingTopic, muHolder, reconnects>> /\ calls' = Without(k)
        /\ missedEnd' = IF calls[k].cancelled THEN missedEnd ELSE "join failed"
    BY <1>9 DEF JoinFails, service
  <2>2. CallsOK' /\ OneSession'
    BY <1>a, <1>c, <2>1, OthersStay
  <2>3. main.pc # "wait" => missedEnd' = "join failed"
    BY <1>a, <2>1 DEF CallsOK
  <2> QED
    BY <1>a, <1>b, <2>1, <2>2, <2>3 DEF MainHoldsMu, AddedIsConsumed, ConsumptionGoesOn
<1>10. ASSUME NEW k \in DOMAIN calls, EndSession(k) PROVE BusInv'
  <2>1. UNCHANGED <<main, group, missedEnd>> /\ InSession(k)
    BY <1>10 DEF EndSession, service, InSession
  <2>2. DOMAIN calls' = DOMAIN calls /\ \A i \in DOMAIN calls :
          calls'[i] = IF i = k THEN [calls[k] EXCEPT !.pc = "release"] ELSE calls[i]
    <3>1. /\ calls' \in Seq(CallType) /\ Len(calls') = Len(calls)
          /\ \A i \in DOMAIN calls :
               calls'[i] = IF i = k THEN [calls[k] EXCEPT !.pc = "release"] ELSE calls[i]
      BY <1>10, <1>e, SetPcCall DEF EndSession
    <3> QED
      BY <1>e, <3>1
  <2>3. \A i \in DOMAIN calls : calls'[i].group = calls[i].group /\ calls'[i].domains = calls[i].domains
                                /\ calls'[i].cancelled = calls[i].cancelled
                                /\ (i # k => calls'[i].pc = calls[i].pc)
    BY <1>e, <2>2, TypedCall DEF CallType
  <2>4. OneSession'
    BY <1>a, <2>1, <2>2, <2>3 DEF OneSession, InSession
  <2>5. CallsOK'
    BY <1>a, <2>1, <2>2, <2>3 DEF CallsOK, group
  <2> QED
    BY <1>a, <1>b, <2>1, <2>2, <2>4, <2>5 DEF group, MainHoldsMu, AddedIsConsumed, ConsumptionGoesOn
<1>11. ASSUME NEW k \in DOMAIN calls, Cleanup(k) PROVE BusInv'
  <2>1. /\ UNCHANGED <<main, td, addingTopic, muHolder>> /\ calls' = Without(k)
        /\ reconnects' = IF addingTopic THEN reconnects ELSE reconnects + 1
        /\ missedEnd' = IF addingTopic /\ ~calls[k].cancelled THEN "ended while adding" ELSE missedEnd
    BY <1>11 DEF Cleanup, service
  <2>2. CallsOK' /\ OneSession'
    BY <1>a, <1>c, <2>1, OthersStay
  <2>3. main.pc = "added" => missedEnd' = "ended while adding"
    BY <1>a, <2>1 DEF CallsOK, MainHoldsMu
  <2>4. muHolder = "nobody" => reconnects' # 0
    <3>1. reconnects + 1 # 0
      BY <1>c DEF GroupOK
    <3> QED
      BY <1>a, <2>1, <3>1 DEF MainHoldsMu
  <2> QED
    BY <1>a, <1>b, <2>1, <2>2, <2>3, <2>4 DEF MainHoldsMu, AddedIsConsumed, ConsumptionGoesOn
<1>12. ASSUME NEW p \in Partition, AutoCommit(p) PROVE BusInv'
  BY <1>12, <1>d DEF AutoCommit, service, history
<1>13. CASE ReconnectLocks
  BY <1>13, <1>a, <1>b DEF ReconnectLocks, service, history, MainHoldsMu, CallsOK, AddedIsConsumed,
     OneSession, InSession, ConsumptionGoesOn
<1>14. CASE ReconnectRestarts
  <2>1. muHolder = "reconnect" /\ muHolder' = "nobody" /\ UNCHANGED <<main, addingTopic>>
    BY <1>14 DEF ReconnectRestarts, service
  <2>2. calls' = <<Call(td')>>
    BY <1>14, TypeStep, StartedGroup DEF ReconnectRestarts, Restart, TypeOK
  <2> QED
    BY <1>a, <1>b, <2>1, <2>2 DEF MainHoldsMu, CallsOK, AddedIsConsumed, OneSession, Call, ConsumptionGoesOn
<1>15. ASSUME NEW p \in Partition, Fetch(p) PROVE BusInv'
  BY <1>15, <1>d DEF Fetch, service, history
<1>16. ASSUME NEW p \in Partition, Send(p) PROVE BusInv'
  BY <1>16, <1>d DEF Send, service, history
<1>17. ASSUME NEW p \in Partition, NEW s \in Sub, Hand(p, s) PROVE BusInv'
  BY <1>17, <1>d DEF Hand
<1>18. ASSUME NEW s \in Sub, Handled(s) PROVE BusInv'
  BY <1>18, <1>d DEF Handled, history
<1>19. CASE Crash
  <2>1. calls' = <<>> /\ DOMAIN calls' = {} /\ main'.pc = "add" /\ td' = {}
        /\ ~addingTopic' /\ muHolder' = "nobody"
    BY <1>19 DEF Crash, Fresh
  <2> QED
    BY <1>b, <2>1 DEF MainHoldsMu, CallsOK, AddedIsConsumed, OneSession, ConsumptionGoesOn
<1>20. CASE UNCHANGED vars
  BY <1>20, <1>d DEF vars, service, history
<1> QED
  BY <1>1, <1>2, <1>3, <1>4, <1>5, <1>6, <1>7, <1>8, <1>9, <1>10, <1>11, <1>12, <1>13,
     <1>14, <1>15, <1>16, <1>17, <1>18, <1>19, <1>20
     DEF Next, Subscribing, Consuming, Claiming, Reconnecting

\* Every reachable state of the Kafka side of a service is well typed; no claim
\* marks, and no commit names, an event that is not in the log (kafka/subscriber.go).
THEOREM BusTypeCorrect == Spec => []TypeOK
<1>1. Init => TypeOK
  BY TypeInit
<1>2. TypeOK /\ [Next]_vars => TypeOK'
  BY TypeStep
<1> QED
  BY <1>1, <1>2, PTL DEF Spec

LEMMA BusInvHolds == Spec => [](TypeOK /\ BusInv)
<1>1. Init => TypeOK /\ BusInv
  BY TypeInit, BusInit
<1>2. TypeOK /\ BusInv /\ [Next]_vars => (TypeOK /\ BusInv)'
  BY TypeStep, BusStep
<1> QED
  BY <1>1, <1>2, PTL DEF Spec

\* Whoever starts the next Consume, Subscribe for a new topic or the goroutine of
\* Cleanup, and whichever calls fail: two sessions of a process never overlap.
THEOREM OneSessionHolds == Spec => []OneSession
<1>1. TypeOK /\ BusInv => OneSession
  BY DEF BusInv
<1> QED
  BY <1>1, BusInvHolds, PTL

\* Between Subscribe and Cleanup, one of the two starts the next Consume, unless a
\* Consume failed before its session or a session ended while a topic was added.
THEOREM ConsumptionGoesOnHolds == Spec => []ConsumptionGoesOn
<1>1. TypeOK /\ BusInv => ConsumptionGoesOn
  BY DEF BusInv
<1> QED
  BY <1>1, BusInvHolds, PTL

-----------------------------------------------------------------------------
(* The strengthening of the refinement *)

\* A domain that is consumed has its subscription; a claim is that of a session.
SubscribedOK ==
  /\ main.pc \in {"consume", "wait", "added", "attach"} => Current \in subs
  /\ \A d \in td : \E s \in subs : Filter[s].domain = d
ClaimsOK ==
  \A p \in Partition : claim[p].pc # "none" =>
    \E k \in DOMAIN calls : InSession(k) /\ p \in PartitionsOf(k)

\* The message that is marked has not been handed to s.
InHand(s, p) == claim[p].pc = "lock" \/ (claim[p].pc = "send" /\ s \in claim[p].left)

\* While p is claimed, s is done with all that is marked but the message in hand.
ClaimedInOrder(s, p) ==
  claim[p].pc # "none" =>
    /\ seen[s][p] <= offset[p] /\ committed[p] <= offset[p]
    /\ \A n \in seen[s][p] + 1 .. offset[p] :
         log[p][n] \in Wants[s] => n = offset[p] /\ InHand(s, p)
Owed(s, p) ==
  /\ InHand(s, p) => seen[s][p] < offset[p] /\ Message(p) \in Decodable
  /\ claim[p].pc = "send" /\ s \in claim[p].left => Message(p) \in Wants[s]

\* What a commit is ahead of s: one wanted event at most, and that is missed only
\* after a crash.
Ahead(s, p) == {n \in seen[s][p] + 1 .. committed[p] : log[p][n] \in Wants[s]}
AheadByOne(s, p) ==
  /\ Ahead(s, p) # {} => p \in mayMiss \/ claim[p].pc # "none"
  /\ \A m, n \in Ahead(s, p) : m = n

InOrder == \A s \in Sub, p \in Partition :
             ClaimedInOrder(s, p) /\ Owed(s, p) /\ AheadByOne(s, p)

DeliveryInv == SubscribedOK /\ ClaimsOK /\ InOrder

LEMMA SameDomain ==
  ASSUME NEW s \in Sub, NEW r \in Sub, Filter[s].domain = Filter[r].domain
  PROVE  s = r
BY BusAssumption

\* A subscription is made before the partitions it wants events of are consumed.
LEMMA WantedBySubscriber ==
  ASSUME TypeOK, CallsOK, SubscribedOK, ClaimsOK,
         NEW p \in Partition, claim[p].pc # "none", NEW n \in 1..Len(log[p]),
         NEW s \in Sub, log[p][n] \in Wants[s]
  PROVE  s \in subs
<1> DEFINE e == log[p][n]
<1>1. e \in Event /\ PartitionOf[e] = p
  BY TypedLog
<1>2. e.domain = Filter[s].domain
  BY BusAssumption DEF Wants, Match
<1>3. e.domain \in DomainOf[p]
  BY <1>1 DEF DomainOf
<1>4. PICK k \in DOMAIN calls : DomainOf[p] \subseteq calls[k].domains
  BY DEF ClaimsOK, PartitionsOf
<1>5. e.domain \in td
  BY <1>3, <1>4 DEF CallsOK
<1>6. PICK r \in subs : Filter[r].domain = e.domain
  BY <1>5 DEF SubscribedOK
<1> QED
  BY <1>2, <1>6, SameDomain, TypeParts DEF MainOK

LEMMA DeliveryInit == Init => DeliveryInv
<1> SUFFICES ASSUME Init PROVE DeliveryInv
  OBVIOUS
<1>1. SubscribedOK /\ ClaimsOK
  BY DEF Init, Fresh, NoClaim, SubscribedOK, ClaimsOK
<1>2. ASSUME NEW s \in Sub, NEW p \in Partition
      PROVE  ClaimedInOrder(s, p) /\ Owed(s, p) /\ AheadByOne(s, p)
  <2>1. claim[p].pc = "none" /\ seen[s][p] = 0 /\ committed[p] = 0
    BY DEF Init, Fresh, NoClaim
  <2>2. Ahead(s, p) = {}
    BY <2>1 DEF Ahead
  <2> QED
    BY <2>1, <2>2 DEF ClaimedInOrder, Owed, InHand, AheadByOne
<1> QED
  BY <1>1, <1>2 DEF DeliveryInv, InOrder

LEMMA SubscribedStep == TypeOK /\ SubscribedOK /\ [Next]_vars => SubscribedOK'
<1> SUFFICES ASSUME TypeOK, SubscribedOK, [Next]_vars PROVE SubscribedOK'
  OBVIOUS
<1>a. UNCHANGED <<main, subs, td>> => SubscribedOK'
  BY DEF SubscribedOK, Current, Mine
<1>b. MainOK
  BY TypeParts
<1>1. ASSUME NEW e \in Event, Publish(e) PROVE SubscribedOK'
  BY <1>1, <1>a DEF Publish, service, group
<1>2. CASE AddSub
  <2>1. main' = [main EXCEPT !.pc = "consume"] /\ subs' = subs \cup {Current} /\ td' = td
    BY <1>2 DEF AddSub, Goes, group
  <2>2. Current' \in subs'
    BY <1>b, <2>1 DEF Current, Mine, MainOK
  <2> QED
    BY <2>1, <2>2 DEF SubscribedOK
<1>3. CASE ConsumeFirst
  <2>1. main' = [main EXCEPT !.pc = "attach"] /\ main.pc = "consume" /\ subs' = subs
        /\ td' = td \cup {Filter[Current].domain}
    BY <1>3 DEF ConsumeFirst, Goes
  <2>2. Current' = Current /\ Current \in subs
    BY <1>b, <2>1 DEF Current, Mine, MainOK, SubscribedOK
  <2> QED
    BY <2>1, <2>2 DEF SubscribedOK
<1>4. CASE ConsumeMore
  <2>1. main' = [main EXCEPT !.pc = "wait"] /\ main.pc = "consume" /\ subs' = subs /\ td' = td
    BY <1>4 DEF ConsumeMore, Goes
  <2>2. Current' = Current /\ Current \in subs
    BY <1>b, <2>1 DEF Current, Mine, MainOK, SubscribedOK
  <2> QED
    BY <2>1, <2>2 DEF SubscribedOK
<1>5. CASE AddingRestarts
  <2>1. main' = [main EXCEPT !.pc = "added"] /\ main.pc = "wait" /\ subs' = subs
        /\ td' = td \cup {Filter[Current].domain}
    BY <1>5 DEF AddingRestarts, Restart, Goes
  <2>2. Current' = Current /\ Current \in subs
    BY <1>b, <2>1 DEF Current, Mine, MainOK, SubscribedOK
  <2> QED
    BY <2>1, <2>2 DEF SubscribedOK
<1>6. CASE AddingDone
  <2>1. main' = [main EXCEPT !.pc = "attach"] /\ main.pc = "added" /\ subs' = subs /\ td' = td
    BY <1>6 DEF AddingDone, Goes
  <2>2. Current' = Current /\ Current \in subs
    BY <1>b, <2>1 DEF Current, Mine, MainOK, SubscribedOK
  <2> QED
    BY <2>1, <2>2 DEF SubscribedOK
<1>7. CASE Attach
  <2>1. main'.pc \in {"add", "done"} /\ subs' = subs /\ td' = td
    BY <1>7, <1>b DEF Attach, MainOK, group
  <2> QED
    BY <2>1 DEF SubscribedOK
<1>8. ASSUME NEW k \in DOMAIN calls, Consuming(k) \/ EndSession(k) PROVE SubscribedOK'
  BY <1>8, <1>a DEF Consuming, SetUp, JoinFails, Cleanup, EndSession, service, group
<1>9. CASE Reconnecting
  <2>1. UNCHANGED <<main, subs, td>>
    BY <1>9 DEF Reconnecting, ReconnectLocks, ReconnectRestarts, Restart, service
  <2> QED
    BY <1>a, <2>1
<1>10. ASSUME NEW p \in Partition, Claiming(p) \/ AutoCommit(p) \/ \E s \in Sub : Hand(p, s)
       PROVE  SubscribedOK'
  BY <1>10, <1>a DEF Claiming, Fetch, Send, AutoCommit, Hand, service, group
<1>11. ASSUME NEW s \in Sub, Handled(s) PROVE SubscribedOK'
  BY <1>11, <1>a DEF Handled, group
<1>12. CASE Crash
  BY <1>12 DEF Crash, Fresh, SubscribedOK
<1>13. CASE UNCHANGED vars
  BY <1>13, <1>a DEF vars, service, group
<1> QED
  BY <1>1, <1>2, <1>3, <1>4, <1>5, <1>6, <1>7, <1>8, <1>9, <1>10, <1>11, <1>12, <1>13
     DEF Next, Subscribing

\* A session that keeps its topics keeps its claims.
LEMMA SameSessions ==
  ASSUME ClaimsOK, ListOK,
         \A p \in Partition : claim'[p].pc # "none" => claim[p].pc # "none",
         \A k \in DOMAIN calls : InSession(k) =>
           \E j \in DOMAIN calls' : InSession(j)' /\ calls'[j].domains = calls[k].domains
  PROVE  ClaimsOK'
<1> SUFFICES ASSUME NEW p \in Partition, claim'[p].pc # "none"
             PROVE  \E j \in DOMAIN calls' : InSession(j)' /\ p \in PartitionsOf(j)'
  BY DEF ClaimsOK
<1>1. PICK k \in DOMAIN calls : InSession(k) /\ p \in PartitionsOf(k)
  BY DEF ClaimsOK
<1>2. PICK j \in DOMAIN calls' : InSession(j)' /\ calls'[j].domains = calls[k].domains
  BY <1>1
<1> QED
  BY <1>1, <1>2 DEF PartitionsOf

\* While no session is set up, nothing is claimed.
LEMMA NothingClaimed ==
  ASSUME ClaimsOK, CallsOK, NEW k \in DOMAIN calls, ~Locked(k), NEW p \in Partition
  PROVE  claim[p].pc = "none"
BY DEF ClaimsOK, CallsOK, Locked

\* What is claimed is claimed by the session that is being released.
LEMMA OnlyMine ==
  ASSUME ClaimsOK, OneSession, NEW k \in DOMAIN calls, InSession(k),
         NEW p \in Partition \ PartitionsOf(k)
  PROVE  claim[p].pc = "none"
BY DEF ClaimsOK, OneSession

LEMMA ClaimsStep == TypeOK /\ BusInv /\ ClaimsOK /\ [Next]_vars => ClaimsOK'
<1> SUFFICES ASSUME TypeOK, BusInv, ClaimsOK, [Next]_vars PROVE ClaimsOK'
  OBVIOUS
<1>a. ListOK /\ ClaimOK /\ CallsOK /\ OneSession
  BY TypeParts DEF BusInv
<1>b. calls \in Seq(CallType) /\ Len(calls) \in Nat /\ DOMAIN calls = 1..Len(calls)
  BY <1>a DEF ListOK
<1>c. UNCHANGED calls /\ (\A p \in Partition : claim'[p].pc # "none" => claim[p].pc # "none")
        => ClaimsOK'
  BY DEF ClaimsOK, InSession, PartitionsOf
<1>d. UNCHANGED <<calls, claim>> => ClaimsOK'
  BY <1>c
<1>1. ASSUME NEW e \in Event, Publish(e) PROVE ClaimsOK'
  BY <1>1, <1>d DEF Publish, claims
<1>2. CASE AddSub \/ AddingDone \/ Attach
  BY <1>2, <1>d DEF AddSub, AddingDone, Attach, claims
<1>3. CASE ConsumeFirst
  <2>1. td' \in SUBSET Domain /\ StartConsume(td') /\ claim' = claim
    BY <1>3, TypeStep DEF ConsumeFirst, TypeOK, claims
  <2>2. /\ calls' \in Seq(CallType) /\ Len(calls') = Len(calls) + 1
        /\ \A i \in DOMAIN calls : calls'[i] = [calls[i] EXCEPT !.current = FALSE]
    BY <1>b, <2>1, StartedCall
  <2>3. \A i \in DOMAIN calls : i \in DOMAIN calls' /\ calls'[i].pc = calls[i].pc
                                /\ calls'[i].domains = calls[i].domains
    <3>1. \A i \in DOMAIN calls : calls[i] \in CallType
      BY <1>b, TypedCall
    <3>2. \A i \in DOMAIN calls : i \in DOMAIN calls'
      BY <1>b, <2>2
    <3> QED
      BY <2>2, <3>1, <3>2 DEF CallType
  <2> QED
    BY <1>a, <2>1, <2>3, SameSessions DEF InSession
<1>4. CASE ConsumeMore
  <2>1. \A i \in DOMAIN calls : i \in DOMAIN calls' /\ calls'[i].pc = calls[i].pc
                                /\ calls'[i].domains = calls[i].domains
    <3>1. \A i \in DOMAIN calls : calls[i] \in CallType
      BY <1>b, TypedCall
    <3>2. /\ calls' \in Seq(CallType) /\ Len(calls') = Len(calls)
          /\ \A i \in DOMAIN calls :
               calls'[i] = [calls[i] EXCEPT !.cancelled = @ \/ calls[i].current]
      BY <1>4, <1>b, CancelledCalls DEF ConsumeMore
    <3>3. \A i \in DOMAIN calls : i \in DOMAIN calls'
      BY <1>b, <3>2
    <3> QED
      BY <3>1, <3>2, <3>3 DEF CallType
  <2>2. claim' = claim
    BY <1>4 DEF ConsumeMore, claims
  <2> QED
    BY <1>a, <2>1, <2>2, SameSessions DEF InSession
<1>5. CASE AddingRestarts \/ ReconnectRestarts
  <2>1. calls = <<>> /\ claim' = claim
    BY <1>5 DEF AddingRestarts, ReconnectRestarts, Restart, claims
  <2> QED
    BY <2>1 DEF ClaimsOK
<1>6. ASSUME NEW k \in DOMAIN calls, SetUp(k) PROVE ClaimsOK'
  <2>1. /\ calls' \in Seq(CallType) /\ Len(calls') = Len(calls)
        /\ calls'[k] = [calls[k] EXCEPT !.pc = "session"]
    BY <1>6, <1>b, SetPcCall DEF SetUp
  <2>2. k \in DOMAIN calls' /\ InSession(k)' /\ PartitionsOf(k)' = PartitionsOf(k)
    BY <1>b, <2>1, TypedCall DEF InSession, PartitionsOf, CallType
  <2>3. \A p \in Partition : claim[p].pc = "none"
    BY <1>6, <1>a, NothingClaimed DEF SetUp
  <2>4. \A p \in Partition : claim'[p].pc # "none" => p \in PartitionsOf(k)
    BY <1>6, <2>3 DEF SetUp
  <2> QED
    BY <2>2, <2>4 DEF ClaimsOK
<1>7. ASSUME NEW k \in DOMAIN calls, JoinFails(k) PROVE ClaimsOK'
  <2>1. calls' = Without(k) /\ claim' = claim /\ ~InSession(k)
    BY <1>7 DEF JoinFails, InSession, claims
  <2>2. /\ DOMAIN calls' = 1..Len(calls) - 1
        /\ \A i \in DOMAIN calls' :
             LET j == IF i < k THEN i ELSE i + 1 IN
             j \in DOMAIN calls /\ j # k /\ calls'[i] = calls[j]
    <3>1. /\ calls' \in Seq(CallType) /\ Len(calls') = Len(calls) - 1
          /\ \A i \in DOMAIN calls' :
               LET j == IF i < k THEN i ELSE i + 1 IN
               j \in DOMAIN calls /\ j # k /\ calls'[i] = calls[j]
      BY <1>b, <2>1, WithoutCall
    <3> QED
      BY <1>b, <3>1
  <2>3. ASSUME NEW j \in DOMAIN calls, j # k
        PROVE  \E i \in DOMAIN calls' : calls'[i] = calls[j]
    <3>1. CASE j < k
      <4>1. j \in DOMAIN calls'
        BY <1>b, <2>2, <3>1
      <4> QED
        BY <2>2, <3>1, <4>1
    <3>2. CASE j > k
      <4>1. j - 1 \in DOMAIN calls' /\ ~(j - 1 < k) /\ (j - 1) + 1 = j
        BY <1>b, <2>2, <3>2
      <4> QED
        BY <2>2, <4>1
    <3> QED
      BY <1>b, <2>3, <3>1, <3>2
  <2> QED
    BY <1>a, <2>1, <2>3, SameSessions DEF InSession
<1>8. ASSUME NEW k \in DOMAIN calls, EndSession(k) PROVE ClaimsOK'
  <2>1. /\ calls' \in Seq(CallType) /\ Len(calls') = Len(calls) /\ claim' = claim
        /\ \A i \in DOMAIN calls :
             calls'[i] = IF i = k THEN [calls[k] EXCEPT !.pc = "release"] ELSE calls[i]
    BY <1>8, <1>b, SetPcCall DEF EndSession, claims
  <2>2. \A i \in DOMAIN calls : i \in DOMAIN calls' /\ calls'[i].domains = calls[i].domains
                                /\ (InSession(i) => InSession(i)')
    BY <1>b, <2>1, TypedCall DEF CallType, InSession
  <2> QED
    BY <1>a, <2>1, <2>2, SameSessions
<1>9. ASSUME NEW k \in DOMAIN calls, Cleanup(k) PROVE ClaimsOK'
  <2>1. InSession(k)
    BY <1>9 DEF Cleanup, InSession
  <2>2. \A p \in Partition : claim'[p].pc = "none"
    BY <1>9, <1>a, <2>1, OnlyMine DEF Cleanup, NoClaim
  <2> QED
    BY <2>2 DEF ClaimsOK
<1>10. ASSUME NEW p \in Partition, AutoCommit(p) PROVE ClaimsOK'
  BY <1>10, <1>d DEF AutoCommit, claims
<1>11. CASE ReconnectLocks
  BY <1>11, <1>d DEF ReconnectLocks, claims
<1>12. ASSUME NEW p \in Partition, Fetch(p) PROVE ClaimsOK'
  <2>1. \A q \in Partition : claim'[q].pc # "none" => claim[q].pc # "none"
    BY <1>12, <1>a DEF Fetch, ClaimOK
  <2> QED
    BY <1>12, <1>c, <2>1 DEF Fetch
<1>13. ASSUME NEW p \in Partition, Send(p) PROVE ClaimsOK'
  <2>1. \A q \in Partition : claim'[q].pc # "none" => claim[q].pc # "none"
    BY <1>13, <1>a DEF Send, ClaimOK
  <2> QED
    BY <1>13, <1>c, <2>1 DEF Send
<1>14. ASSUME NEW p \in Partition, NEW s \in Sub, Hand(p, s) PROVE ClaimsOK'
  <2>1. \A q \in Partition : claim'[q].pc # "none" => claim[q].pc # "none"
    BY <1>14, <1>a DEF Hand, ClaimOK
  <2> QED
    BY <1>14, <1>c, <2>1 DEF Hand
<1>15. ASSUME NEW s \in Sub, Handled(s) PROVE ClaimsOK'
  BY <1>15, <1>d DEF Handled, claims
<1>16. CASE Crash
  BY <1>16 DEF Crash, Fresh, NoClaim, ClaimsOK
<1>17. CASE UNCHANGED vars
  BY <1>17, <1>d DEF vars, claims
<1> QED
  BY <1>1, <1>2, <1>3, <1>4, <1>5, <1>6, <1>7, <1>8, <1>9, <1>10, <1>11, <1>12, <1>13,
     <1>14, <1>15, <1>16, <1>17
     DEF Next, Subscribing, Consuming, Claiming, Reconnecting

\* What s is owed of p changes only with what they are at.
LEMMA OrderStays ==
  ASSUME TypeOK, InOrder, NEW s \in Sub, NEW p \in Partition,
         seen'[s][p] = seen[s][p], offset'[p] = offset[p], committed'[p] = committed[p],
         claim'[p] = claim[p], p \in mayMiss => p \in mayMiss',
         \A n \in 1..Len(log[p]) : log'[p][n] = log[p][n]
  PROVE  (ClaimedInOrder(s, p) /\ Owed(s, p) /\ AheadByOne(s, p))'
<1>1. /\ Len(log[p]) \in Nat /\ seen[s][p] \in Nat
      /\ committed[p] \in 0..Len(log[p]) /\ offset[p] \in 0..Len(log[p])
  BY TypedLog
<1>2. ClaimedInOrder(s, p) /\ Owed(s, p) /\ AheadByOne(s, p)
  BY DEF InOrder
<1>3. InHand(s, p)' <=> InHand(s, p)
  BY DEF InHand
<1>4. \A n \in seen[s][p] + 1 .. offset[p] : log'[p][n] = log[p][n]
  BY <1>1
<1>5. \A n \in seen[s][p] + 1 .. committed[p] : log'[p][n] = log[p][n]
  BY <1>1
<1>6. InHand(s, p) => Message(p)' = Message(p)
  <2>1. InHand(s, p) => offset[p] \in 1..Len(log[p])
    BY <1>1, <1>2 DEF Owed
  <2> QED
    BY <2>1 DEF Message
<1>7. ClaimedInOrder(s, p)'
  BY <1>2, <1>3, <1>4 DEF ClaimedInOrder, Wants
<1>8. Owed(s, p)'
  BY <1>2, <1>3, <1>6 DEF Owed, InHand, Wants
<1>9. Ahead(s, p)' = Ahead(s, p)
  BY <1>5 DEF Ahead, Wants
<1>10. AheadByOne(s, p)'
  BY <1>2, <1>9 DEF AheadByOne
<1> QED
  BY <1>7, <1>8, <1>10

LEMMA OrderStep ==
  ASSUME TypeOK, BusInv, DeliveryInv, [Next]_vars, NEW s \in Sub, NEW p \in Partition
  PROVE  (ClaimedInOrder(s, p) /\ Owed(s, p) /\ AheadByOne(s, p))'
<1> DEFINE Fact == ClaimedInOrder(s, p) /\ Owed(s, p) /\ AheadByOne(s, p)
<1>a. SubscribedOK /\ ClaimsOK /\ InOrder /\ CallsOK /\ OneSession /\ Fact
  BY DEF DeliveryInv, InOrder, BusInv
<1>b. LogOK /\ PosOK /\ ClaimOK
  BY TypeParts
<1>c. /\ Len(log[p]) \in Nat /\ seen[s][p] \in Nat /\ committed[p] \in Nat /\ offset[p] \in Nat
      /\ committed[p] <= Len(log[p]) /\ offset[p] <= Len(log[p])
  BY TypedLog
<1>d. claim[p].pc \in {"none", "idle", "lock", "send"}
  BY <1>b DEF ClaimOK
<1>e. ASSUME seen'[s][p] = seen[s][p], offset'[p] = offset[p], committed'[p] = committed[p],
             claim'[p] = claim[p], p \in mayMiss => p \in mayMiss', log' = log
      PROVE  Fact'
  BY <1>a, <1>e, OrderStays
<1>f. UNCHANGED <<kafka, claims, seen, mayMiss>> => Fact'
  BY <1>e DEF kafka, claims
<1>1. ASSUME NEW e \in Event, Publish(e) PROVE Fact'
  <2>1. \A n \in 1..Len(log[p]) : log'[p][n] = log[p][n]
    BY <1>1, PublishAppends
  <2>2. UNCHANGED <<seen, offset, committed, claim, mayMiss>>
    BY <1>1 DEF Publish, claims, history
  <2> QED
    BY <1>a, <2>1, <2>2, OrderStays
<1>2. CASE Subscribing \/ Reconnecting
  BY <1>2, <1>f DEF Subscribing, AddSub, ConsumeFirst, ConsumeMore, AddingRestarts, AddingDone,
     Attach, Reconnecting, ReconnectLocks, ReconnectRestarts, history
<1>3. ASSUME NEW k \in DOMAIN calls, SetUp(k) PROVE Fact'
  <2>1. CASE p \in PartitionsOf(k)
    <3>1. /\ claim'[p].pc = "idle" /\ offset'[p] = committed[p] /\ seen'[s][p] = committed[p]
          /\ committed' = committed
      BY <1>3, <2>1 DEF SetUp, NoClaim, kafka
    <3>2. ~InHand(s, p)'
      BY <3>1 DEF InHand
    <3>3. \A n \in committed[p] + 1 .. committed[p] : FALSE
      BY <1>c
    <3>4. Ahead(s, p)' = {}
      BY <3>1, <3>3 DEF Ahead
    <3> QED
      BY <1>c, <3>1, <3>2, <3>3, <3>4 DEF ClaimedInOrder, Owed, AheadByOne
  <2>2. CASE p \notin PartitionsOf(k)
    <3>1. /\ seen'[s][p] = seen[s][p] /\ offset'[p] = offset[p] /\ claim'[p] = claim[p]
          /\ committed' = committed /\ log' = log /\ (p \in mayMiss => p \in mayMiss')
      BY <1>3, <2>2 DEF SetUp, kafka
    <3> QED
      BY <1>e, <3>1
  <2> QED
    BY <2>1, <2>2
<1>4. ASSUME NEW k \in DOMAIN calls, JoinFails(k) \/ EndSession(k) PROVE Fact'
  BY <1>4, <1>f DEF JoinFails, EndSession
<1>5. ASSUME NEW k \in DOMAIN calls, Cleanup(k) PROVE Fact'
  <2>1. CASE p \in PartitionsOf(k)
    <3>1. /\ claim[p].pc = "idle" /\ claim'[p].pc = "none" /\ UNCHANGED <<log, seen>>
          /\ committed'[p] \in {committed[p], offset[p]}
      BY <1>5, <1>b, <2>1 DEF Cleanup, NoClaim, PosOK
    <3>2. \A n \in seen[s][p] + 1 .. offset[p] : log[p][n] \notin Wants[s]
      BY <1>a, <3>1 DEF ClaimedInOrder, InHand
    <3>3. \A n \in seen[s][p] + 1 .. committed'[p] : n \in seen[s][p] + 1 .. offset[p]
      BY <1>a, <1>c, <3>1 DEF ClaimedInOrder
    <3>4. Ahead(s, p)' = {}
      BY <3>1, <3>2, <3>3 DEF Ahead, Wants
    <3> QED
      BY <3>1, <3>4 DEF ClaimedInOrder, Owed, InHand, AheadByOne
  <2>2. CASE p \notin PartitionsOf(k)
    <3>1. /\ UNCHANGED <<seen, log, mayMiss>> /\ offset'[p] = offset[p]
          /\ claim'[p] = claim[p] /\ committed'[p] = committed[p]
      BY <1>5, <2>2 DEF Cleanup
    <3> QED
      BY <1>e, <3>1
  <2> QED
    BY <2>1, <2>2
<1>6. ASSUME NEW q \in Partition, AutoCommit(q) PROVE Fact'
  <2>0. UNCHANGED <<log, seen, offset, claim, mayMiss>>
    BY <1>6 DEF AutoCommit, claims, history
  <2>1. CASE p = q
    <3>1. committed'[p] = offset[p] /\ claim[p].pc # "none"
      BY <1>6, <1>b, <2>1 DEF AutoCommit, PosOK
    <3>2. ClaimedInOrder(s, p)' /\ Owed(s, p)'
      BY <1>a, <1>c, <2>0, <3>1 DEF ClaimedInOrder, Owed, InHand, Message, Wants
    <3>3. \A n \in Ahead(s, p)' : n = offset[p]
      BY <1>a, <2>0, <3>1 DEF Ahead, ClaimedInOrder, Wants
    <3> QED
      BY <2>0, <3>1, <3>2, <3>3 DEF AheadByOne
  <2>2. CASE p # q
    <3>1. committed'[p] = committed[p]
      BY <1>6, <1>b, <2>2 DEF AutoCommit, PosOK
    <3> QED
      BY <1>e, <2>0, <3>1
  <2> QED
    BY <2>1, <2>2
<1>7. ASSUME NEW q \in Partition, Fetch(q) PROVE Fact'
  <2>0. UNCHANGED <<log, seen, committed, mayMiss>>
    BY <1>7 DEF Fetch, kafka, history
  <2>1. CASE p = q
    <3>1. /\ claim[p].pc = "idle" /\ offset'[p] = offset[p] + 1
          /\ claim'[p].pc = IF log[p][offset[p] + 1] \in Decodable THEN "lock" ELSE "idle"
      BY <1>7, <1>b, <2>1 DEF Fetch, Decodes, PosOK, ClaimOK
    <3>2. \A n \in seen[s][p] + 1 .. offset[p] : log[p][n] \notin Wants[s]
      BY <1>a, <3>1 DEF ClaimedInOrder, InHand
    <3>3. \A n \in seen[s][p] + 1 .. offset'[p] :
            n \in seen[s][p] + 1 .. offset[p] \/ n = offset'[p]
      BY <1>c, <3>1
    <3>4. log[p][offset'[p]] \in Wants[s] => claim'[p].pc = "lock"
      BY <3>1 DEF Wants
    <3>5. seen[s][p] <= offset[p] /\ committed[p] <= offset[p]
      BY <1>a, <3>1 DEF ClaimedInOrder
    <3>6. seen[s][p] < offset'[p] /\ committed[p] <= offset'[p] /\ seen[s][p] <= offset'[p]
      BY <1>c, <3>1, <3>5
    <3>7. ClaimedInOrder(s, p)'
      BY <2>0, <3>1, <3>2, <3>3, <3>4, <3>6 DEF ClaimedInOrder, InHand, Wants
    <3>8. Owed(s, p)'
      BY <2>0, <3>1, <3>6 DEF Owed, InHand, Message
    <3>9. Ahead(s, p)' = Ahead(s, p) /\ claim'[p].pc # "none"
      BY <2>0, <3>1 DEF Ahead, Wants
    <3> QED
      BY <1>a, <3>7, <3>8, <3>9 DEF AheadByOne
  <2>2. CASE p # q
    <3>1. claim'[p] = claim[p] /\ offset'[p] = offset[p]
      BY <1>7, <1>b, <2>2 DEF Fetch, PosOK, ClaimOK
    <3> QED
      BY <1>e, <2>0, <3>1
  <2> QED
    BY <2>1, <2>2
<1>8. ASSUME NEW q \in Partition, Send(q) PROVE Fact'
  <2>0. UNCHANGED <<log, seen, committed, offset, mayMiss>>
    BY <1>8 DEF Send, kafka, history
  <2>1. CASE p = q
    <3> DEFINE to == {r \in subs : Match(Message(p), Filter[r])}
    <3>1. /\ claim[p].pc = "lock"
          /\ claim'[p] = IF to = {} THEN [NoClaim EXCEPT !.pc = "idle"]
                         ELSE [pc |-> "send", left |-> to]
      BY <1>8, <1>b, <2>1 DEF Send, ClaimOK
    <3>2. InHand(s, p)' <=> s \in to
      BY <3>1 DEF InHand, NoClaim
    <3>3. seen[s][p] < offset[p] /\ Message(p) \in Decodable /\ offset[p] \in 1..Len(log[p])
      BY <1>a, <1>c, <3>1 DEF Owed, InHand
    <3>4. Message(p) \in Wants[s] => s \in to
      BY <1>a, <3>1, <3>3, WantedBySubscriber DEF Message, Wants
    <3>5. s \in to => Message(p) \in Wants[s]
      BY <3>3 DEF Wants
    <3>6. claim'[p].pc \in {"idle", "send"}
      BY <3>1 DEF NoClaim
    <3>7. ClaimedInOrder(s, p)'
      BY <1>a, <2>0, <3>1, <3>2, <3>4 DEF ClaimedInOrder, Message, Wants
    <3>8. Owed(s, p)'
      BY <2>0, <3>2, <3>3, <3>5, <3>6 DEF Owed, Message, InHand, Wants
    <3>9. Ahead(s, p)' = Ahead(s, p) /\ claim'[p].pc # "none"
      BY <2>0, <3>6 DEF Ahead, Wants
    <3> QED
      BY <1>a, <3>7, <3>8, <3>9 DEF AheadByOne
  <2>2. CASE p # q
    <3>1. claim'[p] = claim[p]
      BY <1>8, <1>b, <2>2 DEF Send, ClaimOK
    <3> QED
      BY <1>e, <2>0, <3>1
  <2> QED
    BY <2>1, <2>2
<1>9. ASSUME NEW q \in Partition, NEW r \in Sub, Hand(q, r) PROVE Fact'
  <2>0. UNCHANGED <<log, committed, offset, mayMiss>>
    BY <1>9 DEF Hand, kafka
  <2>1. CASE p = q
    <3> DEFINE left == claim[p].left \ {r}
    <3>1. /\ claim[p].pc = "send" /\ r \in claim[p].left
          /\ claim'[p] = [pc |-> IF left = {} THEN "idle" ELSE "send", left |-> left]
      BY <1>9, <1>b, <2>1 DEF Hand, ClaimOK
    <3>2. seen'[s][p] = IF s = r THEN offset[p] ELSE seen[s][p]
      BY <1>9, <1>b, <2>1 DEF Hand, ClaimOK
    <3>3. InHand(s, p)' <=> InHand(s, p) /\ s # r
      BY <3>1 DEF InHand
    <3>4. claim'[p].pc \in {"idle", "send"}
      BY <3>1
    <3>5. CASE s = r
      <4>1. \A n \in offset[p] + 1 .. offset[p] : FALSE
        BY <1>c
      <4>2. committed[p] <= offset[p]
        BY <1>a, <3>1 DEF ClaimedInOrder
      <4>3. \A n \in offset[p] + 1 .. committed[p] : FALSE
        BY <1>c, <4>2
      <4>4. Ahead(s, p)' = {}
        BY <2>0, <3>2, <3>5, <4>3 DEF Ahead
      <4>5. ClaimedInOrder(s, p)'
        BY <1>c, <2>0, <3>2, <3>5, <4>1, <4>2 DEF ClaimedInOrder
      <4>6. Owed(s, p)'
        BY <3>3, <3>4, <3>5 DEF Owed, InHand
      <4> QED
        BY <4>4, <4>5, <4>6 DEF AheadByOne
    <3>6. CASE s # r
      <4>1. ClaimedInOrder(s, p)'
        BY <1>a, <2>0, <3>1, <3>2, <3>3, <3>6 DEF ClaimedInOrder, Wants
      <4>2. Owed(s, p)'
        BY <1>a, <2>0, <3>1, <3>2, <3>3, <3>6 DEF Owed, InHand, Message, Wants
      <4>3. Ahead(s, p)' = Ahead(s, p) /\ claim'[p].pc # "none"
        BY <2>0, <3>2, <3>4, <3>6 DEF Ahead, Wants
      <4> QED
        BY <1>a, <4>1, <4>2, <4>3 DEF AheadByOne
    <3> QED
      BY <3>5, <3>6
  <2>2. CASE p # q
    <3>1. claim'[p] = claim[p] /\ seen'[s][p] = seen[s][p]
      BY <1>9, <1>b, <2>2 DEF Hand, ClaimOK
    <3> QED
      BY <1>e, <2>0, <3>1
  <2> QED
    BY <2>1, <2>2
<1>10. ASSUME NEW r \in Sub, Handled(r) PROVE Fact'
  BY <1>10, <1>f DEF Handled, history
<1>11. CASE Crash
  <2>1. claim'[p].pc = "none" /\ p \in mayMiss' /\ UNCHANGED <<log, committed, seen>>
    BY <1>11 DEF Crash, Fresh, NoClaim, kafka
  <2>2. Ahead(s, p)' = Ahead(s, p)
    BY <2>1 DEF Ahead, Wants
  <2> QED
    BY <1>a, <2>1, <2>2 DEF ClaimedInOrder, Owed, InHand, AheadByOne
<1>12. CASE UNCHANGED vars
  BY <1>12, <1>f DEF vars, history
<1> QED
  BY <1>1, <1>2, <1>3, <1>4, <1>5, <1>6, <1>7, <1>8, <1>9, <1>10, <1>11, <1>12
     DEF Next, Consuming, Claiming

LEMMA DeliveryInvHolds == Spec => [](TypeOK /\ BusInv /\ DeliveryInv)
<1>1. Init => TypeOK /\ BusInv /\ DeliveryInv
  BY TypeInit, BusInit, DeliveryInit
<1>2. TypeOK /\ BusInv /\ DeliveryInv /\ [Next]_vars => (TypeOK /\ BusInv /\ DeliveryInv)'
  <2>1. TypeOK /\ BusInv /\ DeliveryInv /\ [Next]_vars => InOrder'
    BY OrderStep DEF InOrder
  <2> QED
    BY <2>1, TypeStep, BusStep, SubscribedStep, ClaimsStep DEF DeliveryInv
<1> QED
  BY <1>1, <1>2, PTL DEF Spec

-----------------------------------------------------------------------------
(* The bus implements OrderedDelivery, step by step *)

LEMMA AheadIsWanted ==
  ASSUME NEW s \in Sub, NEW p \in Partition
  PROVE  Delivery!Wanted(s, p, seen[s][p], committed[p]) = Ahead(s, p)
BY DEF Delivery!Wanted, Ahead

LEMMA PublishStores ==
  ASSUME NEW e \in Event, Publish(e)
  PROVE  Delivery!Store(PartitionOf[e])
BY DEF Publish, Delivery!Store, history

LEMMA HandHands ==
  ASSUME TypeOK, DeliveryInv, NEW p \in Partition, NEW s \in Sub, Hand(p, s)
  PROVE  Delivery!Hand(s, p)
<1>1. claim[p].pc = "send" /\ s \in claim[p].left /\ seen' = [seen EXCEPT ![s][p] = offset[p]]
      /\ UNCHANGED <<log, mayMiss>>
  BY DEF Hand, kafka
<1>2. ClaimedInOrder(s, p) /\ Owed(s, p)
  BY DEF DeliveryInv, InOrder
<1>3. seen[s][p] < offset[p] /\ log[p][offset[p]] \in Wants[s]
  BY <1>1, <1>2 DEF Owed, InHand, Message
<1>4. Len(log[p]) \in Nat /\ seen[s][p] \in Nat /\ offset[p] \in 0..Len(log[p])
  BY TypedLog
<1>5. offset[p] \in seen[s][p] + 1 .. Len(log[p]) /\ offset[p] \in seen[s][p] + 1 .. offset[p]
  BY <1>3, <1>4
<1>6. \A n \in seen[s][p] + 1 .. offset[p] : log[p][n] \in Wants[s] => n = offset[p]
  BY <1>1, <1>2 DEF ClaimedInOrder
<1>7. Delivery!Wanted(s, p, seen[s][p], offset[p]) = {offset[p]}
  BY <1>3, <1>5, <1>6 DEF Delivery!Wanted
<1> QED
  BY <1>1, <1>5, <1>7 DEF Delivery!Hand

LEMMA SetUpResumes ==
  ASSUME TypeOK, TypeOK', BusInv, DeliveryInv, NEW k \in DOMAIN calls, SetUp(k)
  PROVE  Delivery!Resume(PartitionsOf(k))
<1> DEFINE mine == PartitionsOf(k)
<1>1. /\ seen' = [s \in Sub |-> [p \in Partition |-> IF p \in mine THEN committed[p] ELSE seen[s][p]]]
      /\ mayMiss' = mayMiss \ mine /\ log' = log
  BY DEF SetUp, kafka
<1>2. seen' \in [Sub -> [Partition -> Nat]]
  BY DEF TypeOK
<1>3. \A s \in Sub : \A p \in Partition \ mine : seen'[s][p] = seen[s][p]
  BY <1>1
<1>4. ASSUME NEW p \in mine, NEW s \in Sub, NEW r \in Sub
      PROVE  /\ seen'[s][p] = seen'[r][p] /\ seen'[s][p] <= Len(log[p])
             /\ \A m, n \in Delivery!Wanted(s, p, seen[s][p], seen'[s][p]) :
                  p \in mayMiss /\ m = n
  <2>0. p \in Partition
    BY DEF PartitionsOf
  <2>1. seen'[s][p] = committed[p] /\ seen'[r][p] = committed[p]
    BY <1>1, <2>0
  <2>2. committed[p] <= Len(log[p])
    BY <2>0, TypedLog
  <2>3. claim[p].pc = "none"
    BY <2>0, NothingClaimed DEF SetUp, DeliveryInv, BusInv
  <2>4. AheadByOne(s, p)
    BY <2>0 DEF DeliveryInv, InOrder
  <2>5. \A m, n \in Ahead(s, p) : p \in mayMiss /\ m = n
    BY <2>3, <2>4 DEF AheadByOne
  <2> QED
    BY <2>0, <2>1, <2>2, <2>5, AheadIsWanted
<1> HIDE DEF mine
<1>5. mayMiss' = mayMiss \ mine /\ log' = log
  BY <1>1
<1>6. Delivery!Resume(mine)
  BY <1>2, <1>3, <1>4, <1>5 DEF Delivery!Resume
<1> QED
  BY <1>6 DEF mine

LEMMA DeliveryStep ==
  ASSUME TypeOK, TypeOK', BusInv, DeliveryInv, [Next]_vars
  PROVE  [Delivery!Next]_(Delivery!vars)
<1>a. UNCHANGED <<log, seen, mayMiss>> => UNCHANGED Delivery!vars
  BY DEF Delivery!vars
<1>1. ASSUME NEW e \in Event, Publish(e) PROVE Delivery!Next
  BY <1>1, PublishStores, Parameters DEF Delivery!Next
<1>2. CASE Subscribing \/ Reconnecting
  BY <1>2, <1>a DEF Subscribing, AddSub, ConsumeFirst, ConsumeMore, AddingRestarts, AddingDone,
     Attach, Reconnecting, ReconnectLocks, ReconnectRestarts, kafka, history
<1>3. ASSUME NEW k \in DOMAIN calls, SetUp(k) PROVE Delivery!Next
  <2>1. PartitionsOf(k) \in SUBSET Partition
    BY DEF PartitionsOf
  <2> QED
    BY <1>3, <2>1, SetUpResumes DEF Delivery!Next
<1>4. ASSUME NEW k \in DOMAIN calls, JoinFails(k) \/ EndSession(k) \/ Cleanup(k)
      PROVE  UNCHANGED Delivery!vars
  BY <1>4, <1>a DEF JoinFails, EndSession, Cleanup, kafka
<1>5. ASSUME NEW p \in Partition, Fetch(p) \/ Send(p) \/ AutoCommit(p)
      PROVE  UNCHANGED Delivery!vars
  BY <1>5, <1>a DEF Fetch, Send, AutoCommit, kafka, history
<1>6. ASSUME NEW p \in Partition, NEW s \in Sub, Hand(p, s) PROVE Delivery!Next
  BY <1>6, HandHands DEF Delivery!Next
<1>7. ASSUME NEW s \in Sub, Handled(s) PROVE UNCHANGED Delivery!vars
  BY <1>7, <1>a DEF Handled, kafka, history
<1>8. CASE Crash
  BY <1>8 DEF Crash, kafka, Delivery!Next, Delivery!Crash
<1>9. CASE UNCHANGED vars
  BY <1>9, <1>a DEF vars, kafka, history
<1> QED
  BY <1>1, <1>2, <1>3, <1>4, <1>5, <1>6, <1>7, <1>8, <1>9 DEF Next, Consuming, Claiming

\* The refinement: through reconnections, topics that are added, commits that fail,
\* sends that are repeated and crashes, every subscription is handed the events it
\* wants of a partition in order and without a gap, but for one event of each
\* partition after a crash (ConsumeClaim marks the message before it is sent).
THEOREM BusImplementsDelivery == Spec => ImplementsDelivery
<1>1. Init => Delivery!Init
  BY DEF Init, Delivery!Init
<1>2. (TypeOK /\ BusInv /\ DeliveryInv) /\ (TypeOK /\ BusInv /\ DeliveryInv)' /\ [Next]_vars
        => [Delivery!Next]_(Delivery!vars)
  BY DeliveryStep
<1> QED
  BY <1>1, <1>2, DeliveryInvHolds, PTL DEF Spec, ImplementsDelivery, Delivery!Spec
=============================================================================
