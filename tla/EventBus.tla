------------------------------ MODULE EventBus ------------------------------
(***************************************************************************)
(* The Kafka side of a service that listens to events: its main goroutine, *)
(* which subscribes to one topic after the other; the Consume calls of the *)
(* consumer group and the goroutines Cleanup starts to call reConsume; one *)
(* ConsumeClaim per partition of a session; and the goroutines that read   *)
(* the subscriptions: a service starts one after each Subscribe, the       *)
(* gateway one for all of them after the last.  Kafka and sarama are       *)
(* modelled from their use: the partitions with the offsets committed,     *)
(* sessions that end at any time.  The process is the only member of its   *)
(* group.                                                                  *)
(***************************************************************************)
EXTENDS Naturals, Sequences, FiniteSets

CONSTANTS
  Sub,
  Service,          \* the programs that listen; the process is one of them
  Program,          \* [Service -> the subscriptions in the order it makes them]
  ReadersFirst,     \* the services that read one before they make the next
  Filter,           \* [Sub -> the topic it subscribes to]
  Partition, Event, \* an event is the topic it was published under
  PartitionOf,      \* [Event -> Partition]: the hash of the message's key
  Decodable,        \* the events for which decodeEvent succeeds
  MaxEvents,        \* bound: what the partitions may hold, a set of alternatives
  MaxSessionEnds, MaxCrashes,               \* bounds
  JoinMayFail, CommitMayFail, SendMayRepeat

Wildcard == "*"
Domain == {Filter[s].domain : s \in Sub}    \* the Kafka topics it consumes
DomainOf == [p \in Partition |-> {e.domain : e \in {f \in Event : PartitionOf[f] = p}}]

ASSUME BusAssumption ==
  /\ Decodable \subseteq Event /\ ReadersFirst \subseteq Service
  /\ \A v \in Service : Program[v] \in Seq(Sub) /\ Program[v] # <<>>
  /\ PartitionOf \in [Event -> Partition]
  /\ \A p \in Partition : Cardinality(DomainOf[p]) = 1
  \* So it is in every service: one subscription to a domain, none to all of them.
  /\ \A s, r \in Sub : Filter[s].domain = Filter[r].domain => s = r
  /\ \A s \in Sub : Filter[s].domain # Wildcard
  /\ {MaxSessionEnds, MaxCrashes} \subseteq Nat
  /\ {JoinMayFail, CommitMayFail, SendMayRepeat} \subseteq BOOLEAN

VARIABLES
  log, committed,      \* Kafka: the events stored, the group's offsets
  main,                \* the goroutine that subscribes: its pc, the service, the place in its Program
  subs,                \* subscriptionManager.subs
  reader,              \* the goroutine behind each subscription
  td, isRunnig, addingTopic,        \* consumerGroup
  muHolder,            \* who holds consumerGroup.mu
  calls,               \* the Consume calls that have not returned
  reconnects,          \* goroutines of Cleanup waiting for consumerGroup.mu
  claim,               \* the ConsumeClaim of each partition
  offset,              \* the offset it has marked
  seen, mayMiss,       \* history: see OrderedDelivery
  ends, crashes,       \* bounded counters
  missedEnd            \* history: why nobody restarts the consumer

kafka   == <<log, committed>>
service == <<main, subs, reader>>
group   == <<td, isRunnig, addingTopic, muHolder, reconnects>>
claims  == <<claim, offset>>
history == <<seen, mayMiss, ends, crashes, missedEnd>>
vars    == <<kafka, service, group, calls, claims, history>>

NoClaim == [pc |-> "none", left |-> {}]
Call(domains) == [pc |-> "start", domains |-> domains, cancelled |-> FALSE,
                  current |-> TRUE, group |-> "new"]

TypeOK ==
  /\ log \in [Partition -> Seq(Event)]
  /\ \A p \in Partition : \A n \in DOMAIN log[p] : PartitionOf[log[p][n]] = p
  /\ {committed, offset} \subseteq [Partition -> Nat]
  /\ \A p \in Partition : committed[p] <= Len(log[p]) /\ offset[p] <= Len(log[p])
  /\ main \in [pc: {"add", "consume", "wait", "added", "attach", "done"},
                service: Service, at: Nat]
  /\ main.at \in DOMAIN Program[main.service]
  /\ subs \subseteq Sub /\ reader \in [Sub -> {"none", "idle", "busy"}]
  /\ td \subseteq Domain /\ {isRunnig, addingTopic} \subseteq BOOLEAN
  /\ muHolder \in {"nobody", "main", "reconnect"} /\ reconnects \in Nat
  /\ calls \in Seq([pc: {"start", "session", "release"}, domains: SUBSET Domain,
                     cancelled: BOOLEAN, current: BOOLEAN, group: {"new", "old"}])
  /\ claim \in [Partition -> [pc: {"none", "idle", "lock", "send"}, left: SUBSET Sub]]
  /\ seen \in [Sub -> [Partition -> Nat]] /\ mayMiss \subseteq Partition
  /\ ends \in 0..MaxSessionEnds /\ crashes \in 0..MaxCrashes
  /\ missedEnd \in {"no", "join failed", "ended while adding"}

\* What a process of service v starts with; Kafka and the history survive it.
Fresh(v) ==
  [main |-> [pc |-> "add", service |-> v, at |-> 1], subs |-> {}, reader |-> [s \in Sub |-> "none"],
   td |-> {}, calls |-> <<>>, claim |-> [p \in Partition |-> NoClaim]]

Init ==
  /\ log = [p \in Partition |-> <<>>] /\ committed = [p \in Partition |-> 0]
  /\ \E v \in Service :
       /\ main = Fresh(v).main /\ subs = Fresh(v).subs /\ reader = Fresh(v).reader
       /\ td = Fresh(v).td /\ calls = Fresh(v).calls /\ claim = Fresh(v).claim
  /\ isRunnig = FALSE /\ addingTopic = FALSE /\ muHolder = "nobody" /\ reconnects = 0
  /\ offset = [p \in Partition |-> 0]
  /\ seen = [s \in Sub |-> [p \in Partition |-> 0]] /\ mayMiss = {}
  /\ ends = 0 /\ crashes = 0 /\ missedEnd = "no"

-----------------------------------------------------------------------------
(* Topics and producers *)

Match(topic, filter) ==
  \/ filter.domain = Wildcard /\ filter.action = Wildcard /\ filter.resource = Wildcard
  \/ /\ topic.domain = filter.domain
     /\ filter.action \in {Wildcard, topic.action}
     /\ filter.resource \in {Wildcard, topic.resource}

\* SendMessage of one event of a batch: Publish goes on after one that fails.
\* A send that is retried may be stored twice.
Publish(e) ==
  /\ LET p == PartitionOf[e] IN
     /\ \/ log' = [log EXCEPT ![p] = Append(@, e)]
        \/ SendMayRepeat /\ log' = [log EXCEPT ![p] = @ \o <<e, e>>]
     /\ \E max \in MaxEvents : \A q \in Partition : Len(log'[q]) <= max[q]
  /\ UNCHANGED <<committed, service, group, calls, claims, history>>

-----------------------------------------------------------------------------
(* Subscribe, and the goroutine that makes the subscriptions *)

Mine      == Program[main.service]
Current   == Mine[main.at]
Sending   == \E p \in Partition : claim[p].pc = "send"    \* subscriptionManager.mu
Goes(pc)  == main' = [main EXCEPT !.pc = pc]

AddSub ==
  /\ main.pc = "add" /\ ~Sending
  /\ subs' = subs \cup {Current}
  /\ Goes("consume")
  /\ UNCHANGED <<kafka, reader, group, calls, claims, history>>

\* A new context; cancel is that of the Consume call started last.
StartConsume(domains) ==
  calls' = Append([k \in DOMAIN calls |-> [calls[k] EXCEPT !.current = FALSE]],
                  Call(domains))

\* The same by a new sarama.ConsumerGroup.
StartGroup(domains) ==
  calls' = Append([k \in DOMAIN calls |-> [calls[k] EXCEPT !.current = FALSE, !.group = "old"]],
                  Call(domains))

Cancelled == [k \in DOMAIN calls |->
                [calls[k] EXCEPT !.cancelled = @ \/ calls[k].current]]

\* "the first topic to consume": also when the last call returned an error.
ConsumeFirst ==
  /\ main.pc = "consume" /\ muHolder = "nobody"
  /\ Filter[Current].domain \notin td /\ ~isRunnig
  /\ isRunnig' = TRUE
  /\ td' = td \cup {Filter[Current].domain}
  /\ StartConsume(td')
  /\ Goes("attach")
  /\ UNCHANGED <<kafka, subs, reader, addingTopic, muHolder, reconnects, claims, history>>

ConsumeMore ==
  /\ main.pc = "consume" /\ muHolder = "nobody"
  /\ Filter[Current].domain \notin td /\ isRunnig
  /\ muHolder' = "main" /\ addingTopic' = TRUE
  /\ calls' = Cancelled
  /\ Goes("wait")
  /\ UNCHANGED <<kafka, subs, reader, td, isRunnig, reconnects, claims, history>>

\* (mutant of Restart) reConsume does not wait for the calls under way.
RestartAtOnce(domains) ==
  /\ td' = td \cup domains
  /\ StartGroup(td')

\* reConsume: wg.Wait, and NewConsumerGroup again and again until it succeeds.
Restart(domains) ==
  /\ calls = <<>>
  /\ td' = td \cup domains
  /\ StartGroup(td')

AddingRestarts ==
  /\ main.pc = "wait"
  /\ Restart({Filter[Current].domain})
  /\ Goes("added")
  /\ UNCHANGED <<kafka, subs, reader, isRunnig, addingTopic, muHolder, reconnects,
                 claims, history>>

\* (mutant of AddingDone) consumerGroup.mu is not unlocked.
AddingKeepsMu ==
  /\ main.pc = "added"
  /\ addingTopic' = FALSE
  /\ Goes("attach")
  /\ UNCHANGED <<kafka, subs, reader, td, isRunnig, muHolder, reconnects, calls, claims, history>>

AddingDone ==
  /\ main.pc = "added"
  /\ addingTopic' = FALSE /\ muHolder' = "nobody"
  /\ Goes("attach")
  /\ UNCHANGED <<kafka, subs, reader, td, isRunnig, reconnects, calls, claims, history>>

\* AddSubscription, whose goroutine runs handleSubscription; or, in the gateway,
\* startEventListener after the last of the subscriptions.
Attach ==
  /\ main.pc = "attach"
  /\ LET last == main.at = Len(Mine)
         ready == IF main.service \in ReadersFirst THEN {Current}
                  ELSE IF last THEN subs ELSE {} IN
     /\ reader' = [s \in Sub |-> IF s \in ready THEN "idle" ELSE reader[s]]
     /\ main' = IF last THEN [main EXCEPT !.pc = "done"]
                ELSE [main EXCEPT !.pc = "add", !.at = @ + 1]
  /\ UNCHANGED <<kafka, subs, group, calls, claims, history>>

-----------------------------------------------------------------------------
(* Consume: sarama holds the lock of the group for the length of the call *)

InSession(k) == calls[k].pc \in {"session", "release"}
PartitionsOf(k) == {p \in Partition : DomainOf[p] \subseteq calls[k].domains}
Locked(k) == \E j \in DOMAIN calls : calls[j].group = calls[k].group /\ InSession(j)
Without(k) == SubSeq(calls, 1, k - 1) \o SubSeq(calls, k + 1, Len(calls))
SetPc(k, pc) == calls' = [calls EXCEPT ![k].pc = pc]

\* The partitions are consumed from the offsets last committed.
SetUp(k) ==
  /\ calls[k].pc = "start" /\ ~Locked(k)
  /\ SetPc(k, "session")
  /\ LET mine == PartitionsOf(k) IN
     /\ claim' = [p \in Partition |->
                    IF p \in mine THEN [NoClaim EXCEPT !.pc = "idle"] ELSE claim[p]]
     /\ offset' = [p \in Partition |-> IF p \in mine THEN committed[p] ELSE offset[p]]
     /\ seen' = [s \in Sub |-> [p \in Partition |->
                   IF p \in mine THEN committed[p] ELSE seen[s][p]]]
     /\ mayMiss' = mayMiss \ mine
  /\ UNCHANGED <<kafka, service, group, ends, crashes, missedEnd>>

\* No session was set up: there is no Cleanup.
JoinFails(k) ==
  /\ calls[k].pc = "start" /\ ~Locked(k)
  /\ JoinMayFail \/ calls[k].cancelled
  /\ calls' = Without(k)
  /\ isRunnig' = FALSE
  /\ missedEnd' = IF calls[k].cancelled THEN missedEnd ELSE "join failed"
  /\ UNCHANGED <<kafka, service, td, addingTopic, muHolder, reconnects, claims,
                 seen, mayMiss, ends, crashes>>

\* The context is cancelled; or a rebalance or the network ends the session.
EndSession(k) ==
  /\ calls[k].pc = "session"
  /\ \/ calls[k].cancelled /\ UNCHANGED ends
     \/ ends < MaxSessionEnds /\ ends' = ends + 1
  /\ SetPc(k, "release")
  /\ UNCHANGED <<kafka, service, group, claims, seen, mayMiss, crashes, missedEnd>>

\* (mutant of Cleanup) a session that ends is not consumed again.
CleanupOnly(k) ==
  /\ calls[k].pc = "release"
  /\ \A p \in PartitionsOf(k) : claim[p].pc = "idle"
  /\ committed' = [p \in Partition |-> IF p \in PartitionsOf(k) THEN offset[p] ELSE committed[p]]
  /\ claim' = [p \in Partition |-> IF p \in PartitionsOf(k) THEN NoClaim ELSE claim[p]]
  /\ calls' = Without(k)
  /\ UNCHANGED <<log, service, group, offset, history>>

\* Once every ConsumeClaim has returned: Cleanup, the last commit, and the end
\* of Consume without an error.
Cleanup(k) ==
  /\ calls[k].pc = "release"
  /\ LET mine == PartitionsOf(k) IN
     /\ \A p \in mine : claim[p].pc = "idle"
     /\ \/ committed' = [p \in Partition |-> IF p \in mine THEN offset[p] ELSE committed[p]]
        \/ CommitMayFail /\ UNCHANGED committed
     /\ claim' = [p \in Partition |-> IF p \in mine THEN NoClaim ELSE claim[p]]
     /\ offset' = [p \in Partition |-> IF p \in mine THEN 0 ELSE offset[p]]
  /\ calls' = Without(k)
  /\ reconnects' = IF addingTopic THEN reconnects ELSE reconnects + 1
  /\ missedEnd' = IF addingTopic /\ ~calls[k].cancelled THEN "ended while adding"
                  ELSE missedEnd
  /\ UNCHANGED <<log, service, td, isRunnig, addingTopic, muHolder,
                 seen, mayMiss, ends, crashes>>

\* (mutant of AutoCommit) the offset after the one marked is committed.
AutoCommitNext(p) ==
  /\ claim[p].pc # "none" /\ committed[p] # offset[p]
  /\ committed' = [committed EXCEPT ![p] = offset[p] + 1]
  /\ UNCHANGED <<log, service, group, calls, claims, history>>

\* sarama commits what is marked every second.
AutoCommit(p) ==
  /\ claim[p].pc # "none" /\ committed[p] # offset[p]
  /\ committed' = [committed EXCEPT ![p] = offset[p]]
  /\ UNCHANGED <<log, service, group, calls, claims, history>>

ReconnectLocks ==
  /\ reconnects > 0 /\ muHolder = "nobody"
  /\ reconnects' = reconnects - 1 /\ muHolder' = "reconnect"
  /\ UNCHANGED <<kafka, service, td, isRunnig, addingTopic, calls, claims, history>>

ReconnectRestarts ==
  /\ muHolder = "reconnect"
  /\ Restart({})
  /\ muHolder' = "nobody"
  /\ UNCHANGED <<kafka, service, isRunnig, addingTopic, reconnects, claims, history>>

-----------------------------------------------------------------------------
(* ConsumeClaim and send *)

Message(p) == log[p][offset[p]]

\* decodeEvent: it fails for a domain or an action that it does not know.
Decodes(e) == e \in Decodable

\* MarkMessage comes first; a message without an action or that is not decoded is
\* dropped.
Fetch(p) ==
  /\ claim[p].pc = "idle" /\ offset[p] < Len(log[p])
  /\ offset' = [offset EXCEPT ![p] = @ + 1]
  /\ claim' = [claim EXCEPT ![p].pc = IF Decodes(log[p][offset[p] + 1])
                                        THEN "lock" ELSE "idle"]
  /\ UNCHANGED <<kafka, service, group, calls, history>>

\* send holds subscriptionManager.mu until every subscriber has taken the event.
Send(p) ==
  /\ claim[p].pc = "lock" /\ ~Sending
  /\ LET to == {s \in subs : Match(Message(p), Filter[s])} IN
     claim' = [claim EXCEPT ![p] = IF to = {} THEN [NoClaim EXCEPT !.pc = "idle"]
                                   ELSE [pc |-> "send", left |-> to]]
  /\ UNCHANGED <<kafka, service, group, calls, offset, history>>

\* (mutant of Hand) a subscriber that is busy is skipped.
HandOrDrop(p, s) ==
  /\ claim[p].pc = "send" /\ s \in claim[p].left /\ reader[s] # "none"
  /\ reader' = [reader EXCEPT ![s] = "busy"]
  /\ seen' = IF reader[s] = "idle" THEN [seen EXCEPT ![s][p] = offset[p]] ELSE seen
  /\ LET left == claim[p].left \ {s} IN
     claim' = [claim EXCEPT ![p] = [pc |-> IF left = {} THEN "idle" ELSE "send", left |-> left]]
  /\ UNCHANGED <<kafka, main, subs, group, calls, offset, mayMiss, ends, crashes, missedEnd>>

\* The channel is unbuffered: the event goes over when the reader is back.
Hand(p, s) ==
  /\ claim[p].pc = "send" /\ s \in claim[p].left /\ reader[s] = "idle"
  /\ reader' = [reader EXCEPT ![s] = "busy"]
  /\ seen' = [seen EXCEPT ![s][p] = offset[p]]
  /\ LET left == claim[p].left \ {s} IN
     claim' = [claim EXCEPT ![p] = [pc |-> IF left = {} THEN "idle" ELSE "send", left |-> left]]
  /\ UNCHANGED <<kafka, main, subs, group, calls, offset, mayMiss, ends, crashes, missedEnd>>

\* The handler of the service returns.
Handled(s) ==
  /\ reader[s] = "busy"
  /\ reader' = [reader EXCEPT ![s] = "idle"]
  /\ UNCHANGED <<kafka, main, subs, group, calls, claims, history>>

\* The process dies and is started again.
Crash ==
  /\ crashes < MaxCrashes /\ crashes' = crashes + 1
  /\ LET new == Fresh(main.service) IN
     /\ main' = new.main /\ subs' = new.subs /\ reader' = new.reader
     /\ td' = new.td /\ calls' = new.calls /\ claim' = new.claim
  /\ isRunnig' = FALSE /\ addingTopic' = FALSE /\ muHolder' = "nobody" /\ reconnects' = 0
  /\ offset' = [p \in Partition |-> 0]
  /\ mayMiss' = Partition /\ missedEnd' = "no"
  /\ UNCHANGED <<kafka, seen, ends>>

-----------------------------------------------------------------------------
Subscribing == AddSub \/ ConsumeFirst \/ ConsumeMore \/ AddingRestarts
                 \/ AddingDone \/ Attach
Consuming(k) == SetUp(k) \/ JoinFails(k) \/ Cleanup(k)
Claiming(p)  == Fetch(p) \/ Send(p)
Reconnecting == ReconnectLocks \/ ReconnectRestarts

Next ==
  \/ \E e \in Event : Publish(e)
  \/ Subscribing \/ Reconnecting \/ Crash
  \/ \E k \in DOMAIN calls : Consuming(k) \/ EndSession(k)
  \/ \E p \in Partition : Claiming(p) \/ AutoCommit(p) \/ \E s \in Sub : Hand(p, s)
  \/ \E s \in Sub : Handled(s)

Spec == Init /\ [][Next]_vars

\* Some goroutine of the process goes on while one can: claims come to an end
\* when their session does (sarama closes their channel) and handlers return.
Progress ==
  \/ Subscribing \/ Reconnecting
  \/ \E k \in DOMAIN calls : Consuming(k) \/ (calls[k].cancelled /\ EndSession(k))
  \/ \E p \in Partition : Claiming(p) \/ \E s \in Sub : Hand(p, s)
  \/ \E s \in Sub : Handled(s)

FairSpec == Spec /\ WF_vars(Progress)

-----------------------------------------------------------------------------
(* Properties *)

\* Order and completeness: the bus implements OrderedDelivery; a session that
\* ends, a commit that fails, a topic that is added lose no event, and a crash
\* at most the one a claim had marked before it was handed over.
Wants == [s \in Sub |-> {e \in Decodable : Match(e, Filter[s])}]
Delivery == INSTANCE OrderedDelivery
              WITH log <- log, seen <- seen, mayMiss <- mayMiss, Wants <- Wants
ImplementsDelivery == Delivery!Spec

\* Two sessions of one process never overlap, whichever of Subscribe and Cleanup
\* starts the next one: a partition has one ConsumeClaim.
OneSession ==
  \A k, j \in DOMAIN calls : InSession(k) /\ InSession(j) => k = j

\* Somebody consumes, or is about to: the goroutine of Cleanup and Subscribe do not leave it
\* to each other.  There are two exceptions: a Consume that fails before it has
\* a session, and a session that ends before Subscribe has reset addingTopic.
ConsumptionGoesOn ==
  td # {} /\ calls = <<>> /\ reconnects = 0 /\ muHolder = "nobody"
    => missedEnd # "no"

\* When nothing more is published, every subscription of the service comes to the
\* end of every partition, through reconnections and a crash, unless consumption
\* has stopped.  The gateway has one more way to hear nothing for ever: an event
\* that arrives before its readers are there keeps subscriptionManager.mu and the
\* Consume call, and its next Subscribe waits for the one or for the other.
HandedOut(s, p) ==
  \A n \in seen[s][p] + 1 .. Len(log[p]) : log[p][n] \notin Wants[s]
NobodyReads ==
  /\ main.service \notin ReadersFirst
  /\ \E p \in Partition : claim[p].pc = "send" /\ \E s \in claim[p].left : reader[s] = "none"
EverythingIsHandedOut ==
  []<>(\/ missedEnd # "no" \/ NobodyReads
       \/ \A n \in DOMAIN Mine, p \in Partition : HandedOut(Mine[n], p))

=============================================================================
