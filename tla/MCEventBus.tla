---------------------------- MODULE MCEventBus ----------------------------
EXTENDS EventBus, TLC
CONSTANTS game, chat, direct, p1, p2, p3

Topic(d, a) == [domain |-> d, action |-> a, resource |-> Wildcard]
Published(d, a, r) == [domain |-> d, action |-> a, resource |-> r]

MCSub == {1, 2, 3}
\* The chat service, and the gateway.
MCService == {"chat", "gateway"}
MCReadersFirst == {"chat"}
MCProgram == [v \in MCService |-> IF v = "chat" THEN <<1, 2>> ELSE <<1, 2, 3>>]
MCFilter == [s \in MCSub |-> 
  CASE s = 1 -> Topic(game, "created")
    [] s = 2 -> Topic(chat, Wildcard)
    [] s = 3 -> Topic(direct, Wildcard)]
Created == Published(game, "created", "g1")
Ended   == Published(game, "ended", "g1")
Said    == Published(chat, "msg_sent", "g1")
Direct  == Published(direct, "msg_sent", "u1")
MCEvent == {Created, Ended, Said, Direct}
MCPartition == {p1, p2, p3}
MCPartitionOf == [e \in MCEvent |->
  CASE e.domain = game -> p1 [] e.domain = chat -> p2 [] e.domain = direct -> p3]
MCMaxEvents == {[p \in MCPartition |-> CASE p = p1 -> 2 [] p = p2 -> 1 [] p = p3 -> 0],
                [p \in MCPartition |-> 1]}
MCDecodable == MCEvent \ {Direct}
=============================================================================
