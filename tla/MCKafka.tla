------------------------------- MODULE MCKafka -------------------------------
(* The Kafka transport with two members of one group, two topics of one    *)
(* partition and two in-flight slots; and two threads that publish to the  *)
(* first, a batch of two or one record each.                               *)
EXTENDS KafkaQueue, TLC

CONSTANTS t1, t2, c1, c2

(* Offsets are followed on t1; t2 is the second topic, so that a client    *)
(* that loses t1 still holds an assignment and a join may deliver a record *)
(* nobody asked for.                                                       *)
Budget(on1, on2, publishing, rebalancing, releasing, failing) ==
    [backlog |-> (t1 :> on1) @@ (t2 :> on2), publishes |-> publishing,
     rebalances |-> rebalancing, releases |-> releasing, faults |-> failing]

MCSizes == {(c1 :> 0) @@ (c2 :> 0), (c1 :> 2) @@ (c2 :> 0), (c1 :> 1) @@ (c2 :> 1)}
MCTopicOf == (c1 :> t1) @@ (c2 :> t1)

MCBudgets ==
    {Budget(0, 0, 2, 0, 0, 0),      \* records arrive while the group reads
     Budget(3, 0, 0, 0, 2, 0),      \* two rewinds of one partition
     Budget(2, 0, 0, 1, 1, 0),      \* a rewind and a rebalance
     Budget(2, 0, 0, 2, 0, 0),      \* a partition goes and comes back
     Budget(1, 1, 0, 1, 0, 0),      \* a record kept from a join
     Budget(2, 0, 0, 0, 1, 1),      \* a crash, refusal, failed commit or new
     Budget(1, 1, 0, 0, 0, 1)}      \* subscription
=============================================================================
