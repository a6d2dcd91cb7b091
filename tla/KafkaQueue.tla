----------------------------- MODULE KafkaQueue -----------------------------
(***************************************************************************)
(* A Kafka queue from end to end: the threads that publish to its topics   *)
(* (KafkaProducer) and the group of consumers that reads them (Kafka).  A  *)
(* record a producer lands is the next offset of its topic.                *)
(***************************************************************************)
EXTENDS Kafka

CONSTANTS
    Caller, Sizes, Largest, Room, MaxProducers, \* of KafkaProducer
    TopicOf                                     \* TopicOf[c]: the spot c publishes to

ASSUME KafkaQueueAssumption ==
    /\ TopicOf \in [Caller -> Spot] /\ Sizes \subseteq [Caller -> 0..Largest]
    /\ {Largest, Room, MaxProducers} \subseteq Nat \ {0}

VARIABLES size, producer, built, pc, using, queued, late, record, outstanding, failures, logged

P == INSTANCE KafkaProducer
publishers == <<size, producer, built, pc, using, queued, late, record, outstanding, failures,
                logged>>

(* Bounds: nobody publishes where the budget has no record to publish, and *)
(* the group reads between two publishes.  What the producer still holds   *)
(* then lands while it reads.                                              *)
QueueInit == Init /\ P!Init /\ (publishes = 0 <=> \A c \in Caller : size[c] = 0)
Between == \A c \in Caller : pc[c] \notin P!Publishing

QueueNext ==
    \/ \E r \in P!Record : P!Lands(r) /\ Publish(TopicOf[r[1]])
    \/ P!Local /\ UNCHANGED vars
    \/ Reading /\ Between /\ UNCHANGED publishers

(* The consumers run for ever (Fairness of Kafka); a publish ends by its   *)
(* deadline, some way or other.                                            *)
QueueSpec == QueueInit /\ [][QueueNext]_<<vars, publishers>> /\ Fairness

-----------------------------------------------------------------------------
(* Properties *)

(* A message whose publish returned is sent: what a caller is told is on    *)
(* the broker is there, each record of its batch, and what is there is     *)
(* answered and committed in the end, as far as Drained goes.              *)
PublishedIsSent == [][P!Confirmed']_<<vars, publishers>> /\ Drained
=============================================================================
