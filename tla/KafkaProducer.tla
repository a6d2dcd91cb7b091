---------------------------- MODULE KafkaProducer ----------------------------
(***************************************************************************)
(* The publishing half of the Kafka transport: KafkaBroker.publish and its *)
(* _Batch over the one producer of the process (broker/kafka/client.py).   *)
(*                                                                         *)
(* Threads publish batches through one producer, whose callbacks run on    *)
(* whichever of them polls it, while the settings change or the process    *)
(* closes its clients under them.  A producer that was replaced goes on    *)
(* working for whoever still holds it.                                     *)
(***************************************************************************)
EXTENDS Integers, FiniteSets

CONSTANTS
    Caller,      \* threads that publish, one batch each
    Sizes,       \* the batches the callers may have, of which a behaviour takes one
    Largest,     \* the payloads of the largest
    Room,        \* records librdkafka's own queue holds
    MaxProducers \* bound: producers built

Record == Caller \X (1..Largest)
Publishing == {"queueing", "counting", "waiting"}
Ended == {"returned", "unanswered", "refused", "unqueued"}

VARIABLES
    size,        \* [Caller -> the payloads of its batch]
    producer,    \* _producer: the number of the one in use, 0 for None
    built,       \* producers built so far
    pc,          \* [Caller -> where its publish is, or how it ended]
    using,       \* [Caller -> the producer it was handed]
    queued,      \* [Caller -> how many of its payloads were queued]
    late,        \* the callers whose deadline has passed
    record,      \* [Record -> where it is]
    outstanding, \* [Caller -> _outstanding]
    failures,    \* the callers with _failures
    logged       \* history: the records the broker has

vars == <<size, producer, built, pc, using, queued, late, record, outstanding, failures, logged>>

\* A record the producer holds, one whose callback is due, one that was answered for.
Due == {"landed", "failed"}
Batch(c) == {r \in Record : r[1] = c /\ r[2] <= size[c]}
Unheard(c) == {r \in Batch(c) : record[r] \in {"local"} \cup Due}
Held(p) == {r \in Record : record[r] = "local" /\ using[r[1]] = p}

TypeOK ==
    /\ size \in [Caller -> 0..Largest]
    /\ producer \in 0..built /\ built \in 0..MaxProducers
    /\ pc \in [Caller -> {"idle"} \cup Publishing \cup Ended]
    /\ using \in [Caller -> 0..MaxProducers] /\ queued \in [Caller -> Nat]
    /\ late \subseteq Caller /\ failures \subseteq Caller
    /\ record \in [Record -> {"unsent", "local", "heard"} \cup Due]
    /\ outstanding \in [Caller -> Int] /\ logged \subseteq Record

Init ==
    /\ size \in Sizes
    /\ producer = 0 /\ built = 0
    /\ pc = [c \in Caller |-> "idle"] /\ using = [c \in Caller |-> 0]
    /\ queued = using /\ outstanding = using /\ late = {} /\ failures = {}
    /\ record = [r \in Record |-> "unsent"] /\ logged = {}

Goes(c, state) == pc' = [pc EXCEPT ![c] = state]

-----------------------------------------------------------------------------
(* Callbacks *)

(* _delivered(): the callback of each of these is counted by the batch the *)
(* record is of, under the batch's own lock.                               *)
CountedByPoller(c, served) ==
    outstanding' = [outstanding EXCEPT ![c] = @ - Cardinality(served)]
Counted(c, served) ==
    outstanding' = [d \in Caller |-> outstanding[d] - Cardinality(served \cap Batch(d))]

Serves(c, served) ==
    /\ record' = [r \in Record |-> IF r \in served THEN "heard" ELSE record[r]]
    /\ Counted(c, served)
    /\ failures' = failures \cup {r[1] : r \in {x \in served : record[x] = "failed"}}

DueAt(p) == {r \in Record : record[r] \in Due /\ using[r[1]] = p}

(* poll(), waiting for room or for the batch to be answered for: whoever   *)
(* polls serves whatever is ready, other threads' callbacks too.           *)
Poll(c) ==
    /\ pc[c] \in {"queueing", "waiting"}
    /\ \E r \in DueAt(using[c]) : Serves(c, {r})
    /\ UNCHANGED <<size, producer, built, pc, using, queued, late, logged>>

-----------------------------------------------------------------------------
(* publish *)

(* _drain(): flush() serves the callbacks that are due; what has not gone   *)
(* within its budget is reported, and stays with the producer.             *)
Drain(c, p) == Serves(c, DueAt(p))

(* shared_producer(): the process's own, or a new one, when there is none  *)
(* or its servers changed; the one replaced is drained.                    *)
Begin(c, changed) ==
    /\ pc[c] = "idle" /\ size[c] > 0 /\ Goes(c, "queueing")
    /\ IF producer # 0 /\ ~changed
       THEN /\ using' = [using EXCEPT ![c] = producer]
            /\ UNCHANGED <<producer, built, record, outstanding, failures>>
       ELSE /\ built < MaxProducers /\ built' = built + 1 /\ producer' = built + 1
            /\ using' = [using EXCEPT ![c] = built + 1]
            /\ Drain(c, producer)
    /\ UNCHANGED <<size, queued, late, logged>>

(* _queued(): the record is in librdkafka's queue, which may send it and   *)
(* call back before the batch has counted it.                              *)
Produce(c) ==
    /\ pc[c] = "queueing" /\ queued[c] < size[c]
    /\ Cardinality(Held(using[c])) < Room
    /\ record' = [record EXCEPT ![<<c, queued[c] + 1>>] = "local"]
    /\ Goes(c, "counting")
    /\ UNCHANGED <<size, producer, built, using, queued, late, outstanding, failures, logged>>

Count(c) ==
    /\ pc[c] = "counting" /\ Goes(c, "queueing")
    /\ queued' = [queued EXCEPT ![c] = @ + 1]
    /\ outstanding' = [outstanding EXCEPT ![c] = @ + 1]
    /\ UNCHANGED <<size, producer, built, using, late, record, failures, logged>>

(* queue(): the whole batch is in, or the first record without room at the *)
(* deadline ends it; a hole in the middle is never made.                   *)
Queued(c) ==
    /\ pc[c] = "queueing"
    /\ queued[c] = size[c] \/ (c \in late /\ Cardinality(Held(using[c])) >= Room)
    /\ Goes(c, "waiting")
    /\ UNCHANGED <<size, producer, built, using, queued, late, record, outstanding, failures, logged>>

(* report(): what went unanswered is said before what was refused, and     *)
(* what never got into the queue last.                                     *)
Verdict(c) ==
    IF outstanding[c] # 0 THEN "unanswered"
    ELSE IF c \in failures THEN "refused"
    ELSE IF queued[c] < size[c] THEN "unqueued" ELSE "returned"

Ends(c) ==
    /\ pc[c] = "waiting" /\ (outstanding[c] = 0 \/ c \in late)
    /\ Goes(c, Verdict(c))
    /\ UNCHANGED <<size, producer, built, using, queued, late, record, outstanding, failures, logged>>

(* KAFKA_TIMEOUT after the call began. *)
Late(c) ==
    /\ pc[c] \in Publishing /\ c \notin late /\ late' = late \cup {c}
    /\ UNCHANGED <<size, producer, built, pc, using, queued, record, outstanding, failures, logged>>

(* close_clients(): by close(), or on a change of the settings. *)
CloseClients(c) ==
    /\ pc[c] \notin Publishing /\ producer # 0
    /\ Drain(c, producer) /\ producer' = 0
    /\ UNCHANGED <<size, built, pc, using, queued, late, logged>>

-----------------------------------------------------------------------------
(* librdkafka *)

(* Every in-sync replica has the record, once (acks, enable.idempotence). *)
Lands(r) ==
    /\ record[r] = "local" /\ record' = [record EXCEPT ![r] = "landed"]
    /\ logged' = logged \cup {r}
    /\ UNCHANGED <<size, producer, built, pc, using, queued, late, outstanding, failures>>

(* It gives the record up, also when only the acknowledgement was lost. *)
Fails(r) ==
    /\ record[r] \in {"local", "landed"} /\ record' = [record EXCEPT ![r] = "failed"]
    /\ UNCHANGED <<size, producer, built, pc, using, queued, late, outstanding, failures, logged>>

Local ==
    \/ \E c \in Caller :
        \/ Begin(c, TRUE) \/ Begin(c, FALSE) \/ Produce(c) \/ Count(c) \/ Queued(c)
        \/ Poll(c) \/ Ends(c) \/ Late(c) \/ CloseClients(c)
    \/ \E r \in Record : Fails(r)

-----------------------------------------------------------------------------
(* Properties *)

(* What a publish tells its caller is true of its own batch, whoever       *)
(* polled and whatever became of the producer: one that returns has every  *)
(* record on the broker, one that could not queue the rest has just the    *)
(* prefix there, and no record that was answered for is still counted, so  *)
(* nothing the broker accepted is reported as unanswered and sent twice.   *)
Confirmed ==
    \A c \in Caller :
        /\ pc[c] = "returned" => Batch(c) \subseteq logged
        /\ pc[c] = "unqueued" => Batch(c) \cap logged = {r \in Batch(c) : r[2] <= queued[c]}
        /\ outstanding[c] = Cardinality(Unheard(c)) - (IF pc[c] = "counting" THEN 1 ELSE 0)
=============================================================================
