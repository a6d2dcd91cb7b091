-------------------------------- MODULE Kafka --------------------------------
(***************************************************************************)
(* The Kafka transport: broker/kafka/broker.py, in consumers of one group. *)
(*                                                                         *)
(* Kafka knows one number per partition, the committed offset, and it      *)
(* claims everything below it.  So the broker keeps books of its own: the  *)
(* offsets it handed out and did not settle, the ones settled out of       *)
(* order, and the rewinds a release made, by which it judges whether a     *)
(* handle still names a delivery.  The books live in the process; the      *)
(* partitions move between members, and nothing tells the broker.          *)
(*                                                                         *)
(* A spot is a (topic, partition) pair with the topic to itself.  The      *)
(* consumer loop is one thread, so each call of the broker is one step;    *)
(* sends finish and partitions move at any time between two calls.         *)
(***************************************************************************)
EXTENDS Integers, Sequences, FiniteSets

CONSTANTS
    Spot,           \* the places messages are read from: (topic, partition)
    Member,         \* the consumer processes
    Nobody,         \* the owner of a partition no member holds
    MaxInFlight,    \* MAX_IN_FLIGHT: sends one member may have under way
    Budgets         \* bounds, of which a behaviour takes one: the records each
                    \* spot holds at first, how many more are published, and how
                    \* many rebalances nothing forced, releases and faults (failed
                    \* commits, refusals, crashes, resubscriptions) may happen

ASSUME KafkaAssumption ==
    /\ Nobody \notin Member
    /\ MaxInFlight \in Nat
    /\ Budgets \subseteq [backlog : [Spot -> Nat], publishes : Nat, rebalances : Nat,
                    releases : Nat, faults : Nat]

Slot == 1..MaxInFlight

(* A message handed to the loop: the handle take() gave out, the in-flight *)
(* slot it occupies, and (history) what became of the delivery since: a    *)
(* release rewound past it, or the broker forgot its partition.            *)
Task == [slot : Slot, spot : Spot, offset : Nat, epoch : Nat,
         since : {"nothing", "rewound", "forgotten"}]

VARIABLES
    log,        \* log[s]: how many records s holds; their offsets are 0..log[s]-1
    committed,  \* committed[s]: the group's committed offset
    owner,      \* owner[s]: the member the coordinator gave s to, or Nobody
    up,         \* the members that are running
    joining,    \* joining[m]: m's client has no assignment yet
    position,   \* position[m][s]: the next offset m's client will deliver
    unsettled,  \* unsettled[m][s], settled[m][s]: the broker's sets of offsets
    settled,
    rewinds,    \* rewinds[m][s]: the broker's list of rewound-to offsets
    rewound,    \* rewound[m][s]: how many rewinds were compacted away
    spare,      \* spare[m]: records fetched for a topic not asked for
    swapped,    \* swapped[m]: the consumer was replaced since the last poll
    sends,      \* sends[m]: tasks whose send is under way
    finished,   \* finished[m]: tasks whose send is over, not yet acknowledged
    answered,   \* history: answered[s], the offsets some send finished with
    kept,       \* history: kept[m], the spots m joined with books of an earlier tenure
    excused,    \* history: spots with a refused record or a failed commit
    publishes, rebalances, releases, faults     \* what is left of the budget

group == <<owner, joining>>
books == <<unsettled, settled, rewinds, rewound>>
client == <<position, spare, swapped>>
loop == <<sends, finished>>
history == <<answered, kept, excused>>
bounds == <<publishes, rebalances, releases, faults>>
vars == <<log, committed, up, group, books, client, loop, history, bounds>>

TypeOK ==
    /\ log \in [Spot -> Nat]
    /\ committed \in [Spot -> Nat]
    /\ owner \in [Spot -> Member \cup {Nobody}]
    /\ up \subseteq Member
    /\ joining \in [Member -> BOOLEAN]
    /\ position \in [Member -> [Spot -> Nat]]
    /\ unsettled \in [Member -> [Spot -> SUBSET Nat]]
    /\ settled \in [Member -> [Spot -> SUBSET Nat]]
    /\ rewinds \in [Member -> [Spot -> Seq(Nat)]]
    /\ rewound \in [Member -> [Spot -> Nat]]
    /\ spare \in [Member -> Seq(Spot \X Nat)]
    /\ swapped \in [Member -> BOOLEAN]
    /\ sends \in [Member -> SUBSET Task]
    /\ finished \in [Member -> SUBSET Task]
    /\ answered \in [Spot -> SUBSET Nat]
    /\ kept \in [Member -> SUBSET Spot]
    /\ excused \subseteq Spot
    /\ publishes \in Nat /\ rebalances \in Nat /\ releases \in Nat /\ faults \in Nat

Everywhere(x) == [m \in Member |-> [s \in Spot |-> x]]

Init ==
    /\ committed = [s \in Spot |-> 0]
    /\ owner = [s \in Spot |-> Nobody]
    /\ up = Member /\ joining = [m \in Member |-> TRUE]
    /\ position = Everywhere(0)
    /\ unsettled = Everywhere({}) /\ settled = Everywhere({})
    /\ rewinds = Everywhere(<<>>) /\ rewound = Everywhere(0)
    /\ spare = [m \in Member |-> <<>>] /\ swapped = [m \in Member |-> FALSE]
    /\ sends = [m \in Member |-> {}] /\ finished = [m \in Member |-> {}]
    /\ answered = [s \in Spot |-> {}]
    /\ kept = [m \in Member |-> {}] /\ excused = {}
    /\ \E b \in Budgets :
          /\ log = b.backlog /\ publishes = b.publishes
          /\ rebalances = b.rebalances /\ releases = b.releases /\ faults = b.faults

-----------------------------------------------------------------------------
(* The cluster *)

Fault == faults > 0 /\ faults' = faults - 1

(* consumer.assignment() of m's client, and whether s is in it *)
Holds(m, s) == owner[s] = m /\ ~joining[m]
Assignment(m) == {s \in Spot : Holds(m, s)}

Publish(s) ==
    /\ publishes > 0 /\ publishes' = publishes - 1
    /\ log' = [log EXCEPT ![s] = @ + 1]
    /\ UNCHANGED <<committed, up, group, books, client, loop, history, rebalances, releases, faults>>

(* The coordinator revokes every partition and deals them out again, when  *)
(* one has no owner (Assign) or for reasons of its own (Rebalance).  A     *)
(* member learns of it in its next poll.                                   *)
Deal ==
    /\ owner' \in [Spot -> up]
    /\ joining' = [m \in Member |-> TRUE]
    /\ UNCHANGED <<log, committed, up, books, client, loop, history, publishes, releases, faults>>

Assign ==
    /\ \E s \in Spot : owner[s] = Nobody
    /\ Deal
    /\ UNCHANGED rebalances

Rebalance ==
    /\ rebalances > 0 /\ rebalances' = rebalances - 1
    /\ Deal

(* A process dies, or stops: what it was sending ends nowhere, its books   *)
(* are gone and the coordinator notices.                                   *)
Crash(m) ==
    /\ m \in up /\ Fault
    /\ up' = up \ {m}
    /\ owner' = [s \in Spot |-> IF owner[s] = m THEN Nobody ELSE owner[s]]
    /\ joining' = [joining EXCEPT ![m] = TRUE]
    /\ unsettled' = [unsettled EXCEPT ![m] = [s \in Spot |-> {}]]
    /\ settled' = [settled EXCEPT ![m] = [s \in Spot |-> {}]]
    /\ rewinds' = [rewinds EXCEPT ![m] = [s \in Spot |-> <<>>]]
    /\ rewound' = [rewound EXCEPT ![m] = [s \in Spot |-> 0]]
    /\ spare' = [spare EXCEPT ![m] = <<>>]
    /\ swapped' = [swapped EXCEPT ![m] = FALSE]
    /\ sends' = [sends EXCEPT ![m] = {}]
    /\ finished' = [finished EXCEPT ![m] = {}]
    /\ kept' = [kept EXCEPT ![m] = {}]
    /\ UNCHANGED <<log, committed, position, answered, excused, publishes, rebalances, releases>>

Restart(m) ==
    /\ m \notin up
    /\ up' = up \cup {m}
    /\ UNCHANGED <<log, committed, group, books, client, loop, history, bounds>>

(* A consumer that is closed leaves its group. *)
Leaves(m) ==
    /\ owner' = [s \in Spot |-> IF owner[s] = m THEN Nobody ELSE owner[s]]
    /\ joining' = [joining EXCEPT ![m] = TRUE]

(* consumer_for_thread: a consumer of another subscription is closed and a *)
(* new one subscribed in its place.                                        *)
Replaced(m) ==
    /\ Leaves(m)
    /\ swapped' = [swapped EXCEPT ![m] = TRUE]

(* serving() was told another set, which the subscription follows.  The    *)
(* broker's books stay.                                                    *)
Resubscribe(m) ==
    /\ m \in up /\ Fault
    /\ Replaced(m)
    /\ UNCHANGED <<log, committed, up, books, position, spare, loop, history, publishes, rebalances, releases>>

-----------------------------------------------------------------------------
(* take *)

Tasks(m) == sends[m] \cup finished[m]

(* hold_for_capacity let the loop read: a slot is free, and the first is used. *)
FirstFree(m, i) ==
    /\ \A t \in Tasks(m) : t.slot # i
    /\ \A j \in Slot : j < i => \E t \in Tasks(m) : t.slot = j

Epoch(m, s) == rewound[m][s] + Len(rewinds[m][s])

(* _wrap: the record is booked as unsettled and handed over. *)
Wrap(m, s, offset) ==
    /\ unsettled' = [unsettled EXCEPT ![m][s] = @ \cup {offset}]
    /\ \E i \in Slot :
          /\ FirstFree(m, i)
          /\ sends' = [sends EXCEPT ![m] = @ \cup
                {[slot |-> i, spot |-> s, offset |-> offset,
                  epoch |-> Epoch(m, s), since |-> "nothing"]}]
    /\ UNCHANGED <<settled, rewinds, rewound, finished>>

(* _forget_what_another_consumer_fetched *)
Kept(m) == IF swapped[m] THEN <<>> ELSE spare[m]

(* _held: the first kept record of a topic asked for *)
FirstHeld(m, asked, i) ==
    /\ i \in DOMAIN Kept(m)
    /\ Kept(m)[i][1] \in asked
    /\ \A j \in DOMAIN Kept(m) : j < i => Kept(m)[j][1] \notin asked

NoneHeld(m, asked) == \A i \in DOMAIN Kept(m) : Kept(m)[i][1] \notin asked

But(q, i) == [j \in 1..(Len(q) - 1) |-> IF j < i THEN q[j] ELSE q[j + 1]]

TakeHeld(m) ==
    /\ m \in up
    /\ \E asked \in SUBSET Spot, i \in DOMAIN Kept(m) :
          /\ FirstHeld(m, asked, i)
          /\ Wrap(m, Kept(m)[i][1], Kept(m)[i][2])
          /\ spare' = [spare EXCEPT ![m] = But(Kept(m), i)]
    /\ swapped' = [swapped EXCEPT ![m] = FALSE]
    /\ UNCHANGED <<log, committed, up, group, position, history, bounds>>

(* Nothing is paused while the join is under way, so the first record may  *)
(* be of any topic: one that was not asked for is kept.  A partition is    *)
(* read from its committed offset.                                         *)
Leftover(m, s) ==
    \/ unsettled[m][s] # {} \/ settled[m][s] # {}
    \/ \E t \in Tasks(m) : t.spot = s
    \/ \E i \in DOMAIN spare[m] : spare[m][i][1] = s

(* _wanted *)
Wanted(s, asked) == s \in asked

Join(m) ==
    /\ m \in up /\ joining[m]
    /\ \E s \in Spot : owner[s] = m
    /\ joining' = [joining EXCEPT ![m] = FALSE]
    /\ kept' = [kept EXCEPT ![m] = @ \cup {s \in Spot : owner[s] = m /\ Leftover(m, s)}]
    /\ \E asked \in SUBSET Spot :
          /\ NoneHeld(m, asked)
          /\ \/ /\ position' = [position EXCEPT ![m] = committed]
                /\ spare' = [spare EXCEPT ![m] = Kept(m)]
                /\ UNCHANGED <<books, loop>>
             \/ \E s \in Spot :
                   /\ owner[s] = m /\ committed[s] < log[s]
                   /\ position' = [position EXCEPT ![m] = [committed EXCEPT ![s] = @ + 1]]
                   /\ IF Wanted(s, asked)
                         THEN /\ Wrap(m, s, committed[s])
                              /\ spare' = [spare EXCEPT ![m] = Kept(m)]
                         ELSE /\ spare' = [spare EXCEPT ![m] =
                                              Append(Kept(m), <<s, committed[s]>>)]
                              /\ UNCHANGED <<books, loop>>
    /\ swapped' = [swapped EXCEPT ![m] = FALSE]
    /\ UNCHANGED <<log, committed, up, owner, answered, excused, bounds>>

(* _paced: the assigned partitions outside `asked` are paused.  The broker *)
(* does not pause one again that was lost and given back meanwhile; the    *)
(* client is taken to have kept that pause.                                *)
Paced(m, asked) == {s \in asked : Holds(m, s)}

(* Once assigned, the poll answers from the partitions that are not        *)
(* paused, unless a kept record of theirs goes first.                      *)
Poll(m) ==
    /\ m \in up
    /\ \E asked \in SUBSET Spot : \E s \in Paced(m, asked) :
          /\ NoneHeld(m, asked)
          /\ position[m][s] < log[s]
          /\ Wrap(m, s, position[m][s])
          /\ position' = [position EXCEPT ![m][s] = @ + 1]
    /\ spare' = [spare EXCEPT ![m] = Kept(m)]
    /\ swapped' = [swapped EXCEPT ![m] = FALSE]
    /\ UNCHANGED <<log, committed, up, group, history, bounds>>

-----------------------------------------------------------------------------
(* The send *)

Answer(m, t) ==
    /\ t \in sends[m]
    /\ sends' = [sends EXCEPT ![m] = @ \ {t}]
    /\ finished' = [finished EXCEPT ![m] = @ \cup {t}]
    /\ answered' = [answered EXCEPT ![t.spot] = @ \cup {t.offset}]
    /\ UNCHANGED <<log, committed, up, group, books, client, kept, excused, bounds>>

(* The consumer was told the send ended without the message having gone:   *)
(* it acknowledges nothing, and it does not call release either.           *)
Refuse(m, t) ==
    /\ t \in sends[m] /\ Fault
    /\ sends' = [sends EXCEPT ![m] = @ \ {t}]
    /\ excused' = excused \cup {t.spot}
    /\ UNCHANGED <<log, committed, up, group, books, client, finished, answered, kept,
                   publishes, rebalances, releases>>

-----------------------------------------------------------------------------
(* ack *)

(* Mutant of Settleable: a handle older than the compaction is not refused. *)
SettleableUncounted(m, t) ==
    LET dropped == rewound[m][t.spot]
        since == rewinds[m][t.spot]
    IN  /\ \A i \in DOMAIN since : i > t.epoch - dropped => since[i] > t.offset
        /\ t.offset \in unsettled[m][t.spot]

(* _settleable: no rewind since the handle was issued reached its offset,  *)
(* and the broker holds that offset.                                       *)
Settleable(m, t) ==
    LET dropped == rewound[m][t.spot]
        since == rewinds[m][t.spot]
    IN  /\ t.epoch >= dropped
        /\ \A i \in DOMAIN since : i > t.epoch - dropped => since[i] > t.offset
        /\ t.offset \in unsettled[m][t.spot]

Outstanding(m, t) == unsettled[m][t.spot] \ {t.offset}
Done(m, t) == settled[m][t.spot] \cup {t.offset}
(* Mutant of Ready: whatever is settled may be committed. *)
ReadyPastGaps(m, t) == Done(m, t)

Ready(m, t) == {v \in Done(m, t) : \A u \in Outstanding(m, t) : v < u}

Collected(m, t) ==
    /\ t \in finished[m]
    /\ finished' = [finished EXCEPT ![m] = @ \ {t}]
    /\ UNCHANGED <<log, up, group, client, sends, answered, kept, publishes, rebalances, releases>>

AckStale(m, t) ==
    /\ Collected(m, t)
    /\ ~Settleable(m, t)
    /\ UNCHANGED <<committed, books, excused, faults>>

AckWaits(m, t) ==
    /\ Collected(m, t)
    /\ Settleable(m, t)
    /\ Ready(m, t) = {}
    /\ unsettled' = [unsettled EXCEPT ![m][t.spot] = Outstanding(m, t)]
    /\ settled' = [settled EXCEPT ![m][t.spot] = Done(m, t)]
    /\ UNCHANGED <<committed, rewinds, rewound, excused, faults>>

Highest(m, t, h) == h \in Ready(m, t) /\ \A v \in Ready(m, t) : v <= h

(* The books are written before the commit is tried. *)
Booked(m, t, highest) ==
    /\ unsettled' = [unsettled EXCEPT ![m][t.spot] = Outstanding(m, t)]
    /\ settled' = [settled EXCEPT ![m][t.spot] = {v \in Done(m, t) : v > highest}]
    /\ UNCHANGED <<rewinds, rewound>>

AckCommits(m, t) ==
    /\ Collected(m, t)
    /\ Settleable(m, t)
    /\ Holds(m, t.spot)
    /\ \E h \in Ready(m, t) :
          /\ Highest(m, t, h)
          /\ Booked(m, t, h)
          /\ committed' = [committed EXCEPT ![t.spot] = h + 1]
    /\ UNCHANGED <<excused, faults>>

(* The commit raises: it timed out, or this client has no assignment at    *)
(* all.  The consumer logs it and goes on.                                 *)
AckRaises(m, t) ==
    /\ Collected(m, t)
    /\ Settleable(m, t)
    /\ \E h \in Ready(m, t) : Highest(m, t, h) /\ Booked(m, t, h)
    /\ \/ /\ Holds(m, t.spot) /\ Fault
          /\ excused' = excused \cup {t.spot}
       \/ /\ Assignment(m) = {}
          /\ UNCHANGED <<faults, excused>>
    /\ UNCHANGED committed

Lost(m, s) == ~Holds(m, s) /\ Assignment(m) # {}

(* History: deliveries of books that are gone, rewinds and all. *)
Forgotten(T, s) == {IF u.spot = s THEN [u EXCEPT !.since = "forgotten"] ELSE u : u \in T}

(* _lost: the client holds other partitions and not this one. *)
Forget(m, t) ==
    /\ Lost(m, t.spot)
    /\ unsettled' = [unsettled EXCEPT ![m][t.spot] = {}]
    /\ settled' = [settled EXCEPT ![m][t.spot] = {}]
    /\ rewinds' = [rewinds EXCEPT ![m][t.spot] = <<>>]
    /\ rewound' = [rewound EXCEPT ![m][t.spot] = 0]
    /\ sends' = [sends EXCEPT ![m] = Forgotten(@ \ {t}, t.spot)]
    /\ finished' = [finished EXCEPT ![m] = Forgotten(@ \ {t}, t.spot)]

AckLost(m, t) ==
    /\ t \in finished[m]
    /\ Settleable(m, t) /\ Ready(m, t) # {}
    /\ Forget(m, t)
    /\ UNCHANGED <<log, committed, up, group, client, history, bounds>>

-----------------------------------------------------------------------------
(* release: "Rewind to this message, so it and everything after it are     *)
(* delivered again."  No part of the package calls it; it is the broker's  *)
(* offer to a consumer.                                                    *)

(* History: the deliveries at or above the rewound offset. *)
Reached(u, t) == u.spot = t.spot /\ u.offset >= t.offset /\ u.since # "forgotten"
MarkRewound(T, t) == {IF Reached(u, t) THEN [u EXCEPT !.since = "rewound"] ELSE u : u \in T}

Release(m, t) ==
    LET s == t.spot
        low == {v \in unsettled[m][s] : v < t.offset}
        done == {v \in settled[m][s] : v < t.offset}
        seen == Append(rewinds[m][s], t.offset)
    IN  /\ t \in sends[m]
        /\ releases > 0 /\ releases' = releases - 1
        /\ Settleable(m, t)
        /\ Holds(m, s)
        /\ position' = [position EXCEPT ![m][s] = t.offset]
        /\ unsettled' = [unsettled EXCEPT ![m][s] = low]
        /\ settled' = [settled EXCEPT ![m][s] = done]
        /\ IF low = {} /\ done = {}
              THEN /\ rewinds' = [rewinds EXCEPT ![m][s] = <<>>]
                   /\ rewound' = [rewound EXCEPT ![m][s] = @ + Len(seen)]
              ELSE /\ rewinds' = [rewinds EXCEPT ![m][s] = seen]
                   /\ UNCHANGED rewound
        /\ sends' = [sends EXCEPT ![m] = MarkRewound(@ \ {t}, t)]
        /\ finished' = [finished EXCEPT ![m] = MarkRewound(@, t)]
        /\ UNCHANGED <<log, committed, up, group, spare, swapped, history, publishes, rebalances, faults>>

(* A handle that settles nothing, or a seek that is refused: the partition *)
(* is forgotten, or the error is raised and the books stay.                *)
ReleaseFails(m, t) ==
    /\ t \in sends[m]
    /\ releases > 0 /\ releases' = releases - 1
    /\ \/ /\ Settleable(m, t) /\ Forget(m, t)
          /\ UNCHANGED excused
       \/ /\ ~Settleable(m, t) \/ Assignment(m) = {}
          /\ sends' = [sends EXCEPT ![m] = @ \ {t}]
          /\ excused' = excused \cup {t.spot}
          /\ UNCHANGED <<books, finished>>
    /\ UNCHANGED <<log, committed, up, group, client, answered, kept, publishes, rebalances, faults>>

(* A poll that finds nothing new for the topics it asked for. *)
TakeNothing(m) ==
    /\ m \in up
    /\ \A s \in Spot : Holds(m, s) => position[m][s] >= log[s]
    /\ UNCHANGED vars

-----------------------------------------------------------------------------

Ack(m, t) ==
    \/ AckStale(m, t) \/ AckWaits(m, t) \/ AckCommits(m, t)
    \/ AckRaises(m, t) \/ AckLost(m, t)

(* A step of the group, of a consumer or of its sends. *)
Reading ==
    \/ Assign \/ Rebalance
    \/ \E m \in Member :
          \/ Crash(m) \/ Restart(m) \/ Resubscribe(m)
          \/ TakeHeld(m) \/ Join(m) \/ Poll(m) \/ TakeNothing(m)
          \/ \E t \in sends[m] :
                Answer(m, t) \/ Refuse(m, t) \/ Release(m, t) \/ ReleaseFails(m, t)
          \/ \E t \in finished[m] :
                \/ AckStale(m, t) \/ AckWaits(m, t) \/ AckCommits(m, t)
                \/ AckRaises(m, t) \/ AckLost(m, t)

Next == Reading \/ \E s \in Spot : Publish(s)

(* A running consumer polls, collects and settles for ever; a send ends; a *)
(* dead process is started again and its partitions are dealt out.         *)
Fairness ==
    /\ WF_vars(Assign)
    /\ \A m \in Member :
          /\ WF_vars(Restart(m))
          /\ WF_vars(Join(m))
          /\ WF_vars(TakeHeld(m))
          /\ WF_vars(Poll(m))
          /\ WF_vars(\E t \in sends[m] : Answer(m, t))
          /\ WF_vars(\E t \in finished[m] : Ack(m, t))

Spec == Init /\ [][Next]_vars
FairSpec == Spec /\ Fairness

-----------------------------------------------------------------------------
(* Properties *)

(* The committed offset never passes a record no send finished with: what  *)
(* `ack` promises by committing "the highest offset whose predecessors are *)
(* all settled, and nothing above it", across rebalances, rewinds, crashes *)
(* and commits that failed after the books were written.                   *)
NeverCommittedUnsent ==
    \A s \in Spot : \A o \in 0..(committed[s] - 1) : o \in answered[s]

(* A handle from before a rewind that reached it settles nothing:          *)
(* `_settleable` refuses it whether the rewind is still listed or was      *)
(* compacted into the count.  A handle the broker forgot is not meant: its *)
(* epoch is from a count that was dropped, and a rewind of the next tenure *)
(* may leave it as good as new.                                            *)
RewoundSettlesNothing ==
    [][\A m \in up' : \A t \in finished[m] \ finished'[m] :
          t.since = "rewound" /\ (\A u \in finished'[m] : u.slot # t.slot) =>
             UNCHANGED <<committed, unsettled, settled>>]_vars

(* Every published record is sent and committed in the end, unless its     *)
(* partition had a record refused or a commit that failed: a rewind to a   *)
(* higher offset must not strand the ones below it.  Where a partition     *)
(* came back to a member with books of an earlier tenure the commit may    *)
(* stay behind, and everything is still sent.                              *)
Drained ==
    <>[](\A s \in Spot :
            \/ s \in excused
            \/ /\ \A o \in 0..(log[s] - 1) : o \in answered[s]
               /\ committed[s] = log[s] \/ \E m \in Member : s \in kept[m])
==============================================================================
