------------------------ MODULE KafkaContainerProofs ------------------------
(***************************************************************************)
(* Two components.  That the Kafka transport never commits past a record   *)
(* nobody sent, and settles nothing with a handle a rewind reached, for    *)
(* every number of members, topics, records, slots, rebalances, releases   *)
(* and faults; and that what a publish tells its caller is true, for every *)
(* number of them, of batches, of producers and of room.  And of the start *)
(* command's container: that one thread takes from a lane and nothing is   *)
(* left behind, for every set of queues, any way they share lanes, every   *)
(* queue table and any number of consumers, changes and mishaps.           *)
(***************************************************************************)
EXTENDS KafkaQueue, Container, SequenceTheorems, FiniteSetTheorems, TLAPS

USE KafkaAssumption

-----------------------------------------------------------------------------
(* Sequences *)

(* Taking one record out of `_spare` leaves a sequence of records. *)
LEMMA ButType ==
    ASSUME NEW S, NEW q \in Seq(S), NEW i \in DOMAIN q
    PROVE  But(q, i) \in Seq(S)
<1>1. Len(q) \in Nat /\ Len(q) >= 1 /\ i \in 1..Len(q)
  OBVIOUS
<1>2. \A j \in 1..(Len(q) - 1) : (IF j < i THEN q[j] ELSE q[j + 1]) \in S
  BY <1>1
<1>3. But(q, i) \in [1..(Len(q) - 1) -> S]
  BY <1>2 DEF But
<1>4. Len(q) - 1 \in Nat
  BY <1>1
<1> QED
  BY <1>3, <1>4, SeqDef

(* What is left are records that were there, and all but the one taken. *)
LEMMA ButEntries ==
    ASSUME NEW S, NEW q \in Seq(S), NEW i \in DOMAIN q
    PROVE  /\ \A j \in DOMAIN But(q, i) : \E k \in DOMAIN q : But(q, i)[j] = q[k]
           /\ \A k \in DOMAIN q : k # i => \E j \in DOMAIN But(q, i) : But(q, i)[j] = q[k]
<1>1. Len(q) \in Nat /\ Len(q) >= 1 /\ i \in 1..Len(q) /\ DOMAIN q = 1..Len(q)
  OBVIOUS
<1>2. DOMAIN But(q, i) = 1..(Len(q) - 1)
  BY DEF But
<1>3. \A j \in 1..(Len(q) - 1) : But(q, i)[j] = IF j < i THEN q[j] ELSE q[j + 1]
  BY DEF But
<1>4. ASSUME NEW j \in DOMAIN But(q, i)
      PROVE  \E k \in DOMAIN q : But(q, i)[j] = q[k]
  <2>1. j \in 1..Len(q) /\ j + 1 \in 1..Len(q)
    BY <1>1, <1>2
  <2> QED
    BY <1>1, <1>2, <1>3, <2>1
<1>5. ASSUME NEW k \in DOMAIN q, k # i
      PROVE  \E j \in DOMAIN But(q, i) : But(q, i)[j] = q[k]
  <2>1. CASE k < i
    <3>1. k \in 1..(Len(q) - 1)
      BY <1>1, <2>1
    <3> QED
      BY <1>2, <1>3, <2>1, <3>1
  <2>2. CASE k > i
    <3>1. k - 1 \in 1..(Len(q) - 1) /\ ~(k - 1 < i) /\ (k - 1) + 1 = k
      BY <1>1, <2>2
    <3> QED
      BY <1>2, <1>3, <3>1
  <2> QED
    BY <1>1, <1>5, <2>1, <2>2
<1> QED
  BY <1>4, <1>5

(* Keeping one more record. *)
LEMMA AppendEntries ==
    ASSUME NEW S, NEW q \in Seq(S), NEW e \in S
    PROVE  /\ Append(q, e) \in Seq(S)
           /\ \A j \in DOMAIN Append(q, e) :
                 (j \in DOMAIN q /\ Append(q, e)[j] = q[j]) \/ Append(q, e)[j] = e
           /\ \E j \in DOMAIN Append(q, e) : Append(q, e)[j] = e
<1>1. /\ Append(q, e) \in Seq(S) /\ DOMAIN Append(q, e) = 1..(Len(q) + 1)
      /\ Len(q) \in Nat /\ DOMAIN q = 1..Len(q)
  OBVIOUS
<1>2. Append(q, e)[Len(q) + 1] = e
  OBVIOUS
<1>3. \A j \in 1..Len(q) : Append(q, e)[j] = q[j]
  OBVIOUS
<1> QED
  BY <1>1, <1>2, <1>3

-----------------------------------------------------------------------------
(* Types *)

(* Booking a record as unsettled and giving it a slot keeps the types. *)
LEMMA WrapType ==
    ASSUME TypeOK, NEW m \in Member, NEW s \in Spot, NEW offset \in Nat, Wrap(m, s, offset)
    PROVE  /\ unsettled' \in [Member -> [Spot -> SUBSET Nat]]
           /\ sends' \in [Member -> SUBSET Task]
<1>1. PICK i \in Slot : sends' = [sends EXCEPT ![m] = @ \cup
          {[slot |-> i, spot |-> s, offset |-> offset, epoch |-> Epoch(m, s), since |-> "nothing"]}]
  BY DEF Wrap
<1>2. Epoch(m, s) \in Nat
  BY DEF TypeOK, Epoch
<1>3. [slot |-> i, spot |-> s, offset |-> offset, epoch |-> Epoch(m, s), since |-> "nothing"] \in Task
  BY <1>2 DEF Task
<1>4. unsettled' \in [Member -> [Spot -> SUBSET Nat]]
  BY DEF TypeOK, Wrap
<1> QED
  BY <1>1, <1>3, <1>4 DEF TypeOK

(* What a poll starts with is a sequence of records. *)
LEMMA KeptType ==
    ASSUME TypeOK, NEW m \in Member
    PROVE  Kept(m) \in Seq(Spot \X Nat)
  BY DEF TypeOK, Kept

(* Marking and unmarking deliveries keeps them tasks. *)
LEMMA MarkType ==
    ASSUME NEW T \in SUBSET Task, NEW t \in Task, NEW s \in Spot
    PROVE  MarkRewound(T, t) \in SUBSET Task /\ Forgotten(T, s) \in SUBSET Task
  BY DEF MarkRewound, Reached, Forgotten, Task

(* The type invariant holds at first. *)
LEMMA TypeInit == Init => TypeOK
  BY DEF Init, TypeOK, Everywhere

(* No step of the group, the broker or the loop breaks the types. *)
LEMMA TypeNext == TypeOK /\ [Next]_vars => TypeOK'
<1> SUFFICES ASSUME TypeOK, [Next]_vars PROVE TypeOK'
  OBVIOUS
<1> USE DEF group, books, client, loop, history, bounds
<1>1. ASSUME NEW s \in Spot, Publish(s) PROVE TypeOK'
  BY <1>1 DEF TypeOK, Publish
<1>2. ASSUME Deal, rebalances' \in Nat PROVE TypeOK'
  <2>1. owner' \in [Spot -> Member \cup {Nobody}]
    BY <1>2 DEF Deal, TypeOK
  <2> QED
    BY <1>2, <2>1 DEF TypeOK, Deal
<1>3. CASE Assign
  BY <1>2, <1>3 DEF Assign, TypeOK
<1>4. CASE Rebalance
  BY <1>2, <1>4 DEF Rebalance, TypeOK
<1>5. ASSUME NEW m \in Member, Crash(m) PROVE TypeOK'
  BY <1>5 DEF TypeOK, Crash, Fault
<1>6. ASSUME NEW m \in Member, Restart(m) PROVE TypeOK'
  BY <1>6 DEF TypeOK, Restart
<1>7. ASSUME NEW m \in Member, Resubscribe(m) PROVE TypeOK'
  BY <1>7 DEF TypeOK, Resubscribe, Replaced, Leaves, Fault
<1>8. ASSUME NEW m \in Member, TakeHeld(m) PROVE TypeOK'
  <2>1. PICK polled \in SUBSET Spot, i \in DOMAIN Kept(m) :
           /\ Wrap(m, Kept(m)[i][1], Kept(m)[i][2])
           /\ spare' = [spare EXCEPT ![m] = But(Kept(m), i)]
    BY <1>8 DEF TakeHeld
  <2>2. Kept(m) \in Seq(Spot \X Nat)
    BY KeptType
  <2>3. Kept(m)[i] \in Spot \X Nat
    BY <2>2
  <2>4. Kept(m)[i][1] \in Spot /\ Kept(m)[i][2] \in Nat
    BY <2>3
  <2>5. /\ unsettled' \in [Member -> [Spot -> SUBSET Nat]]
        /\ sends' \in [Member -> SUBSET Task]
    BY <2>1, <2>4, WrapType
  <2>6. But(Kept(m), i) \in Seq(Spot \X Nat)
    BY <2>2, ButType
  <2>7. spare' \in [Member -> Seq(Spot \X Nat)]
    BY <2>1, <2>6 DEF TypeOK
  <2> QED
    BY <1>8, <2>1, <2>5, <2>7 DEF TypeOK, TakeHeld, Wrap
<1>9. ASSUME NEW m \in Member, Join(m) PROVE TypeOK'
  <2>1. Kept(m) \in Seq(Spot \X Nat)
    BY KeptType
  <2>2. PICK polled \in SUBSET Spot :
          \/ /\ position' = [position EXCEPT ![m] = committed]
             /\ spare' = [spare EXCEPT ![m] = Kept(m)]
             /\ UNCHANGED <<books, loop>>
          \/ \E s \in Spot :
                /\ position' = [position EXCEPT ![m] = [committed EXCEPT ![s] = @ + 1]]
                /\ IF s \in polled
                      THEN /\ Wrap(m, s, committed[s])
                           /\ spare' = [spare EXCEPT ![m] = Kept(m)]
                      ELSE /\ spare' = [spare EXCEPT ![m] =
                                           Append(Kept(m), <<s, committed[s]>>)]
                           /\ UNCHANGED <<books, loop>>
    BY <1>9 DEF Join, Wanted
  <2>3. /\ joining' \in [Member -> BOOLEAN] /\ swapped' \in [Member -> BOOLEAN]
        /\ kept' \in [Member -> SUBSET Spot]
        /\ UNCHANGED <<log, committed, up, owner, answered, excused, bounds>>
    BY <1>9 DEF TypeOK, Join, Wanted
  <2>4. CASE /\ position' = [position EXCEPT ![m] = committed]
             /\ spare' = [spare EXCEPT ![m] = Kept(m)]
             /\ UNCHANGED <<books, loop>>
    BY <2>1, <2>3, <2>4 DEF TypeOK
  <2>5. ASSUME NEW s \in Spot,
               position' = [position EXCEPT ![m] = [committed EXCEPT ![s] = @ + 1]],
               Wrap(m, s, committed[s]), spare' = [spare EXCEPT ![m] = Kept(m)]
        PROVE  TypeOK'
    <3>1. committed[s] \in Nat
      BY DEF TypeOK
    <3>2. /\ unsettled' \in [Member -> [Spot -> SUBSET Nat]]
          /\ sends' \in [Member -> SUBSET Task]
      BY <2>5, <3>1, WrapType
    <3>3. position' \in [Member -> [Spot -> Nat]]
      BY <2>5 DEF TypeOK
    <3>4. spare' \in [Member -> Seq(Spot \X Nat)]
      BY <2>1, <2>5 DEF TypeOK
    <3>5. UNCHANGED <<settled, rewinds, rewound, finished>>
      BY <2>5 DEF Wrap
    <3> QED
      BY <2>3, <3>2, <3>3, <3>4, <3>5 DEF TypeOK
  <2>6. ASSUME NEW s \in Spot,
               position' = [position EXCEPT ![m] = [committed EXCEPT ![s] = @ + 1]],
               spare' = [spare EXCEPT ![m] = Append(Kept(m), <<s, committed[s]>>)],
               UNCHANGED <<books, loop>>
        PROVE  TypeOK'
    <3>1. Append(Kept(m), <<s, committed[s]>>) \in Seq(Spot \X Nat)
      BY <2>1 DEF TypeOK
    <3>2. spare' \in [Member -> Seq(Spot \X Nat)]
      BY <2>6, <3>1 DEF TypeOK
    <3>3. position' \in [Member -> [Spot -> Nat]]
      BY <2>6 DEF TypeOK
    <3>4. UNCHANGED <<unsettled, settled, rewinds, rewound, sends, finished>>
      BY <2>6
    <3> QED
      BY <2>3, <3>2, <3>3, <3>4 DEF TypeOK
  <2> QED
    BY <2>2, <2>4, <2>5, <2>6
<1>10. ASSUME NEW m \in Member, Poll(m) PROVE TypeOK'
  <2>1. PICK s \in Spot :
          /\ Wrap(m, s, position[m][s])
          /\ position' = [position EXCEPT ![m][s] = @ + 1]
    BY <1>10 DEF Poll, Paced
  <2>2. /\ unsettled' \in [Member -> [Spot -> SUBSET Nat]]
        /\ sends' \in [Member -> SUBSET Task]
    BY <2>1, WrapType DEF TypeOK
  <2>3. spare' \in [Member -> Seq(Spot \X Nat)] /\ position' \in [Member -> [Spot -> Nat]]
    <3>1. Kept(m) \in Seq(Spot \X Nat) /\ spare' = [spare EXCEPT ![m] = Kept(m)]
      BY <1>10, KeptType DEF Poll, Paced
    <3>2. position' \in [Member -> [Spot -> Nat]]
      BY <2>1 DEF TypeOK
    <3> QED
      BY <3>1, <3>2 DEF TypeOK
  <2>4. UNCHANGED <<settled, rewinds, rewound, finished>>
    BY <2>1 DEF Wrap
  <2>5. /\ swapped' \in [Member -> BOOLEAN]
        /\ UNCHANGED <<log, committed, up, group, history, bounds>>
    BY <1>10 DEF TypeOK, Poll, Paced
  <2> QED
    BY <2>2, <2>3, <2>4, <2>5 DEF TypeOK
<1>11. ASSUME NEW m \in Member, TakeNothing(m) PROVE TypeOK'
  BY <1>11 DEF TypeOK, TakeNothing, vars
<1>12. ASSUME NEW m \in Member, NEW t \in sends[m], Answer(m, t) PROVE TypeOK'
  <2>1. t \in Task /\ t.spot \in Spot /\ t.offset \in Nat
    BY DEF TypeOK, Task
  <2>2. /\ sends' \in [Member -> SUBSET Task] /\ finished' \in [Member -> SUBSET Task]
        /\ answered' \in [Spot -> SUBSET Nat]
    BY <1>12, <2>1 DEF TypeOK, Answer
  <2> QED
    BY <1>12, <2>2 DEF TypeOK, Answer
<1>13. ASSUME NEW m \in Member, NEW t \in sends[m], Refuse(m, t) PROVE TypeOK'
  <2>1. t.spot \in Spot
    BY DEF TypeOK, Task
  <2> QED
    BY <1>13, <2>1 DEF TypeOK, Refuse, Fault
<1>14. ASSUME NEW m \in Member, NEW t \in sends[m], Release(m, t) PROVE TypeOK'
  <2>1. t \in Task /\ t.spot \in Spot /\ t.offset \in Nat
    BY DEF TypeOK, Task
  <2>2. /\ MarkRewound(sends[m] \ {t}, t) \in SUBSET Task
        /\ MarkRewound(finished[m], t) \in SUBSET Task
    BY <2>1, MarkType DEF TypeOK
  <2>3. sends' \in [Member -> SUBSET Task] /\ finished' \in [Member -> SUBSET Task]
    BY <1>14, <2>2 DEF TypeOK, Release
  <2>4. /\ position' \in [Member -> [Spot -> Nat]]
        /\ unsettled' \in [Member -> [Spot -> SUBSET Nat]]
        /\ settled' \in [Member -> [Spot -> SUBSET Nat]]
    BY <1>14, <2>1 DEF TypeOK, Release
  <2>5. Append(rewinds[m][t.spot], t.offset) \in Seq(Nat)
    BY <2>1 DEF TypeOK
  <2>6. /\ rewinds' \in [Member -> [Spot -> Seq(Nat)]]
        /\ rewound' \in [Member -> [Spot -> Nat]]
    <3>1. \/ /\ rewinds' = [rewinds EXCEPT ![m][t.spot] = <<>>]
             /\ rewound' = [rewound EXCEPT ![m][t.spot] = @ + Len(Append(rewinds[m][t.spot], t.offset))]
          \/ /\ rewinds' = [rewinds EXCEPT ![m][t.spot] = Append(rewinds[m][t.spot], t.offset)]
             /\ rewound' = rewound
      BY <1>14 DEF Release
    <3>2. Len(Append(rewinds[m][t.spot], t.offset)) \in Nat
      BY <2>5
    <3>3. CASE /\ rewinds' = [rewinds EXCEPT ![m][t.spot] = <<>>]
               /\ rewound' = [rewound EXCEPT ![m][t.spot] = @ + Len(Append(rewinds[m][t.spot], t.offset))]
      <4>1. rewinds' \in [Member -> [Spot -> Seq(Nat)]]
        BY <2>1, <3>3 DEF TypeOK
      <4>2. rewound[m][t.spot] + Len(Append(rewinds[m][t.spot], t.offset)) \in Nat
        BY <2>1, <3>2 DEF TypeOK
      <4>3. rewound' \in [Member -> [Spot -> Nat]]
        BY <2>1, <3>3, <4>2 DEF TypeOK
      <4> QED
        BY <4>1, <4>3
    <3>4. CASE /\ rewinds' = [rewinds EXCEPT ![m][t.spot] = Append(rewinds[m][t.spot], t.offset)]
               /\ rewound' = rewound
      BY <2>1, <2>5, <3>4 DEF TypeOK
    <3> QED
      BY <3>1, <3>3, <3>4
  <2>7. /\ releases' \in Nat
        /\ UNCHANGED <<log, committed, up, group, spare, swapped, history, publishes,
                       rebalances, faults>>
    BY <1>14 DEF TypeOK, Release
  <2> QED
    BY <2>3, <2>4, <2>6, <2>7 DEF TypeOK
<1>15. ASSUME NEW m \in Member, NEW t \in Task, Forget(m, t)
       PROVE  /\ unsettled' \in [Member -> [Spot -> SUBSET Nat]]
              /\ settled' \in [Member -> [Spot -> SUBSET Nat]]
              /\ rewinds' \in [Member -> [Spot -> Seq(Nat)]]
              /\ rewound' \in [Member -> [Spot -> Nat]]
              /\ sends' \in [Member -> SUBSET Task]
              /\ finished' \in [Member -> SUBSET Task]
  <2>1. t.spot \in Spot
    BY DEF Task
  <2>2. /\ Forgotten(sends[m] \ {t}, t.spot) \in SUBSET Task
        /\ Forgotten(finished[m] \ {t}, t.spot) \in SUBSET Task
    BY <2>1, MarkType DEF TypeOK
  <2>3. sends' \in [Member -> SUBSET Task] /\ finished' \in [Member -> SUBSET Task]
    BY <1>15, <2>2 DEF TypeOK, Forget
  <2>4. /\ unsettled' \in [Member -> [Spot -> SUBSET Nat]]
        /\ settled' \in [Member -> [Spot -> SUBSET Nat]]
    BY <1>15, <2>1 DEF TypeOK, Forget
  <2>5. rewinds' \in [Member -> [Spot -> Seq(Nat)]] /\ rewound' \in [Member -> [Spot -> Nat]]
    BY <1>15, <2>1 DEF TypeOK, Forget
  <2> QED
    BY <2>3, <2>4, <2>5
<1>16. ASSUME NEW m \in Member, NEW t \in sends[m], ReleaseFails(m, t) PROVE TypeOK'
  <2>1. t \in Task /\ t.spot \in Spot
    BY DEF TypeOK, Task
  <2>2. CASE Forget(m, t) /\ UNCHANGED excused
    <3>1. /\ releases' \in Nat
          /\ UNCHANGED <<log, committed, up, group, client, answered, kept, publishes,
                         rebalances, faults>>
      BY <1>16 DEF TypeOK, ReleaseFails
    <3> QED
      BY <1>15, <2>1, <2>2, <3>1 DEF TypeOK
  <2>3. CASE /\ sends' = [sends EXCEPT ![m] = @ \ {t}]
             /\ excused' = excused \cup {t.spot}
             /\ UNCHANGED <<books, finished>>
    BY <1>16, <2>1, <2>3 DEF TypeOK, ReleaseFails
  <2> QED
    BY <1>16, <2>2, <2>3 DEF ReleaseFails
<1>17. ASSUME NEW m \in Member, NEW t \in finished[m], Ack(m, t) PROVE TypeOK'
  <2>1. t \in Task /\ t.spot \in Spot /\ t.offset \in Nat
    BY DEF TypeOK, Task
  <2>2. CASE AckStale(m, t)
    BY <2>2 DEF TypeOK, AckStale, Collected
  <2>3. CASE AckWaits(m, t)
    BY <2>1, <2>3 DEF TypeOK, AckWaits, Collected, Outstanding, Done
  <2>4. ASSUME NEW h \in Ready(m, t), Booked(m, t, h)
        PROVE  /\ h \in Nat
               /\ unsettled' \in [Member -> [Spot -> SUBSET Nat]]
               /\ settled' \in [Member -> [Spot -> SUBSET Nat]]
               /\ UNCHANGED <<rewinds, rewound>>
    BY <2>1, <2>4 DEF TypeOK, Booked, Ready, Outstanding, Done
  <2>5. CASE AckCommits(m, t)
    <3>1. PICK h \in Ready(m, t) : /\ Booked(m, t, h)
                                   /\ committed' = [committed EXCEPT ![t.spot] = h + 1]
      BY <2>5 DEF AckCommits
    <3>2. committed' \in [Spot -> Nat]
      BY <2>1, <2>4, <3>1 DEF TypeOK
    <3> QED
      BY <2>4, <2>5, <3>1, <3>2 DEF TypeOK, AckCommits, Collected
  <2>6. CASE AckRaises(m, t)
    <3>1. PICK h \in Ready(m, t) : Booked(m, t, h)
      BY <2>6 DEF AckRaises
    <3>2. excused' \subseteq Spot /\ faults' \in Nat
      BY <2>1, <2>6 DEF TypeOK, AckRaises, Fault
    <3> QED
      BY <2>4, <2>6, <3>1, <3>2 DEF TypeOK, AckRaises, Collected
  <2>7. CASE AckLost(m, t)
    BY <1>15, <2>1, <2>7 DEF TypeOK, AckLost
  <2> QED
    BY <1>17, <2>2, <2>3, <2>5, <2>6, <2>7 DEF Ack
<1>18. CASE UNCHANGED vars
  BY <1>18 DEF TypeOK, vars
<1> QED
  BY <1>1, <1>3, <1>4, <1>5, <1>6, <1>7, <1>8, <1>9, <1>10, <1>11, <1>12, <1>13, <1>14,
     <1>16, <1>17, <1>18 DEF Next, Reading, Ack

(* Every state the group, the members and the broker's books reach is well *)
(* typed: offsets and counts are naturals, the kept records and rewinds    *)
(* are sequences, whatever the bounds.                                     *)
THEOREM TypeCorrect == Spec => []TypeOK
  BY TypeInit, TypeNext, PTL DEF Spec

-----------------------------------------------------------------------------
(* The committed offset *)

(* Below n, every record of s was sent or is on m's books. *)
Covered(m, s, n) == \A x \in 0..(n - 1) : x \in answered[s] \/ x \in unsettled[m][s]

(* s has a record with offset x among the ones m's broker kept. *)
IsSpare(m, s, x) == \E i \in DOMAIN spare[m] : spare[m][i] = <<s, x>>

FinishedAnswered == \A m \in Member : \A t \in finished[m] : t.offset \in answered[t.spot]

SettledAnswered == \A m \in Member, s \in Spot : settled[m][s] \subseteq answered[s]

BooksCovered ==
    \A m \in Member, s \in Spot : \A x \in unsettled[m][s] \cup settled[m][s] : Covered(m, s, x)

PositionCovered ==
    \A m \in Member, s \in Spot : Holds(m, s) =>
       \A x \in 0..(position[m][s] - 1) :
          x \in answered[s] \/ x \in unsettled[m][s] \/ IsSpare(m, s, x)

SpareAnswered ==
    \A m \in Member : \A i \in DOMAIN spare[m] :
       \A x \in 0..(spare[m][i][2] - 1) : x \in answered[spare[m][i][1]]

SwappedJoins == \A m \in Member : swapped[m] => joining[m]

(* A handle is settled only where the broker holds the offset, and the     *)
(* commit stops below the lowest offset still on the books.  That is safe  *)
(* only as long as every offset below one on the books, and below the      *)
(* position the client reads from, was sent or is itself on the books:     *)
(* the books and the position have to agree about where the gaps are.      *)
OffsetInv ==
    /\ NeverCommittedUnsent /\ FinishedAnswered /\ SettledAnswered
    /\ BooksCovered /\ PositionCovered /\ SpareAnswered /\ SwappedJoins

(* The invariant holds at first: nothing is committed, booked or read. *)
LEMMA OffsetInit == Init => OffsetInv
<1> SUFFICES ASSUME Init PROVE OffsetInv
  OBVIOUS
<1>1. NeverCommittedUnsent
  BY DEF Init, NeverCommittedUnsent
<1>2. FinishedAnswered /\ SwappedJoins
  BY DEF Init, FinishedAnswered, SwappedJoins
<1>3. SettledAnswered /\ BooksCovered
  BY DEF Init, Everywhere, SettledAnswered, BooksCovered
<1>4. PositionCovered
  BY DEF Init, PositionCovered, Holds
<1>5. SpareAnswered
  BY DEF Init, SpareAnswered
<1> QED
  BY <1>1, <1>2, <1>3, <1>4, <1>5 DEF OffsetInv

(* A step that leaves offsets, books and positions alone, and gives nobody *)
(* an assignment, keeps the invariant.                                     *)
LEMMA OffsetFrame ==
    ASSUME OffsetInv,
           UNCHANGED <<committed, answered, unsettled, settled, position, spare>>,
           \A m \in Member : finished'[m] \subseteq finished[m],
           \A m \in Member, s \in Spot : Holds(m, s)' => Holds(m, s),
           SwappedJoins'
    PROVE  OffsetInv'
<1>1. NeverCommittedUnsent'
  BY DEF OffsetInv, NeverCommittedUnsent
<1>2. FinishedAnswered'
  BY DEF OffsetInv, FinishedAnswered
<1>3. SettledAnswered'
  BY DEF OffsetInv, SettledAnswered
<1>4. BooksCovered'
  BY DEF OffsetInv, BooksCovered, Covered
<1>5. PositionCovered'
  BY DEF OffsetInv, PositionCovered, IsSpare
<1>6. SpareAnswered'
  BY DEF OffsetInv, SpareAnswered
<1> QED
  BY <1>1, <1>2, <1>3, <1>4, <1>5, <1>6 DEF OffsetInv

(* Writing the books of an acknowledged handle keeps them covered: what    *)
(* leaves `_unsettled` was sent.                                           *)
LEMMA BookedCovered ==
    ASSUME TypeOK, OffsetInv, NEW m \in Member, NEW t \in finished[m],
           t.offset \in unsettled[m][t.spot],
           NEW D \in SUBSET Done(m, t),
           UNCHANGED <<answered, position, spare, owner, joining>>,
           unsettled' = [unsettled EXCEPT ![m][t.spot] = Outstanding(m, t)],
           settled' = [settled EXCEPT ![m][t.spot] = D],
           \A k \in Member : finished'[k] \subseteq finished[k]
    PROVE  FinishedAnswered' /\ SettledAnswered' /\ BooksCovered' /\ PositionCovered' /\ SpareAnswered'
<1>1. t \in Task /\ t.spot \in Spot /\ t.offset \in Nat /\ t.offset \in answered[t.spot]
  BY DEF TypeOK, Task, OffsetInv, FinishedAnswered
<1>2. FinishedAnswered'
  BY DEF OffsetInv, FinishedAnswered
<1>3. \A k \in Member, s \in Spot :
         settled'[k][s] = IF k = m /\ s = t.spot THEN D ELSE settled[k][s]
  BY <1>1 DEF TypeOK
<1>4. \A k \in Member, s \in Spot :
         unsettled'[k][s] = IF k = m /\ s = t.spot THEN Outstanding(m, t) ELSE unsettled[k][s]
  BY <1>1 DEF TypeOK
<1>5. D \subseteq answered[t.spot]
  BY <1>1 DEF OffsetInv, SettledAnswered, Done
<1>6. SettledAnswered'
  BY <1>3, <1>5 DEF OffsetInv, SettledAnswered
<1>7. \A k \in Member, s \in Spot : \A x \in unsettled[k][s] :
         x \in answered[s] \/ x \in unsettled'[k][s]
  BY <1>1, <1>4 DEF Outstanding
<1>8. \A k \in Member, s \in Spot :
         unsettled'[k][s] \cup settled'[k][s] \subseteq unsettled[k][s] \cup settled[k][s]
  BY <1>3, <1>4 DEF Outstanding, Done
<1>9. BooksCovered'
  BY <1>7, <1>8 DEF OffsetInv, BooksCovered, Covered
<1>10. PositionCovered'
  <2> SUFFICES ASSUME NEW k \in Member, NEW s \in Spot, Holds(k, s)',
                      NEW x \in 0..(position'[k][s] - 1)
               PROVE  x \in answered'[s] \/ x \in unsettled'[k][s] \/ IsSpare(k, s, x)'
    BY DEF PositionCovered
  <2>1. Holds(k, s)
    BY DEF Holds
  <2>2. x \in answered[s] \/ x \in unsettled[k][s] \/ IsSpare(k, s, x)
    BY <2>1 DEF OffsetInv, PositionCovered
  <2> QED
    BY <1>7, <2>2 DEF IsSpare
<1>11. SpareAnswered'
  BY DEF OffsetInv, SpareAnswered
<1> QED
  BY <1>2, <1>6, <1>9, <1>10, <1>11

(* The commit: everything up to the highest ready offset was sent. *)
LEMMA ReadyAnswered ==
    ASSUME TypeOK, OffsetInv, NEW m \in Member, NEW t \in finished[m],
           t.offset \in unsettled[m][t.spot], NEW h \in Ready(m, t)
    PROVE  \A x \in 0..h : x \in answered[t.spot]
<1>1. t.spot \in Spot /\ t.offset \in Nat /\ t.offset \in answered[t.spot]
  BY DEF TypeOK, Task, OffsetInv, FinishedAnswered
<1>2. h \in Done(m, t) /\ \A u \in Outstanding(m, t) : h < u
  BY DEF Ready
<1>3. h \in Nat /\ h \in answered[t.spot]
  BY <1>1, <1>2 DEF TypeOK, Done, OffsetInv, SettledAnswered
<1>4. Covered(m, t.spot, h)
  BY <1>1, <1>2 DEF Done, OffsetInv, BooksCovered
<1>5. ASSUME NEW x \in 0..(h - 1) PROVE x \in answered[t.spot]
  <2>1. x \in answered[t.spot] \/ x \in unsettled[m][t.spot]
    BY <1>4 DEF Covered
  <2>2. ~(h < x)
    BY <1>3
  <2>3. x \notin Outstanding(m, t)
    BY <1>2, <2>2
  <2> QED
    BY <1>1, <2>1, <2>3 DEF Outstanding
<1> QED
  BY <1>3, <1>5

(* Booking a record below which everything is covered keeps the books      *)
(* covered; this is the whole effect of _wrap on them.                     *)
LEMMA WrapCovered ==
    ASSUME TypeOK, OffsetInv, NEW m \in Member, NEW s \in Spot, NEW offset \in Nat,
           Wrap(m, s, offset), UNCHANGED <<answered, committed>>, Covered(m, s, offset)
    PROVE  /\ NeverCommittedUnsent' /\ FinishedAnswered' /\ SettledAnswered' /\ BooksCovered'
           /\ \A k \in Member, u \in Spot : unsettled[k][u] \subseteq unsettled'[k][u]
           /\ offset \in unsettled'[m][s]
<1>1. \A k \in Member, u \in Spot :
         unsettled'[k][u] = IF k = m /\ u = s THEN unsettled[k][u] \cup {offset} ELSE unsettled[k][u]
  BY DEF TypeOK, Wrap
<1>2. settled' = settled /\ finished' = finished
  BY DEF Wrap
<1>3. NeverCommittedUnsent' /\ FinishedAnswered' /\ SettledAnswered'
  BY <1>2 DEF OffsetInv, NeverCommittedUnsent, FinishedAnswered, SettledAnswered
<1>4. BooksCovered'
  <2> SUFFICES ASSUME NEW k \in Member, NEW u \in Spot,
                      NEW x \in unsettled'[k][u] \cup settled'[k][u], NEW y \in 0..(x - 1)
               PROVE  y \in answered'[u] \/ y \in unsettled'[k][u]
    BY DEF BooksCovered, Covered
  <2>1. \/ x \in unsettled[k][u] \cup settled[k][u]
        \/ k = m /\ u = s /\ x = offset
    BY <1>1, <1>2
  <2>2. Covered(k, u, x)
    BY <2>1 DEF OffsetInv, BooksCovered
  <2>3. y \in answered[u] \/ y \in unsettled[k][u]
    BY <2>2 DEF Covered
  <2> QED
    BY <1>1, <2>3
<1> QED
  BY <1>1, <1>3, <1>4

(* TakeHeld hands over a record below which everything was sent. *)
LEMMA OffsetTakeHeld ==
    ASSUME TypeOK, OffsetInv, NEW m \in Member, TakeHeld(m)
    PROVE  OffsetInv'
<1> USE DEF group, history
<1>1. PICK i \in DOMAIN Kept(m) :
         /\ Wrap(m, Kept(m)[i][1], Kept(m)[i][2])
         /\ spare' = [spare EXCEPT ![m] = But(Kept(m), i)]
  BY DEF TakeHeld
<1>2. ~swapped[m] /\ Kept(m) = spare[m]
  BY <1>1 DEF Kept
<1>3. spare[m] \in Seq(Spot \X Nat) /\ i \in DOMAIN spare[m]
  BY <1>1, <1>2 DEF TypeOK
<1>4. PICK s \in Spot, offset \in Nat : spare[m][i] = <<s, offset>>
  BY <1>3
<1>5. Wrap(m, s, offset) /\ spare' = [spare EXCEPT ![m] = But(spare[m], i)]
  BY <1>1, <1>2, <1>4
<1>6. UNCHANGED <<committed, answered, position, owner, joining>>
  BY DEF TakeHeld
<1>7. Covered(m, s, offset)
  <2>1. spare[m][i][1] = s /\ spare[m][i][2] = offset
    BY <1>4
  <2> QED
    BY <1>3, <2>1 DEF OffsetInv, SpareAnswered, Covered
<1>8. /\ NeverCommittedUnsent' /\ FinishedAnswered' /\ SettledAnswered' /\ BooksCovered'
      /\ \A k \in Member, u \in Spot : unsettled[k][u] \subseteq unsettled'[k][u]
      /\ offset \in unsettled'[m][s]
  BY <1>5, <1>6, <1>7, WrapCovered
<1>9. \A k \in Member : spare'[k] = IF k = m THEN But(spare[m], i) ELSE spare[k]
  BY <1>5 DEF TypeOK
<1>10. /\ \A j \in DOMAIN But(spare[m], i) : \E k \in DOMAIN spare[m] : But(spare[m], i)[j] = spare[m][k]
       /\ \A k \in DOMAIN spare[m] : k # i =>
             \E j \in DOMAIN But(spare[m], i) : But(spare[m], i)[j] = spare[m][k]
  BY <1>3, ButEntries
<1>11. SpareAnswered'
  <2> SUFFICES ASSUME NEW k \in Member, NEW j \in DOMAIN spare'[k],
                      NEW x \in 0..(spare'[k][j][2] - 1)
               PROVE  x \in answered'[spare'[k][j][1]]
    BY DEF SpareAnswered
  <2>1. PICK l \in DOMAIN spare[k] : spare'[k][j] = spare[k][l]
    BY <1>9, <1>10
  <2> QED
    BY <1>6, <2>1 DEF OffsetInv, SpareAnswered
<1>12. PositionCovered'
  <2> SUFFICES ASSUME NEW k \in Member, NEW u \in Spot, Holds(k, u)',
                      NEW x \in 0..(position'[k][u] - 1)
               PROVE  x \in answered'[u] \/ x \in unsettled'[k][u] \/ IsSpare(k, u, x)'
    BY DEF PositionCovered
  <2>1. Holds(k, u) /\ x \in 0..(position[k][u] - 1)
    BY <1>6 DEF Holds
  <2>2. x \in answered[u] \/ x \in unsettled[k][u] \/ IsSpare(k, u, x)
    BY <2>1 DEF OffsetInv, PositionCovered
  <2>3. ASSUME IsSpare(k, u, x) PROVE x \in unsettled'[k][u] \/ IsSpare(k, u, x)'
    <3>1. PICK l \in DOMAIN spare[k] : spare[k][l] = <<u, x>>
      BY <2>3 DEF IsSpare
    <3>2. CASE k # m
      BY <1>9, <3>1, <3>2 DEF IsSpare
    <3>3. CASE k = m /\ l # i
      BY <1>9, <1>10, <3>1, <3>3 DEF IsSpare
    <3>4. CASE k = m /\ l = i
      BY <1>4, <1>8, <3>1, <3>4
    <3> QED
      BY <3>2, <3>3, <3>4
  <2> QED
    BY <1>6, <1>8, <2>2, <2>3
<1>13. SwappedJoins'
  BY <1>6 DEF TakeHeld, OffsetInv, SwappedJoins, TypeOK
<1> QED
  BY <1>8, <1>11, <1>12, <1>13 DEF OffsetInv

(* Poll hands over the record at the position, once no kept record of its  *)
(* topic is left.                                                          *)
LEMMA OffsetPoll ==
    ASSUME TypeOK, OffsetInv, NEW m \in Member, Poll(m)
    PROVE  OffsetInv'
<1> USE DEF group, history
<1>1. PICK polled \in SUBSET Spot, s \in Spot :
         /\ s \in polled /\ NoneHeld(m, polled) /\ Holds(m, s)
         /\ Wrap(m, s, position[m][s])
         /\ position' = [position EXCEPT ![m][s] = @ + 1]
  BY DEF Poll, Paced
<1>2. ~swapped[m] /\ Kept(m) = spare[m] /\ spare' = spare /\ s \in Spot
  BY <1>1 DEF Poll, Paced, OffsetInv, SwappedJoins, Holds, Kept, TypeOK
<1>3. UNCHANGED <<committed, answered, owner, joining>>
  BY DEF Poll, Paced
<1>4. position[m][s] \in Nat
  BY <1>2 DEF TypeOK
<1>5. \A x \in Nat : ~IsSpare(m, s, x)
  <2> SUFFICES ASSUME NEW x \in Nat, NEW i \in DOMAIN spare[m], spare[m][i] = <<s, x>>
               PROVE  FALSE
    BY DEF IsSpare
  <2>1. spare[m][i][1] = s
    OBVIOUS
  <2> QED
    BY <1>1, <1>2, <2>1 DEF NoneHeld
<1>6. Covered(m, s, position[m][s])
  BY <1>1, <1>2, <1>4, <1>5 DEF OffsetInv, PositionCovered, Covered
<1>7. /\ NeverCommittedUnsent' /\ FinishedAnswered' /\ SettledAnswered' /\ BooksCovered'
      /\ \A k \in Member, u \in Spot : unsettled[k][u] \subseteq unsettled'[k][u]
      /\ position[m][s] \in unsettled'[m][s]
  BY <1>1, <1>2, <1>3, <1>4, <1>6, WrapCovered
<1>8. SpareAnswered'
  BY <1>2, <1>3 DEF OffsetInv, SpareAnswered
<1>9. PositionCovered'
  <2> SUFFICES ASSUME NEW k \in Member, NEW u \in Spot, Holds(k, u)',
                      NEW x \in 0..(position'[k][u] - 1)
               PROVE  x \in answered'[u] \/ x \in unsettled'[k][u] \/ IsSpare(k, u, x)'
    BY DEF PositionCovered
  <2>1. Holds(k, u)
    BY <1>3 DEF Holds
  <2>2. position'[k][u] = IF k = m /\ u = s THEN position[k][u] + 1 ELSE position[k][u]
    BY <1>1, <1>2 DEF TypeOK
  <2>3. CASE k = m /\ u = s /\ x = position[m][s]
    BY <1>7, <2>3
  <2>4. CASE ~(k = m /\ u = s /\ x = position[m][s])
    <3>1. x \in 0..(position[k][u] - 1)
      BY <1>4, <2>2, <2>4 DEF TypeOK
    <3>2. x \in answered[u] \/ x \in unsettled[k][u] \/ IsSpare(k, u, x)
      BY <2>1, <3>1 DEF OffsetInv, PositionCovered
    <3> QED
      BY <1>2, <1>3, <1>7, <3>2 DEF IsSpare
  <2> QED
    BY <2>3, <2>4
<1>10. SwappedJoins'
  BY <1>3 DEF Poll, Paced, OffsetInv, SwappedJoins, TypeOK
<1> QED
  BY <1>7, <1>8, <1>9, <1>10 DEF OffsetInv

(* Join reads from the committed offset, below which everything was sent,  *)
(* and its first record is handed over or kept.                            *)
LEMMA OffsetJoin ==
    ASSUME TypeOK, OffsetInv, NEW m \in Member, Join(m)
    PROVE  OffsetInv'
<1> USE DEF history, books, loop
<1>1. /\ UNCHANGED <<committed, answered, owner>>
      /\ joining' = [joining EXCEPT ![m] = FALSE]
      /\ swapped' = [swapped EXCEPT ![m] = FALSE]
  BY DEF Join, Wanted
<1>2. SwappedJoins'
  BY <1>1 DEF OffsetInv, SwappedJoins, TypeOK
<1>3. \A k \in Member, u \in Spot : k # m /\ Holds(k, u)' => Holds(k, u)
  BY <1>1 DEF Holds, TypeOK
<1>4. Kept(m) \in Seq(Spot \X Nat) /\ \A j \in DOMAIN Kept(m) : Kept(m)[j] = spare[m][j] /\ j \in DOMAIN spare[m]
  BY KeptType DEF Kept
<1>5. \A u \in Spot : committed[u] \in Nat /\ \A x \in 0..(committed[u] - 1) : x \in answered[u]
  BY DEF TypeOK, OffsetInv, NeverCommittedUnsent
<1>6. ASSUME NEW q \in Seq(Spot \X Nat), spare' = [spare EXCEPT ![m] = q],
             \A j \in DOMAIN q : \/ \E l \in DOMAIN spare[m] : q[j] = spare[m][l]
                                 \/ \E u \in Spot : q[j] = <<u, committed[u]>>
      PROVE  SpareAnswered'
  <2> SUFFICES ASSUME NEW k \in Member, NEW j \in DOMAIN spare'[k],
                      NEW x \in 0..(spare'[k][j][2] - 1)
               PROVE  x \in answered'[spare'[k][j][1]]
    BY DEF SpareAnswered
  <2>1. spare'[k] = IF k = m THEN q ELSE spare[k]
    BY <1>6 DEF TypeOK
  <2>2. CASE \E l \in DOMAIN spare[k] : spare'[k][j] = spare[k][l]
    BY <1>1, <2>2 DEF OffsetInv, SpareAnswered
  <2>3. CASE \E u \in Spot : spare'[k][j] = <<u, committed[u]>>
    <3>1. PICK u \in Spot : spare'[k][j] = <<u, committed[u]>>
      BY <2>3
    <3>2. spare'[k][j][1] = u /\ spare'[k][j][2] = committed[u]
      BY <3>1
    <3> QED
      BY <1>1, <1>5, <3>2
  <2> QED
    BY <1>6, <2>1, <2>2, <2>3
<1>7. ASSUME NEW q \in Seq(Spot \X Nat), spare' = [spare EXCEPT ![m] = q],
             NEW place \in [Spot -> Nat], position' = [position EXCEPT ![m] = place],
             \A k \in Member, u \in Spot : unsettled[k][u] \subseteq unsettled'[k][u],
             \A u \in Spot : \/ place[u] = committed[u]
                             \/ place[u] = committed[u] + 1 /\ committed[u] \in unsettled'[m][u]
                             \/ place[u] = committed[u] + 1 /\ \E j \in DOMAIN q : q[j] = <<u, committed[u]>>
      PROVE  PositionCovered'
  <2> SUFFICES ASSUME NEW k \in Member, NEW u \in Spot, Holds(k, u)',
                      NEW x \in 0..(position'[k][u] - 1)
               PROVE  x \in answered'[u] \/ x \in unsettled'[k][u] \/ IsSpare(k, u, x)'
    BY DEF PositionCovered
  <2>1. spare'[k] = (IF k = m THEN q ELSE spare[k]) /\ position'[k] = IF k = m THEN place ELSE position[k]
    BY <1>7 DEF TypeOK
  <2>2. CASE k # m
    <3>1. x \in answered[u] \/ x \in unsettled[k][u] \/ IsSpare(k, u, x)
      BY <1>3, <2>1, <2>2 DEF OffsetInv, PositionCovered
    <3> QED
      BY <1>1, <1>7, <2>1, <2>2, <3>1 DEF IsSpare
  <2>3. CASE k = m /\ x \in 0..(committed[u] - 1)
    BY <1>1, <1>5, <2>3
  <2>4. CASE k = m /\ x \notin 0..(committed[u] - 1)
    <3>1. x = committed[u] /\ place[u] = committed[u] + 1
      BY <1>5, <1>7, <2>1, <2>4
    <3>2. \/ committed[u] \in unsettled'[m][u]
          \/ \E j \in DOMAIN q : q[j] = <<u, committed[u]>>
      BY <1>5, <1>7, <3>1
    <3> QED
      BY <2>1, <2>4, <3>1, <3>2 DEF IsSpare
  <2> QED
    BY <2>2, <2>3, <2>4
<1>8. PICK polled \in SUBSET Spot :
          \/ /\ position' = [position EXCEPT ![m] = committed]
             /\ spare' = [spare EXCEPT ![m] = Kept(m)]
             /\ UNCHANGED <<books, loop>>
          \/ \E s \in Spot :
                /\ position' = [position EXCEPT ![m] = [committed EXCEPT ![s] = @ + 1]]
                /\ IF s \in polled
                      THEN /\ Wrap(m, s, committed[s])
                           /\ spare' = [spare EXCEPT ![m] = Kept(m)]
                      ELSE /\ spare' = [spare EXCEPT ![m] =
                                           Append(Kept(m), <<s, committed[s]>>)]
                           /\ UNCHANGED <<books, loop>>
  BY DEF Join, Wanted
<1>9. ASSUME UNCHANGED <<books, loop>>
      PROVE  NeverCommittedUnsent' /\ FinishedAnswered' /\ SettledAnswered' /\ BooksCovered'
  BY <1>1, <1>9 DEF OffsetInv, NeverCommittedUnsent, FinishedAnswered, SettledAnswered,
                    BooksCovered, Covered
<1>10. CASE /\ position' = [position EXCEPT ![m] = committed]
            /\ spare' = [spare EXCEPT ![m] = Kept(m)]
            /\ UNCHANGED <<books, loop>>
  <2>1. SpareAnswered'
    BY <1>4, <1>6, <1>10
  <2>2. committed \in [Spot -> Nat] /\ unsettled' = unsettled
    BY <1>10 DEF TypeOK
  <2>3. PositionCovered'
    BY <1>4, <1>7, <1>10, <2>2
  <2> QED
    BY <1>2, <1>9, <1>10, <2>1, <2>3 DEF OffsetInv
<1>11. ASSUME NEW s \in Spot,
              position' = [position EXCEPT ![m] = [committed EXCEPT ![s] = @ + 1]],
              Wrap(m, s, committed[s]), spare' = [spare EXCEPT ![m] = Kept(m)]
       PROVE  OffsetInv'
  <2>1. Covered(m, s, committed[s])
    BY <1>5 DEF Covered
  <2>2. /\ NeverCommittedUnsent' /\ FinishedAnswered' /\ SettledAnswered' /\ BooksCovered'
        /\ \A k \in Member, u \in Spot : unsettled[k][u] \subseteq unsettled'[k][u]
        /\ committed[s] \in unsettled'[m][s]
    BY <1>1, <1>5, <1>11, <2>1, WrapCovered
  <2>3. SpareAnswered'
    BY <1>4, <1>6, <1>11
  <2>4. /\ [committed EXCEPT ![s] = @ + 1] \in [Spot -> Nat]
        /\ \A u \in Spot : [committed EXCEPT ![s] = @ + 1][u] =
              IF u = s THEN committed[u] + 1 ELSE committed[u]
    BY DEF TypeOK
  <2>5. PositionCovered'
    BY <1>4, <1>7, <1>11, <2>2, <2>4
  <2> QED
    BY <1>2, <2>2, <2>3, <2>5 DEF OffsetInv
<1>12. ASSUME NEW s \in Spot,
              position' = [position EXCEPT ![m] = [committed EXCEPT ![s] = @ + 1]],
              spare' = [spare EXCEPT ![m] = Append(Kept(m), <<s, committed[s]>>)],
              UNCHANGED <<books, loop>>
       PROVE  OffsetInv'
  <2> DEFINE q == Append(Kept(m), <<s, committed[s]>>)
  <2>1. /\ q \in Seq(Spot \X Nat)
        /\ \A j \in DOMAIN q : (j \in DOMAIN Kept(m) /\ q[j] = Kept(m)[j]) \/ q[j] = <<s, committed[s]>>
        /\ \E j \in DOMAIN q : q[j] = <<s, committed[s]>>
    <3>1. <<s, committed[s]>> \in Spot \X Nat
      BY <1>5
    <3>2. Kept(m) \in Seq(Spot \X Nat)
      BY <1>4
    <3> DEFINE R == Spot \X Nat
               K == Kept(m)
               e == <<s, committed[s]>>
    <3>3. K \in Seq(R) /\ e \in R
      BY <3>1, <3>2
    <3> HIDE DEF R, K, e
    <3>4. /\ Append(K, e) \in Seq(R)
          /\ \A j \in DOMAIN Append(K, e) :
                (j \in DOMAIN K /\ Append(K, e)[j] = K[j]) \/ Append(K, e)[j] = e
          /\ \E j \in DOMAIN Append(K, e) : Append(K, e)[j] = e
      BY <3>3, AppendEntries
    <3> QED
      BY <3>4, Zenon DEF R, K, e
  <2>2. unsettled' = unsettled
    BY <1>12
  <2>3. /\ [committed EXCEPT ![s] = @ + 1] \in [Spot -> Nat]
        /\ \A u \in Spot : [committed EXCEPT ![s] = @ + 1][u] =
              IF u = s THEN committed[u] + 1 ELSE committed[u]
    BY DEF TypeOK
  <2>4. spare' = [spare EXCEPT ![m] = q]
    BY <1>12
  <2> HIDE DEF q
  <2>5. SpareAnswered'
    <3>1. \A j \in DOMAIN q : \/ \E l \in DOMAIN spare[m] : q[j] = spare[m][l]
                              \/ \E u \in Spot : q[j] = <<u, committed[u]>>
      BY <1>4, <2>1
    <3> QED
      BY <1>6, <2>1, <2>4, <3>1
  <2>6. PositionCovered'
    <3> DEFINE place == [committed EXCEPT ![s] = @ + 1]
    <3>1. place \in [Spot -> Nat] /\ position' = [position EXCEPT ![m] = place]
      BY <1>12, <2>3
    <3>2. \A u \in Spot : \/ place[u] = committed[u]
                          \/ place[u] = committed[u] + 1 /\ committed[u] \in unsettled'[m][u]
                          \/ place[u] = committed[u] + 1 /\ \E j \in DOMAIN q : q[j] = <<u, committed[u]>>
      BY <2>1, <2>3
    <3> HIDE DEF place
    <3> QED
      BY <1>7, <2>1, <2>2, <2>4, <3>1, <3>2
  <2> QED
    BY <1>2, <1>9, <1>12, <2>5, <2>6 DEF OffsetInv
<1> QED
  BY <1>8, <1>10, <1>11, <1>12

(* A release keeps the books below the rewound offset and moves the        *)
(* position to it.                                                         *)
LEMMA OffsetRelease ==
    ASSUME TypeOK, OffsetInv, NEW m \in Member, NEW t \in sends[m], Release(m, t)
    PROVE  OffsetInv'
<1> USE DEF group, history
<1>1. t.spot \in Spot /\ t.offset \in Nat /\ t.offset \in unsettled[m][t.spot]
  BY DEF TypeOK, Task, Release, Settleable
<1>2. /\ UNCHANGED <<committed, answered, spare, owner, joining, swapped>>
      /\ position' = [position EXCEPT ![m][t.spot] = t.offset]
      /\ unsettled' = [unsettled EXCEPT ![m][t.spot] = {v \in @ : v < t.offset}]
      /\ settled' = [settled EXCEPT ![m][t.spot] = {v \in @ : v < t.offset}]
      /\ finished' = [finished EXCEPT ![m] = MarkRewound(@, t)]
  BY DEF Release
<1>3. \A k \in Member, u \in Spot :
         /\ unsettled'[k][u] = IF k = m /\ u = t.spot THEN {v \in unsettled[k][u] : v < t.offset}
                                                     ELSE unsettled[k][u]
         /\ settled'[k][u] = IF k = m /\ u = t.spot THEN {v \in settled[k][u] : v < t.offset}
                                                   ELSE settled[k][u]
         /\ position'[k][u] = IF k = m /\ u = t.spot THEN t.offset ELSE position[k][u]
  BY <1>1, <1>2 DEF TypeOK
<1>4. Covered(m, t.spot, t.offset)
  BY <1>1 DEF OffsetInv, BooksCovered
<1>5. NeverCommittedUnsent' /\ SpareAnswered' /\ SwappedJoins'
  BY <1>2 DEF OffsetInv, NeverCommittedUnsent, SpareAnswered, SwappedJoins
<1>6. SettledAnswered'
  BY <1>2, <1>3 DEF OffsetInv, SettledAnswered
<1>7. FinishedAnswered'
  <2> SUFFICES ASSUME NEW k \in Member, NEW u \in finished'[k]
               PROVE  u.offset \in answered'[u.spot]
    BY DEF FinishedAnswered
  <2>1. PICK w \in finished[k] : u.offset = w.offset /\ u.spot = w.spot
    <3>1. CASE k # m
      BY <1>2, <3>1 DEF TypeOK
    <3>2. CASE k = m
      <4>1. u \in MarkRewound(finished[m], t)
        BY <1>2, <3>2 DEF TypeOK
      <4>2. PICK w \in finished[m] :
               u = IF Reached(w, t) THEN [w EXCEPT !.since = "rewound"] ELSE w
        BY <4>1 DEF MarkRewound
      <4>3. w \in Task
        BY DEF TypeOK
      <4>4. u.offset = w.offset /\ u.spot = w.spot
        BY <4>2, <4>3 DEF Task
      <4> QED
        BY <3>2, <4>4
    <3> QED
      BY <3>1, <3>2
  <2> QED
    BY <1>2, <2>1 DEF OffsetInv, FinishedAnswered
<1>8. BooksCovered'
  <2> SUFFICES ASSUME NEW k \in Member, NEW u \in Spot,
                      NEW x \in unsettled'[k][u] \cup settled'[k][u], NEW y \in 0..(x - 1)
               PROVE  y \in answered'[u] \/ y \in unsettled'[k][u]
    BY DEF BooksCovered, Covered
  <2>1. /\ x \in unsettled[k][u] \cup settled[k][u] /\ x \in Nat
        /\ (k = m /\ u = t.spot => x < t.offset)
    <3>1. unsettled[k][u] \subseteq Nat /\ settled[k][u] \subseteq Nat
      BY DEF TypeOK
    <3>2. CASE k = m /\ u = t.spot
      BY <1>3, <3>1, <3>2
    <3>3. CASE ~(k = m /\ u = t.spot)
      BY <1>3, <3>1, <3>3
    <3> QED
      BY <3>2, <3>3
  <2>2. y \in answered[u] \/ y \in unsettled[k][u]
    BY <2>1 DEF OffsetInv, BooksCovered, Covered
  <2>3. k = m /\ u = t.spot => y < t.offset
    BY <1>1, <2>1
  <2> QED
    BY <1>2, <1>3, <2>2, <2>3
<1>9. PositionCovered'
  <2> SUFFICES ASSUME NEW k \in Member, NEW u \in Spot, Holds(k, u)',
                      NEW x \in 0..(position'[k][u] - 1)
               PROVE  x \in answered'[u] \/ x \in unsettled'[k][u] \/ IsSpare(k, u, x)'
    BY DEF PositionCovered
  <2>1. CASE k = m /\ u = t.spot
    <3>1. x \in 0..(t.offset - 1) /\ x < t.offset
      <4>1. position'[k][u] = t.offset
        BY <1>3, <2>1
      <4> QED
        BY <1>1, <4>1
    <3>2. x \in answered[u] \/ x \in unsettled[k][u]
      BY <1>4, <2>1, <3>1 DEF Covered
    <3> QED
      BY <1>2, <1>3, <2>1, <3>1, <3>2
  <2>2. CASE ~(k = m /\ u = t.spot)
    <3>1. Holds(k, u) /\ position'[k][u] = position[k][u] /\ unsettled'[k][u] = unsettled[k][u]
      BY <1>2, <1>3, <2>2 DEF Holds
    <3>2. x \in answered[u] \/ x \in unsettled[k][u] \/ IsSpare(k, u, x)
      BY <3>1 DEF OffsetInv, PositionCovered
    <3> QED
      BY <1>2, <3>1, <3>2 DEF IsSpare
  <2> QED
    BY <2>1, <2>2
<1> QED
  BY <1>5, <1>6, <1>7, <1>8, <1>9 DEF OffsetInv

(* Forgetting a partition the client does not hold empties its books. *)
LEMMA OffsetForget ==
    ASSUME TypeOK, OffsetInv, NEW m \in Member, NEW t \in Task, Forget(m, t),
           UNCHANGED <<committed, answered, position, spare, owner, joining, swapped>>
    PROVE  OffsetInv'
<1>1. t.spot \in Spot /\ ~Holds(m, t.spot)
  BY DEF Task, Forget, Lost
<1>2. \A k \in Member, u \in Spot :
         /\ unsettled'[k][u] = IF k = m /\ u = t.spot THEN {} ELSE unsettled[k][u]
         /\ settled'[k][u] = IF k = m /\ u = t.spot THEN {} ELSE settled[k][u]
  BY <1>1 DEF TypeOK, Forget
<1>3. NeverCommittedUnsent' /\ SpareAnswered' /\ SwappedJoins'
  BY DEF OffsetInv, NeverCommittedUnsent, SpareAnswered, SwappedJoins
<1>4. SettledAnswered'
  BY <1>2 DEF OffsetInv, SettledAnswered
<1>5. BooksCovered'
  <2> SUFFICES ASSUME NEW k \in Member, NEW u \in Spot,
                      NEW x \in unsettled'[k][u] \cup settled'[k][u], NEW y \in 0..(x - 1)
               PROVE  y \in answered'[u] \/ y \in unsettled'[k][u]
    BY DEF BooksCovered, Covered
  <2>1. unsettled'[k][u] = unsettled[k][u] /\ settled'[k][u] = settled[k][u]
    BY <1>2
  <2> QED
    BY <2>1 DEF OffsetInv, BooksCovered, Covered
<1>6. PositionCovered'
  <2> SUFFICES ASSUME NEW k \in Member, NEW u \in Spot, Holds(k, u)',
                      NEW x \in 0..(position'[k][u] - 1)
               PROVE  x \in answered'[u] \/ x \in unsettled'[k][u] \/ IsSpare(k, u, x)'
    BY DEF PositionCovered
  <2>1. Holds(k, u)
    BY DEF Holds
  <2>2. unsettled'[k][u] = unsettled[k][u]
    BY <1>1, <1>2, <2>1
  <2>3. x \in answered[u] \/ x \in unsettled[k][u] \/ IsSpare(k, u, x)
    BY <2>1 DEF OffsetInv, PositionCovered
  <2> QED
    BY <2>2, <2>3 DEF IsSpare
<1>7. FinishedAnswered'
  <2> SUFFICES ASSUME NEW k \in Member, NEW u \in finished'[k]
               PROVE  u.offset \in answered'[u.spot]
    BY DEF FinishedAnswered
  <2>1. PICK w \in finished[k] : u.offset = w.offset /\ u.spot = w.spot
    <3>1. CASE k # m
      BY <3>1 DEF TypeOK, Forget
    <3>2. CASE k = m
      <4>1. u \in Forgotten(finished[m] \ {t}, t.spot)
        BY <3>2 DEF TypeOK, Forget
      <4>2. PICK w \in finished[m] : u = IF w.spot = t.spot THEN [w EXCEPT !.since = "forgotten"] ELSE w
        BY <4>1 DEF Forgotten
      <4>3. w \in Task
        BY DEF TypeOK
      <4>4. u.offset = w.offset /\ u.spot = w.spot
        BY <4>2, <4>3 DEF Task
      <4> QED
        BY <3>2, <4>4
    <3> QED
      BY <3>1, <3>2
  <2> QED
    BY <2>1 DEF OffsetInv, FinishedAnswered
<1> QED
  BY <1>3, <1>4, <1>5, <1>6, <1>7 DEF OffsetInv

(* An acknowledgement, whatever becomes of its commit. *)
LEMMA OffsetAck ==
    ASSUME TypeOK, OffsetInv, NEW m \in Member, NEW t \in finished[m], Ack(m, t)
    PROVE  OffsetInv'
<1> USE DEF group, books, client, loop, history, bounds
<1>1. t \in Task /\ t.spot \in Spot
  BY DEF TypeOK, Task
<1>2. ASSUME Collected(m, t)
      PROVE  /\ UNCHANGED <<answered, position, spare, owner, joining, swapped>>
             /\ \A k \in Member : finished'[k] \subseteq finished[k]
             /\ SwappedJoins'
  BY <1>2 DEF Collected, TypeOK, OffsetInv, SwappedJoins
<1>3. CASE AckStale(m, t)
  <2>1. Collected(m, t) /\ UNCHANGED <<committed, unsettled, settled>>
    BY <1>3 DEF AckStale
  <2>2. \A k \in Member, s \in Spot : Holds(k, s)' => Holds(k, s)
    BY <1>2, <2>1 DEF Holds
  <2> QED
    BY <1>2, <2>1, <2>2, OffsetFrame
<1>4. ASSUME Collected(m, t), Settleable(m, t), NEW D \in SUBSET Done(m, t),
             unsettled' = [unsettled EXCEPT ![m][t.spot] = Outstanding(m, t)],
             settled' = [settled EXCEPT ![m][t.spot] = D],
             NeverCommittedUnsent'
      PROVE  OffsetInv'
  <2>1. t.offset \in unsettled[m][t.spot]
    BY <1>4 DEF Settleable
  <2>2. FinishedAnswered' /\ SettledAnswered' /\ BooksCovered' /\ PositionCovered' /\ SpareAnswered'
    BY <1>2, <1>4, <2>1, BookedCovered
  <2> QED
    BY <1>2, <1>4, <2>2 DEF OffsetInv
<1>5. ASSUME Collected(m, t), UNCHANGED committed PROVE NeverCommittedUnsent'
  BY <1>2, <1>5 DEF OffsetInv, NeverCommittedUnsent
<1>6. CASE AckWaits(m, t)
  BY <1>4, <1>5, <1>6 DEF AckWaits
<1>7. \A h : {v \in Done(m, t) : v > h} \in SUBSET Done(m, t)
  OBVIOUS
<1>8. CASE AckCommits(m, t)
  <2>1. PICK h \in Ready(m, t) : /\ Booked(m, t, h)
                                 /\ committed' = [committed EXCEPT ![t.spot] = h + 1]
    BY <1>8 DEF AckCommits
  <2>2. Collected(m, t) /\ Settleable(m, t) /\ t.offset \in unsettled[m][t.spot]
    BY <1>8 DEF AckCommits, Settleable
  <2>3. h \in Nat
    BY <1>1 DEF Ready, Done, TypeOK, Task
  <2>4. \A x \in 0..h : x \in answered[t.spot]
    BY <2>2, ReadyAnswered
  <2>5. \A s \in Spot : committed'[s] = IF s = t.spot THEN h + 1 ELSE committed[s]
    BY <1>1, <2>1 DEF TypeOK
  <2>6. NeverCommittedUnsent'
    <3> SUFFICES ASSUME NEW s \in Spot, NEW x \in 0..(committed'[s] - 1)
                 PROVE  x \in answered'[s]
      BY DEF NeverCommittedUnsent
    <3>1. CASE s = t.spot
      <4>1. x \in 0..h
        BY <2>3, <2>5, <3>1
      <4> QED
        BY <1>2, <2>2, <2>4, <3>1, <4>1
    <3>2. CASE s # t.spot
      BY <1>2, <2>2, <2>5, <3>2 DEF OffsetInv, NeverCommittedUnsent
    <3> QED
      BY <3>1, <3>2
  <2> QED
    BY <1>4, <1>7, <2>1, <2>2, <2>6 DEF Booked
<1>9. CASE AckRaises(m, t)
  <2>1. PICK h \in Ready(m, t) : Booked(m, t, h)
    BY <1>9 DEF AckRaises
  <2>2. Collected(m, t) /\ Settleable(m, t) /\ UNCHANGED committed
    BY <1>9 DEF AckRaises
  <2> QED
    BY <1>4, <1>5, <1>7, <2>1, <2>2 DEF Booked
<1>10. CASE AckLost(m, t)
  BY <1>1, <1>10, OffsetForget DEF AckLost
<1> QED
  BY <1>3, <1>6, <1>8, <1>9, <1>10 DEF Ack

(* Every step keeps the invariant: one case per action. *)
LEMMA OffsetNext == TypeOK /\ OffsetInv /\ [Next]_vars => OffsetInv'
<1> SUFFICES ASSUME TypeOK, OffsetInv, [Next]_vars PROVE OffsetInv'
  OBVIOUS
<1> USE DEF group, books, client, loop, history, bounds
<1>1. ASSUME UNCHANGED <<committed, answered, unsettled, settled, position, spare, finished>>,
             \A m \in Member, s \in Spot : Holds(m, s)' => Holds(m, s), SwappedJoins'
      PROVE  OffsetInv'
  BY <1>1, OffsetFrame
<1>2. ASSUME UNCHANGED <<committed, answered, unsettled, settled, position, spare, finished,
                         owner, joining, swapped>>
      PROVE  OffsetInv'
  <2>1. SwappedJoins' /\ \A m \in Member, s \in Spot : Holds(m, s)' => Holds(m, s)
    BY <1>2 DEF OffsetInv, SwappedJoins, Holds
  <2> QED
    BY <1>1, <1>2, <2>1
<1>3. ASSUME NEW s \in Spot, Publish(s) PROVE OffsetInv'
  BY <1>2, <1>3 DEF Publish
<1>4. ASSUME Deal PROVE OffsetInv'
  <2>1. SwappedJoins' /\ \A m \in Member, s \in Spot : ~Holds(m, s)'
    BY <1>4 DEF Deal, SwappedJoins, Holds
  <2> QED
    BY <1>1, <1>4, <2>1 DEF Deal
<1>5. ASSUME NEW m \in Member, Crash(m) PROVE OffsetInv'
  <2>1. UNCHANGED <<committed, answered, position>>
    BY <1>5 DEF Crash
  <2>2. \A k \in Member \ {m} : /\ unsettled'[k] = unsettled[k] /\ settled'[k] = settled[k]
                                /\ spare'[k] = spare[k] /\ finished'[k] = finished[k]
    BY <1>5 DEF Crash, TypeOK
  <2>3. \A k \in Member \ {m} : joining'[k] = joining[k] /\ swapped'[k] = swapped[k]
    BY <1>5 DEF Crash, TypeOK
  <2>4. \A s \in Spot : unsettled'[m][s] = {} /\ settled'[m][s] = {}
    BY <1>5 DEF Crash, TypeOK
  <2>5. spare'[m] = <<>> /\ finished'[m] = {} /\ joining'[m] = TRUE
    BY <1>5 DEF Crash, TypeOK
  <2>6. \A k \in Member, s \in Spot : Holds(k, s)' => k \in Member \ {m} /\ Holds(k, s)
    BY <1>5, <2>3, <2>5 DEF Crash, Holds, TypeOK
  <2>7. NeverCommittedUnsent'
    BY <2>1 DEF OffsetInv, NeverCommittedUnsent
  <2>8. FinishedAnswered'
    BY <2>1, <2>2, <2>5 DEF OffsetInv, FinishedAnswered
  <2>9. SettledAnswered'
    BY <2>1, <2>2, <2>4 DEF OffsetInv, SettledAnswered
  <2>10. BooksCovered'
    BY <2>1, <2>2, <2>4 DEF OffsetInv, BooksCovered, Covered
  <2>11. PositionCovered'
    <3> SUFFICES ASSUME NEW k \in Member, NEW s \in Spot, Holds(k, s)',
                        NEW x \in 0..(position'[k][s] - 1)
                 PROVE  x \in answered'[s] \/ x \in unsettled'[k][s] \/ IsSpare(k, s, x)'
      BY DEF PositionCovered
    <3>1. k \in Member \ {m} /\ Holds(k, s)
      BY <2>6
    <3>2. x \in answered[s] \/ x \in unsettled[k][s] \/ IsSpare(k, s, x)
      BY <2>1, <3>1 DEF OffsetInv, PositionCovered
    <3> QED
      BY <2>1, <2>2, <3>1, <3>2 DEF IsSpare
  <2>12. SpareAnswered'
    <3> SUFFICES ASSUME NEW k \in Member, NEW l \in DOMAIN spare'[k],
                        NEW x \in 0..(spare'[k][l][2] - 1)
                 PROVE  x \in answered'[spare'[k][l][1]]
      BY DEF SpareAnswered
    <3>1. k \in Member \ {m}
      BY <2>5
    <3> QED
      BY <2>1, <2>2, <3>1 DEF OffsetInv, SpareAnswered
  <2>13. SwappedJoins'
    BY <2>3, <2>5 DEF OffsetInv, SwappedJoins
  <2> QED
    BY <2>7, <2>8, <2>9, <2>10, <2>11, <2>12, <2>13 DEF OffsetInv
<1>6. ASSUME NEW m \in Member, Restart(m) PROVE OffsetInv'
  BY <1>2, <1>6 DEF Restart
<1>7. ASSUME NEW m \in Member, Resubscribe(m) PROVE OffsetInv'
  <2>1. \A k \in Member : joining'[k] = (IF k = m THEN TRUE ELSE joining[k])
                          /\ swapped'[k] = (IF k = m THEN TRUE ELSE swapped[k])
    BY <1>7 DEF Resubscribe, Replaced, Leaves, TypeOK
  <2>2. SwappedJoins'
    BY <2>1 DEF OffsetInv, SwappedJoins
  <2>3. \A k \in Member, s \in Spot : Holds(k, s)' => Holds(k, s)
    BY <1>7, <2>1, KafkaAssumption DEF Resubscribe, Replaced, Leaves, Holds, TypeOK
  <2> QED
    BY <1>1, <1>7, <2>2, <2>3 DEF Resubscribe, Replaced, Leaves
<1>8. ASSUME NEW m \in Member, NEW t \in sends[m], Answer(m, t) PROVE OffsetInv'
  <2>1. t.spot \in Spot
    BY DEF TypeOK, Task
  <2>2. /\ UNCHANGED <<committed, unsettled, settled, position, spare, owner, joining, swapped>>
        /\ \A s \in Spot : answered[s] \subseteq answered'[s]
        /\ t.offset \in answered'[t.spot]
        /\ \A k \in Member : finished'[k] \subseteq finished[k] \cup {t}
    BY <1>8, <2>1 DEF Answer, TypeOK
  <2>3. FinishedAnswered'
    <3>1. \A k \in Member : \A u \in finished[k] : u.spot \in Spot
      BY DEF TypeOK, Task
    <3> QED
      BY <2>2, <3>1 DEF OffsetInv, FinishedAnswered
  <2>4. NeverCommittedUnsent' /\ SettledAnswered'
    BY <2>2 DEF OffsetInv, NeverCommittedUnsent, SettledAnswered
  <2>5. BooksCovered'
    BY <2>2 DEF OffsetInv, BooksCovered, Covered
  <2>6. PositionCovered'
    <3> SUFFICES ASSUME NEW k \in Member, NEW s \in Spot, Holds(k, s)',
                        NEW x \in 0..(position'[k][s] - 1)
                 PROVE  x \in answered'[s] \/ x \in unsettled'[k][s] \/ IsSpare(k, s, x)'
      BY DEF PositionCovered
    <3>1. Holds(k, s)
      BY <2>2 DEF Holds
    <3>2. x \in answered[s] \/ x \in unsettled[k][s] \/ IsSpare(k, s, x)
      BY <2>2, <3>1 DEF OffsetInv, PositionCovered
    <3> QED
      BY <2>2, <3>2 DEF IsSpare
  <2>7. SpareAnswered' /\ SwappedJoins'
    <3>1. \A k \in Member : \A i \in DOMAIN spare[k] : spare[k][i][1] \in Spot
      <4> SUFFICES ASSUME NEW k \in Member, NEW i \in DOMAIN spare[k] PROVE spare[k][i][1] \in Spot
        OBVIOUS
      <4>1. spare[k] \in Seq(Spot \X Nat)
        BY DEF TypeOK
      <4>2. spare[k][i] \in Spot \X Nat
        BY <4>1
      <4> QED
        BY <4>2
    <3> QED
      BY <2>2, <3>1 DEF OffsetInv, SpareAnswered, SwappedJoins
  <2> QED
    BY <2>3, <2>4, <2>5, <2>6, <2>7 DEF OffsetInv
<1>9. ASSUME NEW m \in Member, NEW t \in sends[m], Refuse(m, t) PROVE OffsetInv'
  BY <1>2, <1>9 DEF Refuse
<1>10. ASSUME NEW m \in Member, NEW t \in sends[m], ReleaseFails(m, t) PROVE OffsetInv'
  <2>1. t \in Task
    BY DEF TypeOK
  <2>2. UNCHANGED <<committed, answered, position, spare, owner, joining, swapped>>
    BY <1>10 DEF ReleaseFails
  <2>3. CASE Forget(m, t)
    BY <2>1, <2>2, <2>3, OffsetForget
  <2>4. CASE UNCHANGED <<books, finished>>
    BY <1>2, <2>2, <2>4
  <2> QED
    BY <1>10, <2>3, <2>4 DEF ReleaseFails
<1>11. ASSUME NEW m \in Member, TakeNothing(m) PROVE OffsetInv'
  BY <1>2, <1>11 DEF TakeNothing, vars
<1>12. CASE UNCHANGED vars
  BY <1>2, <1>12 DEF vars
<1>13. ASSUME Assign \/ Rebalance PROVE OffsetInv'
  BY <1>4, <1>13 DEF Assign, Rebalance
<1> QED
  BY <1>3, <1>5, <1>6, <1>7, <1>8, <1>9, <1>10, <1>11, <1>12, <1>13, OffsetTakeHeld, OffsetJoin,
     OffsetPoll, OffsetRelease, OffsetAck DEF Next, Reading, Ack

(* A committed offset claims everything below it, and everything below it  *)
(* was sent: whatever rebalances, rewinds, failed commits, crashes and new *)
(* subscriptions do to the books of KafkaBroker.                           *)
THEOREM CommittedOnlyWhenSent == Spec => []NeverCommittedUnsent
<1>1. TypeOK /\ OffsetInv /\ [Next]_vars => (TypeOK /\ OffsetInv)'
  BY TypeNext, OffsetNext
<1>2. OffsetInv => NeverCommittedUnsent
  BY DEF OffsetInv
<1> QED
  BY <1>1, <1>2, TypeInit, OffsetInit, PTL DEF Spec

-----------------------------------------------------------------------------
(* What a rewind reached *)

(* A rewind after the handle was given out reached its offset: it is one of *)
(* those compacted into the count, or it is listed.                        *)
Refused(m, t) ==
    LET counted == rewound[m][t.spot]
        since == rewinds[m][t.spot]
    IN  \/ t.epoch < counted
        \/ \E i \in DOMAIN since : i > t.epoch - counted /\ since[i] <= t.offset

(* Until its partition is forgotten a handle counts no rewind that did not  *)
(* happen, and one a rewind reached is refused.                            *)
Sound(m, t) ==
    /\ t.since # "forgotten" => t.epoch <= Epoch(m, t.spot)
    /\ t.since = "rewound" => Refused(m, t)

RewindInv == \A m \in Member : \A t \in Tasks(m) : Sound(m, t)

LEMMA RewindInit == Init => RewindInv
  BY DEF Init, RewindInv, Tasks

LEMMA RefusedSettlesNot ==
    ASSUME TypeOK, NEW m \in Member, NEW t \in Task, Refused(m, t)
    PROVE  ~Settleable(m, t)
<1> DEFINE counted == rewound[m][t.spot]
           since == rewinds[m][t.spot]
<1>1. t.spot \in Spot /\ t.epoch \in Nat /\ t.offset \in Nat
  BY DEF Task
<1>2. counted \in Nat /\ since \in Seq(Nat)
  BY <1>1 DEF TypeOK
<1>3. /\ Refused(m, t) <=> \/ t.epoch < counted
                           \/ \E i \in DOMAIN since : i > t.epoch - counted /\ since[i] <= t.offset
      /\ Settleable(m, t) => /\ t.epoch >= counted
                             /\ \A i \in DOMAIN since : i > t.epoch - counted => since[i] > t.offset
  BY DEF Refused, Settleable
<1>4. \A i \in DOMAIN since : since[i] \in Nat
  BY <1>2
<1> HIDE DEF counted, since
<1> QED
  BY <1>1, <1>2, <1>3, <1>4

(* A step that makes no delivery, or one of the broker's present epoch. *)
LEMMA RewindFrame ==
    ASSUME TypeOK, RewindInv, UNCHANGED <<rewinds, rewound>>,
           \A k \in Member : \A t \in Tasks(k)' :
              t \in Tasks(k) \/ (t.since = "nothing" /\ t.spot \in Spot /\ t.epoch = Epoch(k, t.spot))
    PROVE  RewindInv'
<1> SUFFICES ASSUME NEW k \in Member, NEW t \in Tasks(k)' PROVE Sound(k, t)'
  BY DEF RewindInv
<1>1. CASE t \in Tasks(k)
  <2>1. Sound(k, t)
    BY <1>1 DEF RewindInv
  <2> QED
    BY <2>1 DEF Sound, Refused, Epoch
<1>2. CASE t.since = "nothing" /\ t.spot \in Spot /\ t.epoch = Epoch(k, t.spot)
  <2>1. Epoch(k, t.spot) \in Nat /\ Epoch(k, t.spot)' = Epoch(k, t.spot)
    BY <1>2 DEF TypeOK, Epoch
  <2> QED
    BY <1>2, <2>1 DEF Sound
<1> QED
  BY <1>1, <1>2

LEMMA RewindWrap ==
    ASSUME TypeOK, RewindInv, NEW m \in Member, NEW s \in Spot, NEW offset \in Nat, Wrap(m, s, offset)
    PROVE  RewindInv'
<1>1. PICK i \in Slot : sends' = [sends EXCEPT ![m] = @ \cup
          {[slot |-> i, spot |-> s, offset |-> offset, epoch |-> Epoch(m, s), since |-> "nothing"]}]
  BY DEF Wrap
<1> DEFINE new == [slot |-> i, spot |-> s, offset |-> offset, epoch |-> Epoch(m, s), since |-> "nothing"]
<1>2. new.since = "nothing" /\ new.spot = s /\ new.epoch = Epoch(m, s)
  OBVIOUS
<1>3. \A k \in Member : sends'[k] = IF k = m THEN sends[k] \cup {new} ELSE sends[k]
  BY <1>1 DEF TypeOK
<1> HIDE DEF new
<1>4. ASSUME NEW k \in Member, NEW t \in Tasks(k)'
      PROVE  t \in Tasks(k) \/ (t.since = "nothing" /\ t.spot \in Spot /\ t.epoch = Epoch(k, t.spot))
  <2>1. t \in Tasks(k) \/ (k = m /\ t = new)
    BY <1>3 DEF Tasks, Wrap
  <2> QED
    BY <1>2, <2>1
<1> QED
  BY <1>4, RewindFrame DEF Wrap

(* A rewind is listed, or counted with the ones before it. *)
LEMMA RewindRelease ==
    ASSUME TypeOK, RewindInv, NEW m \in Member, NEW t \in sends[m], Release(m, t)
    PROVE  RewindInv'
<1> DEFINE s == t.spot
           count == rewound[m][s]
           list == rewinds[m][s]
           seen == Append(list, t.offset)
<1>1. t \in Task /\ s \in Spot /\ t.offset \in Nat
  BY DEF TypeOK, Task
<1>2. /\ count \in Nat /\ list \in Seq(Nat) /\ Len(list) \in Nat /\ DOMAIN list = 1..Len(list)
      /\ \A i \in DOMAIN list : list[i] \in Nat
  BY <1>1 DEF TypeOK
<1>3. /\ seen \in Seq(Nat) /\ Len(seen) = Len(list) + 1 /\ DOMAIN seen = 1..(Len(list) + 1)
      /\ seen[Len(list) + 1] = t.offset /\ \A i \in DOMAIN list : seen[i] = list[i]
  BY <1>1, <1>2
<1>4. \/ /\ rewinds' = [rewinds EXCEPT ![m][s] = <<>>]
         /\ rewound' = [rewound EXCEPT ![m][s] = @ + Len(seen)]
      \/ rewinds' = [rewinds EXCEPT ![m][s] = seen] /\ rewound' = rewound
  BY DEF Release
<1>5. /\ sends' = [sends EXCEPT ![m] = MarkRewound(@ \ {t}, t)]
      /\ finished' = [finished EXCEPT ![m] = MarkRewound(@, t)]
  BY DEF Release
<1>6. ASSUME NEW k \in Member, NEW u \in Spot, ~(k = m /\ u = s)
      PROVE  rewinds'[k][u] = rewinds[k][u] /\ rewound'[k][u] = rewound[k][u]
  <2> HIDE DEF list, seen
  <2>1. CASE k # m
    BY <1>4, <2>1 DEF TypeOK
  <2>2. CASE k = m
    BY <1>1, <1>4, <1>6, <2>2 DEF TypeOK
  <2> QED
    BY <2>1, <2>2
<1>7. \/ rewinds'[m][s] = <<>> /\ rewound'[m][s] = count + Len(list) + 1
      \/ rewinds'[m][s] = seen /\ rewound'[m][s] = count
  <2>1. CASE rewinds' = [rewinds EXCEPT ![m][s] = <<>>] /\ rewound' = [rewound EXCEPT ![m][s] = @ + Len(seen)]
    <3>1. rewinds'[m][s] = <<>> /\ rewound'[m][s] = count + Len(seen)
      BY <1>1, <2>1 DEF TypeOK
    <3> QED
      BY <1>2, <1>3, <3>1
  <2>2. CASE rewinds' = [rewinds EXCEPT ![m][s] = seen] /\ rewound' = rewound
    BY <1>1, <2>2 DEF TypeOK
  <2> QED
    BY <1>4, <2>1, <2>2
<1> SUFFICES ASSUME NEW k \in Member, NEW u \in Tasks(k)' PROVE Sound(k, u)'
  BY DEF RewindInv
<1>8. CASE k # m
  <2>1. u \in Tasks(k)
    BY <1>5, <1>8 DEF TypeOK, Tasks
  <2>2. u.spot \in Spot /\ Sound(k, u)
    BY <2>1 DEF RewindInv, TypeOK, Task, Tasks
  <2> QED
    BY <1>6, <1>8, <2>2 DEF Sound, Refused, Epoch
<1>9. CASE k = m
  <2>1. u \in MarkRewound(sends[m] \ {t}, t) \cup MarkRewound(finished[m], t)
    BY <1>5, <1>9 DEF TypeOK, Tasks
  <2>2. PICK w \in Tasks(m) : u = IF Reached(w, t) THEN [w EXCEPT !.since = "rewound"] ELSE w
    BY <2>1 DEF MarkRewound, Tasks
  <2>3. w \in Task /\ Sound(m, w)
    BY DEF RewindInv, TypeOK, Tasks
  <2>4. /\ w.spot \in Spot /\ w.epoch \in Nat /\ w.offset \in Nat
        /\ u.spot = w.spot /\ u.epoch = w.epoch /\ u.offset = w.offset
        /\ Reached(w, t) => u.since = "rewound"
        /\ ~Reached(w, t) => u = w
    BY <2>2, <2>3 DEF Task
  <2>5. CASE w.spot # s
    <3>1. u = w
      BY <2>4, <2>5 DEF Reached
    <3> QED
      BY <1>6, <1>9, <2>3, <2>4, <2>5, <3>1 DEF Sound, Refused, Epoch
  <2>6. CASE w.spot = s
    <3> DEFINE count2 == rewound'[m][s]
               list2 == rewinds'[m][s]
    <3>1. w.since # "forgotten" => w.epoch <= count + Len(list)
      BY <2>3, <2>6 DEF Sound, Epoch
    <3>2. w.since = "rewound" => \/ w.epoch < count
                                 \/ \E i \in DOMAIN list : i > w.epoch - count /\ list[i] <= w.offset
      BY <2>3, <2>6 DEF Sound, Refused
    <3>3. Reached(w, t) => w.since # "forgotten" /\ w.offset >= t.offset
      BY DEF Reached
    <3>4. /\ u.since # "forgotten" => w.since # "forgotten"
          /\ u.since = "rewound" => Reached(w, t) \/ w.since = "rewound"
      BY <2>4, <3>3
    <3>5. /\ Sound(k, u)' <=> /\ u.since # "forgotten" => u.epoch <= count2 + Len(list2)
                              /\ u.since = "rewound" =>
                                    \/ u.epoch < count2
                                    \/ \E i \in DOMAIN list2 : i > u.epoch - count2 /\ list2[i] <= u.offset
      BY <1>9, <2>4, <2>6 DEF Sound, Refused, Epoch
    <3>6. CASE list2 = <<>> /\ count2 = count + Len(list) + 1
      <4>1. Len(list2) = 0
        BY <3>6
      <4> HIDE DEF s, count, list, seen, count2, list2
      <4>2. w.since # "forgotten" => w.epoch < count2
        BY <1>2, <2>4, <3>1, <3>6
      <4> QED
        BY <1>2, <2>4, <3>3, <3>4, <3>5, <3>6, <4>1, <4>2
    <3>7. CASE list2 = seen /\ count2 = count
      <4> HIDE DEF s, count, list, seen, count2, list2
      <4>1. u.since # "forgotten" => u.epoch <= count2 + Len(list2)
        BY <1>2, <1>3, <2>4, <3>1, <3>4, <3>7
      <4>2. ASSUME Reached(w, t) PROVE \E i \in DOMAIN list2 : i > u.epoch - count2 /\ list2[i] <= u.offset
        <5>1. Len(list) + 1 \in DOMAIN list2 /\ list2[Len(list) + 1] = t.offset
          BY <1>2, <1>3, <3>7
        <5>2. Len(list) + 1 > u.epoch - count2 /\ t.offset <= u.offset
          BY <1>1, <1>2, <2>4, <3>1, <3>3, <3>7, <4>2
        <5> QED
          BY <5>1, <5>2
      <4>3. ASSUME w.since = "rewound"
            PROVE  \/ u.epoch < count2
                   \/ \E i \in DOMAIN list2 : i > u.epoch - count2 /\ list2[i] <= u.offset
        <5>1. CASE w.epoch < count
          BY <2>4, <3>7, <5>1
        <5>2. ASSUME NEW i \in DOMAIN list, i > w.epoch - count, list[i] <= w.offset
              PROVE  i \in DOMAIN list2 /\ i > u.epoch - count2 /\ list2[i] <= u.offset
          BY <1>2, <1>3, <2>4, <3>7, <5>2
        <5> QED
          BY <3>2, <4>3, <5>1, <5>2
      <4> QED
        BY <3>4, <3>5, <4>1, <4>2, <4>3
    <3> QED
      BY <1>7, <3>6, <3>7
  <2> QED
    BY <2>5, <2>6
<1> QED
  BY <1>8, <1>9

(* What is forgotten is no longer judged; the rest is as it was. *)
LEMMA RewindForget ==
    ASSUME TypeOK, RewindInv, NEW m \in Member, NEW t \in Task, Forget(m, t)
    PROVE  RewindInv'
<1>1. t.spot \in Spot
  BY DEF Task
<1>2. \A k \in Member, u \in Spot : ~(k = m /\ u = t.spot) =>
          rewinds'[k][u] = rewinds[k][u] /\ rewound'[k][u] = rewound[k][u]
  BY <1>1 DEF TypeOK, Forget
<1>3. /\ sends' = [sends EXCEPT ![m] = Forgotten(@ \ {t}, t.spot)]
      /\ finished' = [finished EXCEPT ![m] = Forgotten(@ \ {t}, t.spot)]
  BY DEF Forget
<1> SUFFICES ASSUME NEW k \in Member, NEW u \in Tasks(k)' PROVE Sound(k, u)'
  BY DEF RewindInv
<1>4. CASE k # m
  <2>1. u \in Tasks(k)
    BY <1>3, <1>4 DEF TypeOK, Tasks
  <2>2. u.spot \in Spot /\ Sound(k, u)
    BY <2>1 DEF RewindInv, TypeOK, Task, Tasks
  <2> QED
    BY <1>2, <1>4, <2>2 DEF Sound, Refused, Epoch
<1>5. CASE k = m
  <2>1. u \in Forgotten(sends[m] \ {t}, t.spot) \cup Forgotten(finished[m] \ {t}, t.spot)
    BY <1>3, <1>5 DEF TypeOK, Tasks
  <2>2. PICK w \in Tasks(m) : u = IF w.spot = t.spot THEN [w EXCEPT !.since = "forgotten"] ELSE w
    BY <2>1 DEF Forgotten, Tasks
  <2>3. w \in Task /\ Sound(m, w)
    BY DEF RewindInv, TypeOK, Tasks
  <2>4. CASE w.spot = t.spot
    <3>1. u.since = "forgotten"
      BY <2>2, <2>3, <2>4 DEF Task
    <3> QED
      BY <3>1 DEF Sound
  <2>5. CASE w.spot # t.spot
    <3>1. u = w /\ w.spot \in Spot
      BY <2>2, <2>3, <2>5 DEF Task
    <3> QED
      BY <1>2, <1>5, <2>3, <2>5, <3>1 DEF Sound, Refused, Epoch
  <2> QED
    BY <2>4, <2>5
<1> QED
  BY <1>4, <1>5


LEMMA RewindNext == TypeOK /\ RewindInv /\ [Next]_vars => RewindInv'
<1> SUFFICES ASSUME TypeOK, RewindInv, [Next]_vars PROVE RewindInv'
  OBVIOUS
<1> USE DEF group, books, client, loop, history, bounds
<1>1. ASSUME UNCHANGED <<rewinds, rewound>>, \A k \in Member : Tasks(k)' \subseteq Tasks(k) PROVE RewindInv'
  BY <1>1, RewindFrame
<1>2. CASE UNCHANGED <<rewinds, rewound, sends, finished>>
  BY <1>1, <1>2 DEF Tasks
<1>3. ASSUME NEW m \in Member, Crash(m) PROVE RewindInv'
  <2>1. \A k \in Member : k # m => rewinds'[k] = rewinds[k] /\ rewound'[k] = rewound[k] /\ Tasks(k)' = Tasks(k)
    BY <1>3 DEF Crash, TypeOK, Tasks
  <2>2. Tasks(m)' = {}
    BY <1>3 DEF Crash, TypeOK, Tasks
  <2>3. ASSUME NEW k \in Member, NEW t \in Tasks(k)' PROVE Sound(k, t)'
    <3>1. k # m /\ t \in Tasks(k) /\ rewinds'[k] = rewinds[k] /\ rewound'[k] = rewound[k]
      BY <2>1, <2>2
    <3>2. Sound(k, t)
      BY <3>1 DEF RewindInv
    <3> QED
      BY <3>1, <3>2 DEF Sound, Refused, Epoch
  <2> QED
    BY <2>3 DEF RewindInv
<1>4. ASSUME NEW m \in Member, TakeHeld(m) PROVE RewindInv'
  <2>1. PICK i \in DOMAIN Kept(m) : Wrap(m, Kept(m)[i][1], Kept(m)[i][2])
    BY <1>4 DEF TakeHeld
  <2>2. Kept(m)[i] \in Spot \X Nat
    BY KeptType
  <2>3. Kept(m)[i][1] \in Spot /\ Kept(m)[i][2] \in Nat
    BY <2>2
  <2> QED
    BY <2>1, <2>3, RewindWrap
<1>5. ASSUME NEW m \in Member, Join(m) PROVE RewindInv'
  <2>1. UNCHANGED <<books, loop>> \/ \E s \in Spot : Wrap(m, s, committed[s])
    BY <1>5 DEF Join
  <2>2. ASSUME NEW s \in Spot, Wrap(m, s, committed[s]) PROVE RewindInv'
    <3>1. committed[s] \in Nat
      BY DEF TypeOK
    <3> QED
      BY <2>2, <3>1, RewindWrap
  <2> QED
    BY <1>2, <2>1, <2>2
<1>6. ASSUME NEW m \in Member, Poll(m) PROVE RewindInv'
  <2>1. PICK s \in Spot : Wrap(m, s, position[m][s])
    BY <1>6 DEF Poll, Paced
  <2>2. position[m][s] \in Nat
    BY DEF TypeOK
  <2> QED
    BY <2>1, <2>2, RewindWrap
<1>7. ASSUME NEW m \in Member, NEW t \in sends[m], Answer(m, t) \/ Refuse(m, t) PROVE RewindInv'
  <2>1. /\ UNCHANGED <<rewinds, rewound>>
        /\ sends' = [sends EXCEPT ![m] = @ \ {t}]
        /\ finished' = finished \/ finished' = [finished EXCEPT ![m] = @ \cup {t}]
    BY <1>7 DEF Answer, Refuse
  <2>2. ASSUME NEW k \in Member PROVE Tasks(k)' \subseteq Tasks(k)
    <3>1. CASE k = m
      BY <2>1, <3>1 DEF TypeOK, Tasks
    <3>2. CASE k # m
      BY <2>1, <3>2 DEF TypeOK, Tasks
    <3> QED
      BY <3>1, <3>2
  <2> QED
    BY <1>1, <2>1, <2>2
<1>8. ASSUME NEW m \in Member, NEW t \in sends[m], ReleaseFails(m, t) PROVE RewindInv'
  <2>1. t \in Task
    BY DEF TypeOK
  <2>2. CASE Forget(m, t)
    BY <2>1, <2>2, RewindForget
  <2>3. CASE sends' = [sends EXCEPT ![m] = @ \ {t}] /\ UNCHANGED <<books, finished>>
    <3>1. \A k \in Member : Tasks(k)' \subseteq Tasks(k)
      BY <2>3 DEF TypeOK, Tasks
    <3> QED
      BY <1>1, <2>3, <3>1
  <2> QED
    BY <1>8, <2>2, <2>3 DEF ReleaseFails
<1>9. ASSUME NEW m \in Member, NEW t \in finished[m], Collected(m, t), UNCHANGED <<rewinds, rewound>> PROVE RewindInv'
  <2>1. \A k \in Member : Tasks(k)' \subseteq Tasks(k)
    BY <1>9 DEF Collected, TypeOK, Tasks
  <2> QED
    BY <1>1, <1>9, <2>1
<1>10. ASSUME NEW m \in Member, NEW t \in finished[m],
              AckStale(m, t) \/ AckWaits(m, t) \/ AckCommits(m, t) \/ AckRaises(m, t)
       PROVE  RewindInv'
  <2>1. Collected(m, t) /\ UNCHANGED <<rewinds, rewound>>
    BY <1>10 DEF AckStale, AckWaits, AckCommits, AckRaises, Booked
  <2> QED
    BY <1>9, <2>1
<1>11. ASSUME NEW m \in Member, NEW t \in finished[m], AckLost(m, t) PROVE RewindInv'
  <2>1. t \in Task
    BY DEF TypeOK
  <2> QED
    BY <1>11, <2>1, RewindForget DEF AckLost
<1>12. ASSUME NEW m \in Member, Restart(m) \/ Resubscribe(m) \/ TakeNothing(m) PROVE RewindInv'
  BY <1>2, <1>12 DEF Restart, Resubscribe, Replaced, TakeNothing, vars
<1>13. CASE Assign \/ Rebalance \/ (\E s \in Spot : Publish(s)) \/ UNCHANGED vars
  BY <1>2, <1>13 DEF Assign, Rebalance, Deal, Publish, vars
<1> QED
  BY <1>3, <1>4, <1>5, <1>6, <1>7, <1>8, <1>10, <1>11, <1>12, <1>13, RewindRelease DEF Next, Reading

(* An acknowledgement that collects a delivery a rewind reached changes     *)
(* neither the books nor the committed offset; nor does any other step take *)
(* such a delivery away, but a death of the process.                       *)
LEMMA RewoundIsRefused ==
    ASSUME TypeOK, RewindInv, [Next]_vars,
           NEW m \in up', NEW t \in finished[m] \ finished'[m], t.since = "rewound",
           \A u \in finished'[m] : u.slot # t.slot
    PROVE  UNCHANGED <<committed, unsettled, settled>>
<1> USE DEF group, books, client, loop, history, bounds
<1>1. m \in Member
  <2>1. up' \subseteq Member
    BY TypeNext DEF TypeOK
  <2> QED
    BY <2>1
<1>2. t \in Task /\ ~Settleable(m, t)
  <2>1. t \in Task /\ t \in Tasks(m)
    BY <1>1 DEF TypeOK, Tasks
  <2>2. Refused(m, t)
    BY <1>1, <2>1 DEF RewindInv, Sound
  <2> QED
    BY <1>1, <2>1, <2>2, RefusedSettlesNot
<1>3. CASE UNCHANGED finished
  BY <1>3
<1>4. ASSUME NEW k \in Member, Crash(k) PROVE FALSE
  <2>1. k # m
    BY <1>4 DEF Crash
  <2>2. finished'[m] = finished[m]
    BY <1>1, <1>4, <2>1 DEF Crash, TypeOK
  <2> QED
    BY <2>2
<1>5. ASSUME NEW k \in Member, NEW w \in sends[k], Answer(k, w) PROVE FALSE
  <2>1. finished[m] \subseteq finished'[m]
    BY <1>1, <1>5 DEF Answer, TypeOK
  <2> QED
    BY <2>1
<1>6. ASSUME NEW k \in Member, NEW w \in sends[k], Release(k, w) PROVE FALSE
  <2>1. finished' = [finished EXCEPT ![k] = MarkRewound(@, w)]
    BY <1>6 DEF Release
  <2>2. CASE k # m
    <3>1. finished'[m] = finished[m]
      BY <1>1, <2>1, <2>2 DEF TypeOK
    <3> QED
      BY <3>1
  <2>3. CASE k = m
    <3>1. finished'[m] = MarkRewound(finished[m], w)
      BY <1>1, <2>1, <2>3 DEF TypeOK
    <3>2. [t EXCEPT !.since = "rewound"] = t
      BY <1>2 DEF Task
    <3>3. t \in MarkRewound(finished[m], w)
      BY <3>2 DEF MarkRewound
    <3> QED
      BY <3>1, <3>3
  <2> QED
    BY <2>2, <2>3
<1>7. ASSUME NEW k \in Member, NEW w \in Task, Forget(k, w), Settleable(k, w) PROVE FALSE
  <2>1. finished' = [finished EXCEPT ![k] = Forgotten(@ \ {w}, w.spot)]
    BY <1>7 DEF Forget
  <2>2. CASE k # m
    <3>1. finished'[m] = finished[m]
      BY <1>1, <2>1, <2>2 DEF TypeOK
    <3> QED
      BY <3>1
  <2>3. CASE k = m
    <3>1. finished'[m] = Forgotten(finished[m] \ {w}, w.spot) /\ w # t
      BY <1>1, <1>2, <1>7, <2>1, <2>3 DEF TypeOK
    <3>2. PICK u \in finished'[m] : u = IF t.spot = w.spot THEN [t EXCEPT !.since = "forgotten"] ELSE t
      BY <3>1 DEF Forgotten
    <3>3. u.slot = t.slot
      BY <1>2, <3>2 DEF Task
    <3> QED
      BY <3>3
  <2> QED
    BY <2>2, <2>3
<1>8. ASSUME NEW k \in Member, NEW w \in sends[k], ReleaseFails(k, w) PROVE FALSE
  <2>1. w \in Task
    BY DEF TypeOK
  <2> QED
    BY <1>3, <1>7, <1>8, <2>1 DEF ReleaseFails
<1>9. ASSUME NEW k \in Member, NEW w \in finished[k], AckLost(k, w) PROVE FALSE
  <2>1. w \in Task
    BY DEF TypeOK
  <2> QED
    BY <1>7, <1>9, <2>1 DEF AckLost
<1>10. ASSUME NEW k \in Member, NEW w \in finished[k], Collected(k, w) PROVE w = t /\ k = m
  <2>1. finished' = [finished EXCEPT ![k] = @ \ {w}]
    BY <1>10 DEF Collected
  <2> QED
    BY <1>1, <2>1 DEF TypeOK
<1>11. ASSUME NEW k \in Member, NEW w \in finished[k],
              AckStale(k, w) \/ AckWaits(k, w) \/ AckCommits(k, w) \/ AckRaises(k, w)
       PROVE  UNCHANGED <<committed, unsettled, settled>>
  <2>1. w = t /\ k = m
    BY <1>10, <1>11 DEF AckStale, AckWaits, AckCommits, AckRaises
  <2>2. AckStale(k, w)
    BY <1>2, <1>11, <2>1 DEF AckWaits, AckCommits, AckRaises
  <2> QED
    BY <2>2 DEF AckStale
<1>12. ASSUME NEW k \in Member,
              \/ Restart(k) \/ Resubscribe(k) \/ TakeNothing(k) \/ TakeHeld(k) \/ Join(k) \/ Poll(k)
              \/ \E w \in sends[k] : Refuse(k, w)
       PROVE  UNCHANGED finished
  BY <1>12 DEF Restart, Resubscribe, Replaced, TakeNothing, TakeHeld, Join, Poll, Wrap, Refuse, vars
<1>13. CASE Assign \/ Rebalance \/ (\E s \in Spot : Publish(s)) \/ UNCHANGED vars
  BY <1>3, <1>13 DEF Assign, Rebalance, Deal, Publish, vars
<1> QED
  BY <1>3, <1>4, <1>5, <1>6, <1>8, <1>9, <1>11, <1>12, <1>13 DEF Next, Reading

(* What a handle may still do after a rewind that reached it: nothing, and  *)
(* for as long as the broker keeps the books of its partition.             *)
THEOREM RewindsAreFinal == Spec => RewoundSettlesNothing
<1>1. TypeOK /\ RewindInv /\ [Next]_vars =>
          [\A m \in up' : \A t \in finished[m] \ finished'[m] :
              t.since = "rewound" /\ (\A u \in finished'[m] : u.slot # t.slot) =>
                 UNCHANGED <<committed, unsettled, settled>>]_vars
  BY RewoundIsRefused
<1> QED
  BY <1>1, TypeInit, TypeNext, RewindInit, RewindNext, PTL DEF Spec, RewoundSettlesNothing


-----------------------------------------------------------------------------
(* With the producers *)

(* Whatever the threads that publish do, the group that reads takes its own *)
(* steps: what is proved of it holds of the queue from end to end.         *)
THEOREM QueueStepsAreGroupSteps == QueueSpec => Spec
<1>1. QueueInit => Init
  BY DEF QueueInit
<1>2. [QueueNext]_<<vars, publishers>> => [Next]_vars
  <2> SUFFICES ASSUME [QueueNext]_<<vars, publishers>> PROVE [Next]_vars
    OBVIOUS
  <2>1. ASSUME NEW r \in P!Record, Publish(TopicOf[r[1]]) PROVE Next
    <3>1. r[1] \in Caller
      BY DEF P!Record
    <3>2. TopicOf[r[1]] \in Spot
      BY <3>1, KafkaQueueAssumption
    <3> QED
      BY <2>1, <3>2 DEF Next
  <2>2. CASE UNCHANGED vars
    BY <2>2
  <2>3. CASE Reading
    BY <2>3 DEF Next
  <2> QED
    BY <2>1, <2>2, <2>3 DEF QueueNext
<1> QED
  BY <1>1, <1>2, PTL DEF QueueSpec, Spec

-----------------------------------------------------------------------------
(* Publishing *)

(* The payloads of the batch that were given to librdkafka, the one about   *)
(* to be counted among them; what was not is nowhere.  A record that was    *)
(* answered for is on the broker, or its batch knows of a failure; and a    *)
(* publish that reported neither heard of every record it had given.       *)
Given(c) == queued[c] + IF pc[c] = "counting" THEN 1 ELSE 0
Sums(c) == outstanding[c] = Cardinality(P!Unheard(c)) - (IF pc[c] = "counting" THEN 1 ELSE 0)
Accounts(c) ==
    /\ Given(c) <= size[c]
    /\ pc[c] \in {"returned", "unqueued"} => outstanding[c] = 0 /\ c \notin failures
    /\ pc[c] = "returned" => queued[c] = size[c]
Known(r) ==
    /\ record[r] = "unsent" <=> r[2] > Given(r[1])
    /\ record[r] = "unsent" => r \notin logged
    /\ record[r] = "landed" => r \in logged
    /\ record[r] = "heard" => r \in logged \/ r[1] \in failures
PublishInv ==
    /\ P!TypeOK
    /\ \A c \in Caller : Accounts(c) /\ Sums(c)
    /\ \A r \in P!Record : Known(r)

(* The operator of KafkaProducer is the one the theorems of finite sets are *)
(* about.                                                                    *)
LEMMA SameCardinality == \A S : P!Cardinality(S) = Cardinality(S)
BY DEF P!Cardinality, Cardinality

(* A batch is finite, and so is what is unheard of it. *)
LEMMA BatchFinite ==
    ASSUME P!TypeOK, NEW c \in Caller
    PROVE  /\ size[c] \in Nat /\ P!Batch(c) \subseteq P!Record
           /\ IsFiniteSet(P!Batch(c)) /\ IsFiniteSet(P!Unheard(c))
           /\ Cardinality(P!Unheard(c)) \in Nat
<1>1. size[c] \in Nat /\ size[c] <= Largest
  BY KafkaQueueAssumption DEF P!TypeOK
<1>2. P!Batch(c) = {<<c, i>> : i \in 1..size[c]}
  BY <1>1, KafkaQueueAssumption DEF P!Batch, P!Record
<1>3. IsFiniteSet(P!Batch(c))
  <2> DEFINE f == [i \in 1..size[c] |-> <<c, i>>]
  <2>1. f \in Surjection(1..size[c], P!Batch(c))
    BY <1>2 DEF Surjection
  <2>2. IsFiniteSet(1..size[c])
    BY <1>1, FS_Interval
  <2> QED
    BY <2>1, <2>2, FS_Surjection
<1>4. IsFiniteSet(P!Unheard(c)) /\ Cardinality(P!Unheard(c)) \in Nat
  BY <1>3, FS_Subset, FS_CardinalityType DEF P!Unheard
<1> QED
  BY <1>1, <1>3, <1>4 DEF P!Batch

(* What is true of the publishers gives what their callers are told. *)
LEMMA InvConfirms == PublishInv => P!Confirmed
<1> SUFFICES ASSUME PublishInv, NEW c \in Caller
             PROVE  /\ pc[c] = "returned" => P!Batch(c) \subseteq logged
                    /\ pc[c] = "unqueued" =>
                          P!Batch(c) \cap logged = {r \in P!Batch(c) : r[2] <= queued[c]}
                    /\ Sums(c)
  BY SameCardinality DEF P!Confirmed, Sums
<1>1. P!TypeOK /\ Accounts(c) /\ Sums(c) /\ \A r \in P!Record : Known(r)
  BY DEF PublishInv
<1>2. ASSUME pc[c] \in {"returned", "unqueued"}, NEW r \in P!Batch(c)
      PROVE  IF r[2] <= queued[c] THEN r \in logged ELSE r \notin logged
  <2>1. Cardinality(P!Unheard(c)) = 0
    BY <1>1, <1>2, BatchFinite DEF Accounts, Sums
  <2>2. P!Unheard(c) = {}
    BY <1>1, <2>1, BatchFinite, FS_EmptySet
  <2>3. r \in P!Record /\ r[1] = c /\ r[2] \in Nat /\ queued[c] \in Nat /\ Given(c) = queued[c]
    BY <1>1, <1>2, KafkaQueueAssumption DEF P!Batch, P!Record, P!TypeOK, Given
  <2>4. record[r] \notin {"local", "landed", "failed"}
    BY <1>2, <2>2 DEF P!Unheard, P!Due
  <2>5. record[r] \in {"unsent", "heard"}
    BY <1>1, <2>3, <2>4 DEF P!TypeOK, P!Due
  <2>6. c \notin failures /\ Known(r)
    BY <1>1, <1>2, <2>3 DEF Accounts
  <2> QED
    BY <2>3, <2>5, <2>6 DEF Known
<1>3. pc[c] = "returned" => P!Batch(c) \subseteq logged
  <2>1. ASSUME pc[c] = "returned", NEW r \in P!Batch(c) PROVE r[2] <= queued[c]
    BY <1>1, <2>1 DEF Accounts, P!Batch
  <2> QED
    BY <1>2, <2>1
<1> QED
  BY <1>1, <1>2, <1>3

(* The callbacks that a poll or a flush serves, each of a record the client *)
(* library is done with: the counts of all batches follow.                 *)
LEMMA ServesKeeps ==
    ASSUME PublishInv, NEW c \in Caller,
           NEW served \in SUBSET {r \in P!Record : record[r] \in P!Due}, P!Serves(c, served),
           size' = size, queued' = queued, logged' = logged,
           \A d \in Caller : pc'[d] = pc[d] \/ (pc[d] = "idle" /\ pc'[d] = "queueing")
    PROVE  /\ record' \in [P!Record -> {"unsent", "local", "heard"} \cup P!Due]
           /\ outstanding' \in [Caller -> Int] /\ failures' \subseteq Caller
           /\ \A d \in Caller : Accounts(d)' /\ Sums(d)'
           /\ \A r \in P!Record : Known(r)'
<1>1. /\ P!TypeOK /\ (\A d \in Caller : Accounts(d) /\ Sums(d))
      /\ (\A r \in P!Record : Known(r))
  BY DEF PublishInv
<1>2. /\ record' = [r \in P!Record |-> IF r \in served THEN "heard" ELSE record[r]]
      /\ outstanding' = [d \in Caller |-> outstanding[d] - Cardinality(served \cap P!Batch(d))]
      /\ failures' = failures \cup {r[1] : r \in {x \in served : record[x] = "failed"}}
  BY SameCardinality DEF P!Serves, P!Counted
<1>3. \A r \in P!Record :
          r[1] \in Caller /\ r[2] \in Nat /\ (r \in P!Batch(r[1]) <=> r[2] <= size[r[1]])
  BY KafkaQueueAssumption DEF P!Record, P!Batch
<1>4. \A d \in Caller : Given(d)' = Given(d) /\ P!Batch(d)' = P!Batch(d) /\ Given(d) \in Nat /\ size[d] \in Nat
  BY <1>1, KafkaQueueAssumption DEF Given, P!Batch, P!TypeOK

<1>5. ASSUME NEW d \in Caller
      PROVE  /\ served \cap P!Batch(d) = served \cap P!Unheard(d)
             /\ P!Unheard(d)' = P!Unheard(d) \ served
             /\ Cardinality(P!Unheard(d)') =
                   Cardinality(P!Unheard(d)) - Cardinality(served \cap P!Batch(d))
             /\ Cardinality(served \cap P!Batch(d)) \in Nat
  <2>1. served \cap P!Batch(d) = served \cap P!Unheard(d)
    BY DEF P!Unheard
  <2>2. P!Unheard(d)' = P!Unheard(d) \ served
    BY <1>2, <1>4 DEF P!Unheard, P!Batch, P!Due
  <2>3. IsFiniteSet(P!Unheard(d)) /\ served \cap P!Unheard(d) = P!Unheard(d) \cap served
    BY <1>1, BatchFinite
  <2>4. Cardinality(P!Unheard(d) \ served) =
           Cardinality(P!Unheard(d)) - Cardinality(P!Unheard(d) \cap served)
    BY <2>3, FS_Difference
  <2>5. Cardinality(P!Unheard(d) \cap served) \in Nat
    BY <2>3, FS_Subset, FS_CardinalityType
  <2> QED
    BY <2>1, <2>2, <2>3, <2>4, <2>5
<1>6. /\ record' \in [P!Record -> {"unsent", "local", "heard"} \cup P!Due]
      /\ outstanding' \in [Caller -> Int] /\ failures' \subseteq Caller
  <2>1. record' \in [P!Record -> {"unsent", "local", "heard"} \cup P!Due]
    BY <1>1, <1>2 DEF P!TypeOK
  <2>2. outstanding' \in [Caller -> Int]
    <3>1. \A d \in Caller : Cardinality(served \cap P!Batch(d)) \in Nat
      BY <1>5
    <3>2. \A d \in Caller : outstanding[d] \in Int
      BY <1>1 DEF P!TypeOK
    <3>3. \A d \in Caller : outstanding[d] - Cardinality(served \cap P!Batch(d)) \in Int
      BY <3>1, <3>2
    <3> QED
      BY <1>2, <3>3
  <2>3. failures' \subseteq Caller
    BY <1>1, <1>2, <1>3 DEF P!TypeOK
  <2> QED
    BY <2>1, <2>2, <2>3
<1>7. ASSUME NEW d \in Caller PROVE Sums(d)'
  <2>1. Sums(d) /\ outstanding'[d] = outstanding[d] - Cardinality(served \cap P!Batch(d))
    BY <1>1, <1>2
  <2>2. Cardinality(P!Unheard(d)) \in Nat /\ outstanding[d] \in Int
    BY <1>1, BatchFinite DEF P!TypeOK
  <2>3. pc'[d] = "counting" <=> pc[d] = "counting"
    OBVIOUS
  <2> QED
    BY <1>5, <2>1, <2>2, <2>3 DEF Sums
<1>8. ASSUME NEW d \in Caller PROVE Accounts(d)'
  <2>1. Accounts(d) /\ Sums(d)
    BY <1>1
  <2>2. ASSUME pc[d] \in {"returned", "unqueued"} PROVE outstanding'[d] = 0 /\ d \notin failures'
    <3>1. Cardinality(P!Unheard(d)) = 0
      BY <1>1, <2>1, <2>2, BatchFinite DEF Accounts, Sums
    <3>2. P!Unheard(d) = {}
      BY <1>1, <3>1, BatchFinite, FS_EmptySet
    <3>3. outstanding'[d] = 0
      BY <1>2, <1>5, <2>1, <2>2, <3>2, FS_EmptySet DEF Accounts
    <3>4. ASSUME NEW x \in served, x[1] = d PROVE FALSE
      <4>1. x \in P!Record /\ record[x] \in P!Due /\ Known(x)
        BY <1>1
      <4>2. x[2] <= Given(d)
        BY <1>3, <1>4, <3>4, <4>1 DEF Known, P!Due
      <4>3. x \in P!Batch(d)
        BY <1>3, <1>4, <2>1, <3>4, <4>1, <4>2 DEF Accounts
      <4> QED
        BY <3>2, <4>1, <4>3 DEF P!Unheard
    <3> QED
      BY <1>2, <2>1, <2>2, <3>3, <3>4 DEF Accounts
  <2> QED
    BY <1>4, <2>1, <2>2 DEF Accounts
<1>9. ASSUME NEW r \in P!Record PROVE Known(r)'
  <2>1. Known(r) /\ Given(r[1])' = Given(r[1]) /\ r[2] \in Nat /\ Given(r[1]) \in Nat
    BY <1>1, <1>3, <1>4
  <2>2. CASE r \in served
    <3>1. record'[r] = "heard" /\ record[r] \in {"landed", "failed"}
      BY <1>2, <2>2 DEF P!Due
    <3>2. record[r] = "failed" => r[1] \in failures'
      BY <1>2, <2>2
    <3> QED
      BY <2>1, <3>1, <3>2 DEF Known
  <2>3. CASE r \notin served
    BY <1>2, <2>1, <2>3 DEF Known
  <2> QED
    BY <2>2, <2>3
<1> QED
  BY <1>6, <1>7, <1>8, <1>9


(* Steps that serve no callback and give librdkafka nothing: the places of  *)
(* records change within what is unheard, if at all.                        *)
LEMMA QuietKeeps ==
    ASSUME PublishInv, P!TypeOK',
           size' = size, queued' = queued, outstanding' = outstanding, failures' = failures,
           logged \subseteq logged',
           \A r \in P!Record : record[r] = "unsent" => r \notin logged',
           \A d \in Caller : pc'[d] = "counting" <=> pc[d] = "counting",
           \A d \in Caller : pc'[d] \in {"returned", "unqueued"} =>
               outstanding[d] = 0 /\ d \notin failures /\ (pc'[d] = "returned" => queued[d] = size[d]),
           \A r \in P!Record : record'[r] = record[r] \/
               /\ {record[r], record'[r]} \subseteq {"local"} \cup P!Due
               /\ record'[r] = "landed" => r \in logged'
    PROVE  PublishInv'
<1>1. /\ P!TypeOK /\ (\A d \in Caller : Accounts(d) /\ Sums(d))
      /\ (\A r \in P!Record : Known(r))
  BY DEF PublishInv
<1>2. \A d \in Caller : Given(d)' = Given(d) /\ P!Batch(d)' = P!Batch(d)
  BY DEF Given, P!Batch
<1>3. ASSUME NEW d \in Caller PROVE P!Unheard(d)' = P!Unheard(d)
  BY <1>2 DEF P!Unheard, P!Batch
<1>4. ASSUME NEW d \in Caller PROVE Accounts(d)' /\ Sums(d)'
  <2>1. Sums(d)'
    BY <1>1, <1>3 DEF Sums
  <2>2. Accounts(d)'
    BY <1>1, <1>2 DEF Accounts
  <2> QED
    BY <2>1, <2>2
<1>5. ASSUME NEW r \in P!Record PROVE Known(r)'
  <2>1. Known(r) /\ Given(r[1])' = Given(r[1])
    BY <1>1, <1>2, KafkaQueueAssumption DEF P!Record
  <2>2. CASE record'[r] = record[r]
    BY <2>1, <2>2 DEF Known
  <2>3. CASE {record[r], record'[r]} \subseteq {"local"} \cup P!Due /\ (record'[r] = "landed" => r \in logged')
    BY <2>1, <2>3 DEF Known, P!Due
  <2> QED
    BY <2>2, <2>3
<1> QED
  BY <1>4, <1>5 DEF PublishInv

(* A payload is given to librdkafka, which may call back before it is counted. *)
LEMMA ProduceKeeps ==
    ASSUME PublishInv, NEW c \in Caller, P!Produce(c)
    PROVE  PublishInv'
<1> DEFINE new == <<c, queued[c] + 1>>
<1>1. /\ P!TypeOK /\ (\A d \in Caller : Accounts(d) /\ Sums(d))
      /\ (\A r \in P!Record : Known(r))
  BY DEF PublishInv
<1>2. /\ pc[c] = "queueing" /\ queued[c] < size[c]
      /\ record' = [record EXCEPT ![new] = "local"] /\ pc' = [pc EXCEPT ![c] = "counting"]
      /\ UNCHANGED <<size, producer, built, using, queued, late, outstanding, failures, logged>>
  BY DEF P!Produce, P!Goes
<1>3. /\ queued[c] \in Nat /\ size[c] \in Nat /\ size[c] <= Largest
      /\ new \in P!Record /\ new \in P!Batch(c) /\ new[1] = c /\ new[2] = queued[c] + 1
  BY <1>1, <1>2, KafkaQueueAssumption DEF P!TypeOK, P!Record, P!Batch
<1>4. record[new] = "unsent"
  BY <1>1, <1>2, <1>3 DEF Known, Given
<1>5. P!TypeOK'
  BY <1>1, <1>2, <1>3 DEF P!TypeOK, P!Publishing
<1>6. Given(c) = queued[c] /\ Given(c)' = queued[c] + 1 /\ \A d \in Caller \ {c} : Given(d)' = Given(d)
  BY <1>1, <1>2, <1>3 DEF P!TypeOK, Given
<1>7. ASSUME NEW d \in Caller PROVE Accounts(d)'
  BY <1>1, <1>2, <1>3, <1>6 DEF Accounts, P!TypeOK
<1>8. ASSUME NEW d \in Caller PROVE Sums(d)'
  <2>1. CASE d # c
    <3>1. P!Unheard(d)' = P!Unheard(d) /\ pc'[d] = pc[d]
      BY <1>1, <1>2, <1>3, <2>1 DEF P!Unheard, P!Batch, P!TypeOK
    <3> QED
      BY <1>1, <1>2, <3>1 DEF Sums
  <2>2. CASE d = c
    <3>1. P!Unheard(c)' = P!Unheard(c) \cup {new} /\ new \notin P!Unheard(c)
      BY <1>1, <1>2, <1>3, <1>4 DEF P!Unheard, P!Batch, P!TypeOK, P!Due
    <3>2. Cardinality(P!Unheard(c)') = Cardinality(P!Unheard(c)) + 1
      BY <1>1, <3>1, BatchFinite, FS_AddElement
    <3>3. Cardinality(P!Unheard(c)) \in Nat /\ outstanding'[c] = Cardinality(P!Unheard(c))
      BY <1>1, <1>2, BatchFinite DEF Sums
    <3>4. pc'[c] = "counting"
      BY <1>1, <1>2 DEF P!TypeOK
    <3> QED
      BY <2>2, <3>2, <3>3, <3>4 DEF Sums
  <2> QED
    BY <2>1, <2>2
<1>9. ASSUME NEW r \in P!Record PROVE Known(r)'
  <2>1. r[1] \in Caller /\ r[2] \in Nat /\ r = <<r[1], r[2]>> /\ Known(r)
    BY <1>1, KafkaQueueAssumption DEF P!Record
  <2>2. CASE r = new
    BY <1>1, <1>2, <1>3, <1>6, <2>2 DEF Known, P!TypeOK
  <2>3. CASE r # new /\ r[1] = c
    <3>1. record'[r] = record[r] /\ r[2] # queued[c] + 1
      BY <1>1, <1>2, <2>1, <2>3 DEF P!TypeOK
    <3> QED
      BY <1>2, <1>3, <1>6, <2>1, <2>3, <3>1 DEF Known
  <2>4. CASE r[1] # c
    <3>1. record'[r] = record[r] /\ Given(r[1])' = Given(r[1])
      BY <1>1, <1>2, <1>3, <1>6, <2>1, <2>4 DEF P!TypeOK
    <3> QED
      BY <1>2, <2>1, <2>4, <3>1 DEF Known
  <2> QED
    BY <2>2, <2>3, <2>4
<1> QED
  BY <1>5, <1>7, <1>8, <1>9 DEF PublishInv


LEMMA CountKeeps ==
    ASSUME PublishInv, NEW c \in Caller, P!Count(c)
    PROVE  PublishInv'
<1>1. /\ P!TypeOK /\ (\A d \in Caller : Accounts(d) /\ Sums(d))
      /\ (\A r \in P!Record : Known(r))
  BY DEF PublishInv
<1>2. /\ pc[c] = "counting" /\ pc' = [pc EXCEPT ![c] = "queueing"]
      /\ queued' = [queued EXCEPT ![c] = @ + 1] /\ outstanding' = [outstanding EXCEPT ![c] = @ + 1]
      /\ UNCHANGED <<size, producer, built, using, late, record, failures, logged>>
  BY DEF P!Count, P!Goes
<1>3. P!TypeOK'
  BY <1>1, <1>2 DEF P!TypeOK, P!Publishing
<1>4. \A d \in Caller : Given(d)' = Given(d)
  BY <1>1, <1>2 DEF P!TypeOK, Given
<1>5. ASSUME NEW d \in Caller PROVE Accounts(d)' /\ Sums(d)'
  <2>1. P!Unheard(d)' = P!Unheard(d) /\ Cardinality(P!Unheard(d)) \in Nat
    BY <1>1, <1>2, BatchFinite DEF P!Unheard, P!Batch
  <2>2. CASE d = c
    <3>1. pc'[c] = "queueing" /\ outstanding[c] \in Int /\ outstanding'[c] = outstanding[c] + 1
      BY <1>1, <1>2 DEF P!TypeOK
    <3>2. Accounts(c)'
      BY <1>1, <1>2, <1>4, <3>1 DEF Accounts
    <3>3. Sums(c)'
      BY <1>1, <1>2, <2>1, <2>2, <3>1 DEF Sums
    <3> QED
      BY <2>2, <3>2, <3>3
  <2>3. CASE d # c
    <3>1. pc'[d] = pc[d] /\ outstanding'[d] = outstanding[d] /\ queued'[d] = queued[d]
      BY <1>1, <1>2, <2>3 DEF P!TypeOK
    <3>2. Accounts(d) /\ Sums(d)
      BY <1>1
    <3> QED
      BY <1>2, <1>4, <2>1, <3>1, <3>2 DEF Accounts, Sums
  <2> QED
    BY <2>2, <2>3
<1>6. ASSUME NEW r \in P!Record PROVE Known(r)'
  <2>1. r[1] \in Caller /\ Known(r)
    BY <1>1 DEF P!Record
  <2> QED
    BY <1>2, <1>4, <2>1 DEF Known
<1> QED
  BY <1>3, <1>5, <1>6 DEF PublishInv

LEMMA BeginKeeps ==
    ASSUME PublishInv, NEW c \in Caller, NEW changed \in BOOLEAN, P!Begin(c, changed)
    PROVE  PublishInv'
<1>1. P!TypeOK /\ \A d \in Caller : Accounts(d) /\ Sums(d)
  BY DEF PublishInv
<1>2. /\ pc[c] = "idle" /\ pc' = [pc EXCEPT ![c] = "queueing"]
      /\ UNCHANGED <<size, queued, late, logged>>
  BY DEF P!Begin, P!Goes
<1>3. /\ pc' \in [Caller -> {"idle"} \cup P!Publishing \cup P!Ended]
      /\ pc'[c] = "queueing" /\ \A d \in Caller \ {c} : pc'[d] = pc[d]
  BY <1>1, <1>2 DEF P!TypeOK, P!Publishing
<1>4. CASE /\ producer # 0 /\ ~changed /\ using' = [using EXCEPT ![c] = producer]
           /\ UNCHANGED <<producer, built, record, outstanding, failures>>
  <2>1. producer \in 0..MaxProducers
    BY <1>1, KafkaQueueAssumption DEF P!TypeOK
  <2>2. using' \in [Caller -> 0..MaxProducers]
    BY <1>1, <1>4, <2>1 DEF P!TypeOK
  <2>3. P!TypeOK'
    BY <1>1, <1>2, <1>3, <1>4, <2>2 DEF P!TypeOK
  <2>4. \A r \in P!Record : record[r] = "unsent" => r \notin logged
    BY DEF PublishInv, Known
  <2> QED
    BY <1>1, <1>2, <1>3, <1>4, <2>3, <2>4, QuietKeeps DEF Accounts
<1>5. CASE /\ ~(producer # 0 /\ ~changed)
           /\ built < MaxProducers /\ built' = built + 1 /\ producer' = built + 1
           /\ using' = [using EXCEPT ![c] = built + 1] /\ P!Drain(c, producer)
  <2>1. P!Serves(c, P!DueAt(producer)) /\ P!DueAt(producer) \in SUBSET {r \in P!Record : record[r] \in P!Due}
    BY <1>5 DEF P!Drain, P!DueAt
  <2>2. /\ record' \in [P!Record -> {"unsent", "local", "heard"} \cup P!Due]
        /\ outstanding' \in [Caller -> Int] /\ failures' \subseteq Caller
        /\ \A d \in Caller : Accounts(d)' /\ Sums(d)'
        /\ \A r \in P!Record : Known(r)'
    BY <1>2, <1>3, <2>1, ServesKeeps
  <2>3. /\ producer' \in 0..built' /\ built' \in 0..MaxProducers
        /\ using' \in [Caller -> 0..MaxProducers]
    BY <1>1, <1>5, KafkaQueueAssumption DEF P!TypeOK
  <2>4. P!TypeOK'
    BY <1>1, <1>2, <1>3, <2>2, <2>3 DEF P!TypeOK
  <2> QED
    BY <2>2, <2>4 DEF PublishInv
<1> QED
  BY <1>4, <1>5 DEF P!Begin

(* A poll serves one callback, closing the clients all that are due. *)
LEMMA CallbacksKeep ==
    ASSUME PublishInv, NEW c \in Caller, P!Poll(c) \/ P!CloseClients(c)
    PROVE  PublishInv'
<1>1. P!TypeOK
  BY DEF PublishInv
<1>2. /\ UNCHANGED <<size, built, pc, using, queued, late, logged>>
      /\ producer' \in {producer, 0}
  BY DEF P!Poll, P!CloseClients
<1>3. PICK served \in SUBSET {r \in P!Record : record[r] \in P!Due} : P!Serves(c, served)
  <2>1. ASSUME P!Poll(c) PROVE \E r \in P!Record : record[r] \in P!Due /\ P!Serves(c, {r})
    BY <2>1 DEF P!Poll, P!DueAt
  <2>2. ASSUME P!CloseClients(c)
        PROVE  /\ P!Serves(c, P!DueAt(producer))
               /\ P!DueAt(producer) \in SUBSET {r \in P!Record : record[r] \in P!Due}
    BY <2>2 DEF P!CloseClients, P!Drain, P!DueAt
  <2>3. ASSUME P!Poll(c)
        PROVE  \E served \in SUBSET {r \in P!Record : record[r] \in P!Due} : P!Serves(c, served)
    <3>1. PICK r \in P!Record : record[r] \in P!Due /\ P!Serves(c, {r})
      BY <2>1, <2>3
    <3>2. {r} \in SUBSET {x \in P!Record : record[x] \in P!Due}
      BY <3>1
    <3> QED
      BY <3>1, <3>2
  <2> QED
    BY <2>2, <2>3
<1>4. /\ record' \in [P!Record -> {"unsent", "local", "heard"} \cup P!Due]
      /\ outstanding' \in [Caller -> Int] /\ failures' \subseteq Caller
      /\ \A d \in Caller : Accounts(d)' /\ Sums(d)'
      /\ \A r \in P!Record : Known(r)'
  BY <1>2, <1>3, ServesKeeps
<1>5. P!TypeOK'
  BY <1>1, <1>2, <1>4 DEF P!TypeOK
<1> QED
  BY <1>4, <1>5 DEF PublishInv


LEMMA PublishInit == P!Init => PublishInv
<1> SUFFICES ASSUME P!Init PROVE PublishInv
  OBVIOUS
<1>1. /\ size \in Sizes /\ producer = 0 /\ built = 0
      /\ pc = [c \in Caller |-> "idle"] /\ using = [c \in Caller |-> 0]
      /\ queued = using /\ outstanding = using /\ late = {} /\ failures = {}
      /\ record = [r \in P!Record |-> "unsent"] /\ logged = {}
  BY DEF P!Init
<1>2. size \in [Caller -> 0..Largest]
  BY <1>1, KafkaQueueAssumption
<1>3. P!TypeOK
  <2>1. 0 \in 0..MaxProducers /\ producer \in 0..built
    BY <1>1, KafkaQueueAssumption
  <2>2. using \in [Caller -> 0..MaxProducers] /\ queued \in [Caller -> Nat] /\ outstanding \in [Caller -> Int]
    BY <1>1, <2>1
  <2> QED
    BY <1>1, <1>2, <2>1, <2>2 DEF P!TypeOK
<1>4. ASSUME NEW c \in Caller PROVE Accounts(c) /\ Sums(c)
  <2>1. P!Unheard(c) = {}
    BY <1>1 DEF P!Unheard, P!Batch, P!Due
  <2>2. Cardinality(P!Unheard(c)) = 0
    BY <2>1, FS_EmptySet
  <2>3. Sums(c)
    <3>1. outstanding[c] = 0 /\ pc[c] # "counting"
      BY <1>1
    <3>2. Cardinality(P!Unheard(c)) \in Int /\ outstanding[c] \in Int
      BY <2>2, <3>1
    <3>3. (IF pc[c] = "counting" THEN 1 ELSE 0) = 0
      BY <3>1
    <3>4. outstanding[c] = Cardinality(P!Unheard(c)) - 0
      BY <2>2, <3>1
    <3> QED
      BY <3>3, <3>4 DEF Sums
  <2>4. Accounts(c)
    <3>1. queued[c] = 0 /\ size[c] \in Nat
      BY <1>1, <1>2, KafkaQueueAssumption
    <3>2. pc[c] = "idle"
      BY <1>1
    <3> QED
      BY <3>1, <3>2 DEF Accounts, Given
  <2> QED
    BY <2>3, <2>4
<1>5. ASSUME NEW r \in P!Record PROVE Known(r)
  <2>1. r[1] \in Caller /\ r[2] \in 1..Largest
    BY DEF P!Record
  <2>2. Given(r[1]) = 0
    BY <1>1, <2>1 DEF Given
  <2> QED
    BY <1>1, <2>1, <2>2, KafkaQueueAssumption DEF Known
<1> QED
  BY <1>3, <1>4, <1>5 DEF PublishInv

LEMMA PublishNext ==
    ASSUME PublishInv, [QueueNext]_<<vars, publishers>>
    PROVE  PublishInv'
<1>1. P!TypeOK /\ (\A d \in Caller : Accounts(d)) /\ (\A r \in P!Record : Known(r))
  BY DEF PublishInv
<1>2. \A r \in P!Record : record[r] = "unsent" => r \notin logged
  BY <1>1 DEF Known
<1>3. CASE UNCHANGED publishers
  <2>1. UNCHANGED <<size, producer, built, pc, using, queued, late, record, outstanding, failures, logged>>
    BY <1>3 DEF publishers
  <2>2. P!TypeOK'
    BY <1>1, <2>1 DEF P!TypeOK
  <2> QED
    BY <1>1, <1>2, <2>1, <2>2, QuietKeeps DEF Accounts
<1>4. ASSUME NEW r \in P!Record, P!Lands(r) PROVE PublishInv'
  <2>1. /\ record[r] = "local" /\ record' = [record EXCEPT ![r] = "landed"] /\ logged' = logged \cup {r}
        /\ UNCHANGED <<size, producer, built, pc, using, queued, late, outstanding, failures>>
    BY <1>4 DEF P!Lands
  <2>2. P!TypeOK'
    BY <1>1, <2>1 DEF P!TypeOK, P!Due
  <2>3. \A x \in P!Record : record'[x] = record[x] \/ (x = r /\ record'[x] = "landed")
    BY <1>1, <2>1 DEF P!TypeOK
  <2> QED
    BY <1>1, <1>2, <2>1, <2>2, <2>3, QuietKeeps DEF Accounts, P!Due
<1>5. ASSUME NEW r \in P!Record, P!Fails(r) PROVE PublishInv'
  <2>1. /\ record[r] \in {"local", "landed"} /\ record' = [record EXCEPT ![r] = "failed"]
        /\ UNCHANGED <<size, producer, built, pc, using, queued, late, outstanding, failures, logged>>
    BY <1>5 DEF P!Fails
  <2>2. P!TypeOK'
    BY <1>1, <2>1 DEF P!TypeOK, P!Due
  <2>3. \A x \in P!Record : record'[x] = record[x] \/ (x = r /\ record'[x] = "failed")
    BY <1>1, <2>1 DEF P!TypeOK
  <2> QED
    BY <1>1, <1>2, <2>1, <2>2, <2>3, QuietKeeps DEF Accounts, P!Due
<1>6. ASSUME NEW c \in Caller, P!Queued(c) \/ P!Late(c) PROVE PublishInv'
  <2>1. /\ (pc' = [pc EXCEPT ![c] = "waiting"] /\ pc[c] = "queueing") \/ pc' = pc
        /\ late' \subseteq late \cup {c}
        /\ UNCHANGED <<size, producer, built, using, queued, record, outstanding, failures, logged>>
    BY <1>6 DEF P!Queued, P!Late, P!Goes
  <2>2. P!TypeOK'
    BY <1>1, <2>1 DEF P!TypeOK, P!Publishing
  <2>3. \A d \in Caller : pc'[d] = pc[d] \/ (pc[d] = "queueing" /\ pc'[d] = "waiting")
    BY <1>1, <2>1 DEF P!TypeOK
  <2> QED
    BY <1>1, <1>2, <2>1, <2>2, <2>3, QuietKeeps DEF Accounts
<1>7. ASSUME NEW c \in Caller, P!Ends(c) PROVE PublishInv'
  <2>1. /\ pc[c] = "waiting" /\ pc' = [pc EXCEPT ![c] = P!Verdict(c)]
        /\ UNCHANGED <<size, producer, built, using, queued, late, record, outstanding, failures, logged>>
    BY <1>7 DEF P!Ends, P!Goes
  <2>2. /\ P!Verdict(c) \in P!Ended
        /\ P!Verdict(c) \in {"returned", "unqueued"} => outstanding[c] = 0 /\ c \notin failures
        /\ P!Verdict(c) = "returned" => queued[c] >= size[c]
    BY KafkaQueueAssumption, <1>1 DEF P!Verdict, P!Ended, P!TypeOK
  <2>3. P!TypeOK'
    BY <1>1, <2>1, <2>2 DEF P!TypeOK
  <2>4. P!Verdict(c) = "returned" => queued[c] = size[c]
    <3>1. queued[c] <= size[c] /\ queued[c] \in Nat /\ size[c] \in Nat
      BY <1>1, <2>1, KafkaQueueAssumption DEF Accounts, Given, P!TypeOK
    <3> QED
      BY <2>2, <3>1
  <2>5. pc'[c] = P!Verdict(c) /\ \A d \in Caller \ {c} : pc'[d] = pc[d]
    BY <1>1, <2>1 DEF P!TypeOK
  <2>6. P!Verdict(c) # "counting"
    BY <2>2 DEF P!Ended
  <2> QED
    BY <1>1, <1>2, <2>1, <2>2, <2>3, <2>4, <2>5, <2>6, QuietKeeps DEF Accounts
<1>8. CASE P!Local
  BY <1>5, <1>6, <1>7, <1>8, BeginKeeps, ProduceKeeps, CountKeeps, CallbacksKeep DEF P!Local
<1> QED
  BY <1>3, <1>4, <1>8 DEF QueueNext

(* The safety half of PublishedIsSent: a publish that returns has its whole *)
(* batch on the broker, one that had no room has exactly the prefix it     *)
(* counted, and what was answered for is never reported as unanswered,     *)
(* whichever thread served the callbacks and however often the producer    *)
(* was replaced under it.                                                  *)
THEOREM PublishTellsTheTruth == QueueSpec => []P!Confirmed
<1>1. QueueInit => PublishInv
  BY PublishInit DEF QueueInit
<1>2. PublishInv /\ [QueueNext]_<<vars, publishers>> => PublishInv'
  BY PublishNext
<1> QED
  BY <1>1, <1>2, InvConfirms, PTL DEF QueueSpec

-----------------------------------------------------------------------------
(* The container *)

HIDE KafkaAssumption

(* A consumer is a number; none is no consumer. *)
LEMMA Consumers == None \notin Consumer /\ Consumer \subseteq Nat
  BY DEF None, Consumer


USE Consumers

(* The inductive invariant: the references have their types, and every     *)
(* consumer has a lane.                                                    *)
References ==
        /\ running \in [Lane -> Consumer \cup {None}] /\ ready \in [Lane -> Consumer \cup {None}]
        /\ stopped \subseteq Consumer /\ awaited \in Consumer \cup {None} /\ made \in 0..MaxConsumers
        /\ laneOf \in [Consumer -> Lane]
        /\ thread \in [Consumer -> {"none", "turning", "told", "gone"}]
        /\ sending \subseteq Consumer /\ owes \subseteq Consumer

(* Whom this run still holds a reference to. *)
Accounted(c) == (\E l \in Lane : running[l] = c) \/ awaited = c \/ c \in stopped
Waiting(c) == \E l \in Lane : ready[l] = c

(* What is running turns, what is ready was never started, each in its own *)
(* lane; and a thread that goes on is one this run still refers to.        *)
Places ==
    /\ \A l \in Lane : running[l] # None =>
          running[l] \in 1..made /\ laneOf[running[l]] = l /\ thread[running[l]] = "turning"
    /\ \A l \in Lane : ready[l] # None =>
          ready[l] \in 1..made /\ laneOf[ready[l]] = l /\ thread[ready[l]] = "none"
    /\ \A c \in Consumer : thread[c] # "none" => c \in 1..made
    /\ \A c \in Consumer : Alive(c) => Accounted(c)

(* No two threads of one lane go on. *)
Alone == \A c, d \in Consumer : Alive(c) /\ Alive(d) /\ laneOf[c] = laneOf[d] => c = d

(* A send that is out, and a settlement owed, is that of a consumer still  *)
(* referred to, or of one settled and forgotten.                           *)
Debts ==
    /\ \A c \in sending : Accounted(c) \/ c \in dropped
    /\ \A c \in owes : Accounted(c) \/ Waiting(c) \/ c \in dropped

(* What each phase of the command has done, and has not done yet. *)
Early == {"roles", "idle", "build", "refused"}
Unwound == {"close", "collect", "over"}
Phases ==
    /\ awaited # None => at \in {"gone", "start", "shutdown"} /\ thread[awaited] # "none"
    /\ at \in {"gone", "start"} /\ holder = "main" => main = "callback"
    /\ at \in {"gone", "start"} /\ holder # "main" => watch = "pass"
    /\ at \in {"gone", "start"} => ~done
    /\ at = "shutdown" => main = "stop" /\ done
    /\ main = "stop" /\ at # "shutdown" => ~done
    /\ done => main = "stop" \/ main \in Unwound
    /\ main \in Early => at = "free" /\ watch = "none" /\ sending = {}
    /\ main \in Early => \A c \in Consumer : thread[c] = "none"
    /\ main \in Unwound => at = "free" /\ (done \/ watch = "none")
    /\ main \in Unwound => \A l \in Lane : running[l] = None
    /\ main \in {"collect", "over"} => sending = {}
    /\ main \in {"roles", "idle"} => owes = {}

(* At the end nothing is owed but by those two exceptions. *)
Settled == main \in {"over", "refused"} => \A c \in owes : (Alive(c) /\ c \in stopped) \/ c \in dropped

Served == References /\ Places /\ Alone /\ Debts /\ Phases /\ Settled /\ clash = {}

(* At first nothing was built, and nothing is running or owed. *)
LEMMA ContainerBegins == ContainerInit => Served
  <1> SUFFICES ASSUME ContainerInit PROVE Served
    OBVIOUS
  <1>0. MaxConsumers \in Nat /\ Lane # {}
    BY ContainerAssumption DEF Lane
  <1>1. References
    BY <1>0 DEF ContainerInit, References
  <1>2. Places /\ Alone /\ Debts /\ Settled /\ clash = {}
    BY DEF ContainerInit, Places, Alone, Debts, Settled, Alive
  <1>3. Phases
    BY DEF ContainerInit, Phases, Early, Unwound
  <1> QED
    BY <1>1, <1>2, <1>3 DEF Served

(* What leaves the consumers and the references to them alone keeps what   *)
(* is said of them alone.                                                  *)
LEMMA QuietLeaves ==
  ASSUME Served, UNCHANGED <<awaited, held, consumers, ghosts>>
  PROVE  References' /\ Places' /\ Alone' /\ Debts' /\ clash' = {}
  <1> USE DEF Served, held, consumers, ghosts
  <1>1. References' /\ clash' = {}
    BY DEF References
  <1>2. Places' /\ Alone'
    BY DEF Places, Alone, Accounted, Alive
  <1>3. Debts'
    BY DEF Debts, Accounted, Waiting
  <1> QED
    BY <1>1, <1>2, <1>3

(* The steps of the main thread and of the watch, and of a pass, that move *)
(* nothing but themselves.                                                 *)
Quiet ==
    \/ Handle \/ Idle \/ Built \/ StartConsuming \/ Signal \/ StopBegins \/ StopEnds \/ PassEnds
    \/ WatchReads \/ WatchCannotRead \/ WatchBegins \/ WatchEnds \/ TableChanges
    \/ \E l \in Lane : Skip(l)

(* The steps of the command and the watch that touch no consumer. *)
LEMMA QuietStep == ASSUME Served, Quiet PROVE Served'
  <1> USE DEF Served, table_, options, process, pass, held, consumers, ghosts
  <1>1. UNCHANGED <<awaited, held, consumers, ghosts>>
    BY DEF Quiet, Begins, Built, Handle, Holding, Idle, PassEnds, Passing, Signal,
        Skip, StartConsuming, StopBegins, StopEnds, TableChanges, WatchBegins,
            WatchCannotRead, WatchEnds, WatchReads
  <1>2. References' /\ Places' /\ Alone' /\ Debts' /\ clash' = {}
    BY <1>1, QuietLeaves
  <1>3. ASSUME main \in Early, NEW l \in Lane PROVE running[l] = None
    BY <1>3 DEF References, Places, Phases
  <1>4. Phases' /\ Settled'
    <2>1. CASE Handle
      BY <1>1, <1>3, <2>1 DEF Handle, Phases, Settled, Early, Unwound, Alive
    <2>2. CASE Idle
      BY <1>1, <1>3, <2>2 DEF Idle, Phases, Settled, Early, Unwound, Alive
    <2>3. CASE Built
      BY <1>1, <1>3, <2>3 DEF Built, Phases, Settled, Early, Unwound, Alive
    <2>4. CASE StartConsuming
      BY <1>1, <1>3, <2>4 DEF StartConsuming, Begins, Phases, Settled, Early, Unwound, Alive
    <2>5. CASE WatchReads
      BY <1>1, <1>3, <2>5 DEF WatchReads, Phases, Settled, Early, Unwound, Alive
    <2>6. CASE WatchCannotRead
      BY <1>1, <1>3, <2>6 DEF WatchCannotRead, Phases, Settled, Early, Unwound, Alive
    <2>7. CASE WatchBegins
      BY <1>1, <1>3, <2>7 DEF WatchBegins, Begins, Phases, Settled, Early, Unwound, Alive
    <2>8. CASE WatchEnds
      BY <1>1, <1>3, <2>8 DEF WatchEnds, Phases, Settled, Early, Unwound, Alive
    <2>9. CASE \E l \in Lane : Skip(l)
      BY <1>1, <1>3, <2>9 DEF Skip, Passing, Phases, Settled, Early, Unwound, Alive
    <2>10. CASE PassEnds
      BY <1>1, <1>3, <2>10 DEF PassEnds, Passing, Phases, Settled, Early, Unwound, Alive
    <2>11. CASE Signal
      BY <1>1, <1>3, <2>11 DEF Signal, Holding, Phases, Settled, Early, Unwound, Alive
    <2>12. CASE StopBegins
      BY <1>1, <1>3, <2>12 DEF StopBegins, Phases, Settled, Early, Unwound, Alive
    <2>13. CASE StopEnds
      BY <1>1, <1>3, <2>13 DEF StopEnds, Passing, Phases, Settled, Early, Unwound, Alive
    <2>14. CASE TableChanges
      BY <1>1, <1>3, <2>14 DEF TableChanges, Phases, Settled, Early, Unwound, Alive
    <2> QED
      BY <2>1, <2>2, <2>3, <2>4, <2>5, <2>6, <2>7, <2>8, <2>9, <2>10, <2>11, <2>12, <2>13, <2>14 DEF Quiet
  <1> QED
    BY <1>2, <1>4

(* What is built is a consumer nobody had. *)
LEMMA BuildsOne ==
  ASSUME MaxConsumers \in Nat, References, Places, NEW l \in Lane, NEW queues, Builds(l, queues)
  PROVE  /\ made + 1 \in Consumer /\ made' \in 0..MaxConsumers /\ laneOf' \in [Consumer -> Lane]
         /\ thread[made + 1] = "none" /\ laneOf'[made + 1] = l
         /\ \A c \in 1..made : c # made + 1 /\ c \in 1..made' /\ laneOf'[c] = laneOf[c]
  <1>1. made + 1 \in Consumer /\ made' \in 0..MaxConsumers /\ made' = made + 1
    BY DEF Builds, References, Consumer
  <1>2. thread[made + 1] = "none"
    BY <1>1 DEF References, Places
  <1>3. laneOf' \in [Consumer -> Lane] /\ laneOf'[made + 1] = l
    BY <1>1 DEF Builds, References
  <1>4. \A c \in 1..made : c # made + 1 /\ c \in 1..made' /\ laneOf'[c] = laneOf[c]
    BY <1>1 DEF Builds, References
  <1> QED
    BY <1>1, <1>2, <1>3, <1>4

(* A send is out while its consumer is referred to. *)
LEMMA SendsKeeps == ASSUME Served, NEW c \in Consumer, Sends(c) PROVE Served'
  <1> USE DEF Served, Sends, table_, options, process, pass, held, consumers, ghosts
  <1>1. References'
    BY DEF References, Consumer, Lanes, Lane, None
  <1>2. Places' /\ Alone'
    BY <1>1 DEF Places, Alone, References, Accounted, Alive, Phases, Early, Unwound, Consumer, None
  <1>3. Debts'
    BY <1>1 DEF Debts, References, Places, Accounted, Waiting, Alive, Phases, Early, Unwound
  <1>4. Phases' /\ Settled'
    BY <1>1 DEF Phases, Settled, References, Early, Unwound, Places, Debts, Accounted, Waiting, Alive, None
  <1>5. clash' = {}
    BY DEF References, Places, Alive, Accounted, Phases, Early, Unwound
  <1> QED
    BY <1>1, <1>2, <1>3, <1>4, <1>5

(* A send that ends is owed by the consumer it was a send of. *)
LEMMA SendFinishesKeeps == ASSUME Served, NEW c \in Consumer, SendFinishes(c) PROVE Served'
  <1> USE DEF Served, SendFinishes, table_, options, process, pass, held, consumers, ghosts
  <1>1. References'
    BY DEF References, Consumer, Lanes, Lane, None
  <1>2. Places' /\ Alone'
    BY <1>1 DEF Places, Alone, References, Accounted, Alive, Phases, Early, Unwound, Consumer, None
  <1>3. Debts'
    BY <1>1 DEF Debts, References, Places, Accounted, Waiting, Alive, Phases, Early, Unwound
  <1>4. Phases' /\ Settled'
    BY <1>1 DEF Phases, Settled, References, Early, Unwound, Places, Debts, Accounted, Waiting, Alive, None
  <1>5. clash' = {}
    BY DEF References, Places, Alive, Accounted, Phases, Early, Unwound
  <1> QED
    BY <1>1, <1>2, <1>3, <1>4, <1>5

(* A thread that ends collects first. *)
LEMMA ThreadEndsKeeps == ASSUME Served, NEW c \in Consumer, ThreadEnds(c) PROVE Served'
  <1> USE DEF Served, ThreadEnds, table_, options, process, pass, held, consumers, ghosts
  <1>1. References'
    BY DEF References, Consumer, Lanes, Lane, None
  <1>2. Places' /\ Alone'
    BY <1>1 DEF Places, Alone, References, Accounted, Alive, Phases, Early, Unwound, Consumer, None
  <1>3. Debts'
    BY <1>1 DEF Debts, References, Places, Accounted, Waiting, Alive, Phases, Early, Unwound
  <1>4. Phases' /\ Settled'
    BY <1>1 DEF Phases, Settled, References, Early, Unwound, Places, Debts, Accounted, Waiting, Alive, None
  <1>5. clash' = {}
    BY DEF References, Places, Alive, Accounted, Phases, Early, Unwound
  <1> QED
    BY <1>1, <1>2, <1>3, <1>4, <1>5

(* A consumer of the startup set waits in its own lane. *)
LEMMA BuildNextKeeps == ASSUME MaxConsumers \in Nat, Served, NEW l \in Lane, BuildNext(l) PROVE Served'
  <1> USE DEF Served, BuildNext, Builds, table_, options, process, pass, held,
      consumers, ghosts
  <1>1. References'
    BY BuildsOne DEF References, Consumer, None
  <1>2. Places' /\ Alone'
    BY <1>1 DEF Places, Alone, References, Accounted, Alive, Phases, Early, Unwound, Consumer, None
  <1>3. Debts'
    BY <1>1 DEF Debts, References, Places, Accounted, Waiting, Alive, Phases, Early, Unwound
  <1>4. Phases' /\ Settled'
    BY <1>1 DEF Phases, Settled, References, Early, Unwound, Places, Debts, Accounted, Waiting, Alive, None
  <1>5. clash' = {}
    BY DEF References, Places, Alive, Accounted, Phases, Early, Unwound
  <1> QED
    BY <1>1, <1>2, <1>3, <1>4, <1>5

(* A consumer whose lane goes is awaited. *)
LEMMA StopGoneKeeps == ASSUME Served, NEW l \in Lane, StopGone(l) PROVE Served'
  <1> USE DEF Served, StopGone, Stops, Passing, table_, options, process, pass, held,
      consumers, ghosts
  <1>1. References'
    BY DEF References, Consumer, Lanes, Lane, None
  <1>2. Places' /\ Alone'
    BY <1>1 DEF Places, Alone, References, Accounted, Alive, Phases, Early, Unwound, Consumer, None
  <1>3. Debts'
    BY <1>1 DEF Debts, References, Places, Accounted, Waiting, Alive, Phases, Early, Unwound
  <1>4. Phases' /\ Settled'
    BY <1>1 DEF Phases, Settled, References, Early, Unwound, Places, Debts, Accounted, Waiting, Alive, None
  <1>5. clash' = {}
    BY DEF References, Places, Alive, Accounted, Phases, Early, Unwound
  <1> QED
    BY <1>1, <1>2, <1>3, <1>4, <1>5

(* A consumer awaited is stopped, whether its thread ended or not. *)
LEMMA JoinedKeeps == ASSUME Served, Joined PROVE Served'
  <1> USE DEF Served, Joined, Mishap, table_, options, process, pass, held, consumers, ghosts
  <1>1. References'
    BY DEF References, Consumer, Lanes, Lane, None
  <1>2. Places' /\ Alone'
    BY <1>1 DEF Places, Alone, References, Accounted, Alive, Phases, Early, Unwound, Consumer, None
  <1>3. Debts'
    BY <1>1 DEF Debts, References, Places, Accounted, Waiting, Alive, Phases, Early, Unwound
  <1>4. Phases' /\ Settled'
    BY <1>1 DEF Phases, Settled, References, Early, Unwound, Places, Debts, Accounted, Waiting, Alive, None
  <1>5. clash' = {}
    BY DEF References, Places, Alive, Accounted, Phases, Early, Unwound
  <1> QED
    BY <1>1, <1>2, <1>3, <1>4, <1>5

(* What is settled and forgotten has no thread left, and may have a send out. *)
LEMMA SettleGoneKeeps == ASSUME Served, SettleGone PROVE Served'
  <1> USE DEF Served, SettleGone, SettlesStopped, ToSettle, Settles, Passing, table_,
      options, process, pass, held, consumers, ghosts
  <1>1. References'
    BY DEF References, Consumer, Lanes, Lane, None
  <1>2. Places' /\ Alone'
    BY <1>1 DEF Places, Alone, References, Accounted, Alive, Phases, Early, Unwound, Consumer, None
  <1>3. Debts'
    BY <1>1 DEF Debts, References, Places, Accounted, Waiting, Alive, Phases, Early, Unwound
  <1>4. Phases' /\ Settled'
    BY <1>1 DEF Phases, Settled, References, Early, Unwound, Places, Debts, Accounted, Waiting, Alive, None
  <1>5. clash' = {}
    BY DEF References, Places, Alive, Accounted, Phases, Early, Unwound
  <1> QED
    BY <1>1, <1>2, <1>3, <1>4, <1>5

(* A start that fails settles what it had built. *)
LEMMA StartFailsKeeps == ASSUME Served, NEW l \in Lane, StartFails(l) PROVE Served'
  <1> USE DEF Served, StartFails, Passing, StillTurning, Mishap, Settles, table_, options,
      process, pass, held, consumers, ghosts
  <1>1. References'
    BY DEF References, Consumer, Lanes, Lane, None
  <1>2. Places' /\ Alone'
    BY <1>1 DEF Places, Alone, References, Accounted, Alive, Phases, Early, Unwound, Consumer, None
  <1>3. Debts'
    BY <1>1 DEF Debts, References, Places, Accounted, Waiting, Alive, Phases, Early, Unwound
  <1>4. Phases' /\ Settled'
    BY <1>1 DEF Phases, Settled, References, Early, Unwound, Places, Debts, Accounted, Waiting, Alive, None
  <1>5. clash' = {}
    BY DEF References, Places, Alive, Accounted, Phases, Early, Unwound
  <1> QED
    BY <1>1, <1>2, <1>3, <1>4, <1>5

(* At the shutdown each running consumer is awaited. *)
LEMMA StopRunningKeeps == ASSUME Served, NEW l \in Lane, StopRunning(l) PROVE Served'
  <1> USE DEF Served, StopRunning, Stops, Passing, table_, options, process, pass,
      held, consumers, ghosts
  <1>1. References'
    BY DEF References, Consumer, Lanes, Lane, None
  <1>2. Places' /\ Alone'
    BY <1>1 DEF Places, Alone, References, Accounted, Alive, Phases, Early, Unwound, Consumer, None
  <1>3. Debts'
    BY <1>1 DEF Debts, References, Places, Accounted, Waiting, Alive, Phases, Early, Unwound
  <1>4. Phases' /\ Settled'
    BY <1>1 DEF Phases, Settled, References, Early, Unwound, Places, Debts, Accounted, Waiting, Alive, None
  <1>5. clash' = {}
    BY DEF References, Places, Alive, Accounted, Phases, Early, Unwound
  <1> QED
    BY <1>1, <1>2, <1>3, <1>4, <1>5

(* close() drains the sends. *)
LEMMA CloseKeeps == ASSUME Served, Close PROVE Served'
  <1> USE DEF Served, Close, table_, options, process, pass, held, consumers, ghosts
  <1>1. References'
    BY DEF References, Consumer, Lanes, Lane, None
  <1>2. Places' /\ Alone'
    BY <1>1 DEF Places, Alone, References, Accounted, Alive, Phases, Early, Unwound, Consumer, None
  <1>3. Debts'
    BY <1>1 DEF Debts, References, Places, Accounted, Waiting, Alive, Phases, Early, Unwound
  <1>4. Phases' /\ Settled'
    BY <1>1 DEF Phases, Settled, References, Early, Unwound, Places, Debts, Accounted, Waiting, Alive, None
  <1>5. clash' = {}
    BY DEF References, Places, Alive, Accounted, Phases, Early, Unwound
  <1> QED
    BY <1>1, <1>2, <1>3, <1>4, <1>5

(* A refusal settles what was built. *)
LEMMA BuildRefusedKeeps == ASSUME MaxConsumers \in Nat, Served, NEW l \in Lane,
  BuildRefused(l) PROVE Served'
  <1> USE DEF Served, BuildRefused, table_, options, process, pass, held, consumers, ghosts
  <1>1. made' \in 0..MaxConsumers /\ laneOf' \in [Consumer -> Lane]
        /\ \A c \in 1..made : c \in 1..made' /\ laneOf'[c] = laneOf[c]
    <2>1. ASSUME NEW queues, Builds(l, queues)
          PROVE  /\ made' \in 0..MaxConsumers /\ laneOf' \in [Consumer -> Lane]
                 /\ \A c \in 1..made : c \in 1..made' /\ laneOf'[c] = laneOf[c]
      BY <2>1, BuildsOne DEF Builds, References
    <2>2. CASE UNCHANGED <<made, laneOf>>
      BY <2>2 DEF References
    <2> QED
      BY <2>1, <2>2
  <1>2. owes' = {} /\ clash' = {}
    <2>1. \A c \in Consumer : ~Alive(c)
      BY DEF Alive, Phases, Early
    <2>2. CASE Settles(owes)
      BY <2>1, <2>2 DEF Settles, References
    <2>3. ASSUME NEW queues, Builds(l, queues), Settles(owes \cup {made + 1})
        PROVE owes' = {} /\ clash' = {}
      <3>1. made + 1 \in Consumer
        BY <2>3, BuildsOne
      <3> QED
        BY <2>1, <2>3, <3>1 DEF Settles, References
    <2> QED
      BY <2>2, <2>3
  <1>3. References'
    BY <1>1, <1>2 DEF References
  <1>4. Places' /\ Alone'
    BY <1>1, <1>3 DEF Places, Alone, References, Accounted, Alive, Phases, Early, None, Consumer
  <1>5. Debts' /\ Phases' /\ Settled'
    BY <1>2 DEF Debts, Phases, Settled, Early, Unwound
  <1> QED
    BY <1>2, <1>3, <1>4, <1>5

(* A consumer that is stopped is told, or refuses, and is joined next.     *)
LEMMA StopsOne ==
  ASSUME Served, NEW l \in Lane, NEW spent \in Nat, at # "free", at \in {"gone", "start", "shutdown"},
         awaited = None, running[l] # None, Stops(l, spent),
         UNCHANGED <<stopped, ready, made, laneOf, sending, owes, ghosts, process, at, done, holder>>
  PROVE  Served'
  <1> USE DEF Served, process, ghosts
  <1>1. References'
    BY DEF References, Stops, None
  <1>2. Places' /\ Alone'
    BY <1>1 DEF Places, Alone, Stops, References, Accounted, Alive, Consumer, None
  <1>3. Debts'
    BY <1>1 DEF Debts, Stops, References, Accounted, Waiting
  <1>4. Phases' /\ Settled'
    BY <1>1 DEF Phases, Settled, Stops, References, Early, Unwound, Places, None
  <1> QED
    BY <1>1, <1>2, <1>3, <1>4

(* A consumer that follows stays where it is, or is stopped. *)
LEMMA FollowKeeps == ASSUME Served, NEW l \in Lane, Follow(l) PROVE Served'
  <1> USE DEF Served, Follow, Passing, process, pass, held, ghosts, table_
  <1>1. CASE Stops(l, 1)
    BY <1>1, StopsOne
  <1>2. CASE UNCHANGED <<awaited, running, thread>>
    <2>1. References' /\ clash' = {}
      BY <1>2 DEF References
    <2>2. Places' /\ Alone'
      BY <1>2 DEF Places, Alone, Accounted, Alive
    <2>3. Debts' /\ Settled'
      BY <1>2 DEF Debts, Settled, Accounted, Waiting, Alive
    <2>4. Phases'
      BY <1>2 DEF Phases, Early, Unwound
    <2> QED
      BY <2>1, <2>2, <2>3, <2>4
  <1> QED
    BY <1>1, <1>2

(* The consumer started is one of its lane, and was waiting or is new: no  *)
(* other of the lane is running, or stopped and turning.                   *)
LEMMA StartKeeps == ASSUME MaxConsumers \in Nat, Served, NEW l \in Lane, Start(l) PROVE Served'
  <1> USE DEF Served
  <1>0. PICK c : c = IF ready[l] # None THEN ready[l] ELSE made + 1
    OBVIOUS
  <1>1. /\ running' = [running EXCEPT ![l] = c] /\ thread' = [thread EXCEPT ![c] = "turning"]
        /\ owes' = owes \cup {c} /\ ready' = [ready EXCEPT ![l] = None]
        /\ UNCHANGED <<stopped, sending, ghosts, awaited, main, watch, at, holder, done>>
        /\ at = "start" /\ awaited = None /\ running[l] = None /\ ~StillTurning(l)
    BY <1>0 DEF Start, Passing, process, pass
  <1>2. IF ready[l] # None THEN UNCHANGED <<made, laneOf>> ELSE \E queues : Builds(l, queues)
    BY DEF Start
  <1>3. /\ c \in Consumer /\ c \in 1..made' /\ thread[c] = "none" /\ laneOf'[c] = l
        /\ made' \in 0..MaxConsumers /\ laneOf' \in [Consumer -> Lane]
        /\ \A d \in 1..made : d \in 1..made' /\ laneOf'[d] = laneOf[d]
        /\ \A m \in Lane : m # l => ready[m] # c
    <2>1. CASE ready[l] # None
      BY <1>0, <1>2, <2>1 DEF References, Places, None
    <2>2. CASE ready[l] = None
      <3>1. c = made + 1 /\ \E queues : Builds(l, queues)
        BY <1>0, <1>2, <2>2
      <3>2. PICK queues : Builds(l, queues)
        BY <3>1
      <3>3. \A m \in Lane : ready[m] # made + 1
        BY DEF References, Places, None
      <3>4. c \in 1..made'
        BY <3>1, <3>2 DEF Builds, References
      <3> QED
        BY <3>1, <3>2, <3>3, <3>4, BuildsOne
    <2> QED
      BY <2>1, <2>2
  <1>4. References'
    BY <1>1, <1>3 DEF References
  <1>5. \A d \in Consumer : Accounted(d) => Accounted(d)'
    BY <1>1 DEF Accounted, References, None
  <1>6. /\ Accounted(c)' /\ thread'[c] = "turning" /\ running'[l] = c
        /\ \A d \in Consumer : d # c => thread'[d] = thread[d]
    BY <1>1, <1>3 DEF Accounted, References
  <1>7. Places'
    <2>1. \A m \in Lane : running'[m] # None =>
             running'[m] \in 1..made' /\ laneOf'[running'[m]] = m /\ thread'[running'[m]] = "turning"
      BY <1>1, <1>3, <1>6 DEF Places, References
    <2>2. \A m \in Lane : ready'[m] # None =>
             ready'[m] \in 1..made' /\ laneOf'[ready'[m]] = m /\ thread'[ready'[m]] = "none"
      BY <1>1, <1>3, <1>6 DEF Places, References
    <2>3. \A d \in Consumer : (thread'[d] # "none" => d \in 1..made') /\ (Alive(d)' => Accounted(d)')
      <3> TAKE d \in Consumer
      <3>1. CASE d = c
        BY <1>3, <1>6, <3>1
      <3>2. CASE d # c
        <4>1. thread'[d] = thread[d] /\ (Alive(d)' => Alive(d))
          BY <1>6, <3>2 DEF Alive
        <4> QED
          BY <1>3, <1>5, <4>1 DEF Places
      <3> QED
        BY <3>1, <3>2
    <2> QED
      BY <2>1, <2>2, <2>3 DEF Places
  <1>8. \A d \in Consumer : Alive(d) => laneOf'[d] # l
    BY <1>1, <1>3 DEF Places, Accounted, StillTurning, Alive, References, None
  <1>9. Alone'
    BY <1>3, <1>6, <1>8 DEF Alone, Alive, Places
  <1>10. Debts'
    <2>1. ASSUME NEW d \in owes, Waiting(d), d # c PROVE Waiting(d)'
      <3>1. PICK m \in Lane : ready[m] = d
        BY <2>1 DEF Waiting
      <3>2. d # None
        BY DEF References
      <3>3. m # l
        BY <1>0, <2>1, <3>1, <3>2
      <3> QED
        BY <1>1, <3>1, <3>3 DEF Waiting, References
    <2>2. \A d \in sending : Accounted(d)' \/ d \in dropped'
      BY <1>1, <1>5 DEF Debts, References, ghosts
    <2>3. \A d \in owes' : Accounted(d)' \/ Waiting(d)' \/ d \in dropped'
      BY <1>1, <1>5, <1>6, <2>1 DEF Debts, References, ghosts
    <2> QED
      BY <1>1, <2>2, <2>3 DEF Debts
  <1>11. Phases' /\ Settled' /\ clash' = {}
    BY <1>1, <1>3 DEF Phases, Settled, Early, Unwound, ghosts
  <1> QED
    BY <1>4, <1>7, <1>9, <1>10, <1>11

(* Whom the shutdown does not collect has a thread that outlived its join. *)
LEMMA CollectKeeps == ASSUME Served, Collect PROVE Served'
  <1> USE DEF Served, Collect, Collects, Settles, table_, options, process, pass, held,
      consumers, ghosts
  <1>1. /\ \A l \in Lane : running[l] = None
        /\ awaited = None /\ sending = {}
    BY DEF Phases, Unwound
  <1>2. \A c \in Collects : ~Alive(c)
    BY <1>1 DEF RunningOnes, ReadyOnes, ToSettle, Places, Alive
  <1>3. References' /\ clash' = {}
    BY <1>2 DEF References
  <1>4. Places' /\ Alone'
    BY <1>3 DEF Places, Alone, Accounted, Alive, ToSettle
  <1>5. \A c \in owes' : (Alive(c) /\ c \in stopped') \/ c \in dropped
    <2> SUFFICES ASSUME NEW c \in owes', c \notin dropped
                 PROVE  Alive(c) /\ c \in stopped'
      OBVIOUS
    <2>1. c \in owes /\ c \in Consumer /\ c \notin ReadyOnes /\ c \notin ToSettle
      BY DEF References
    <2>2. ~Waiting(c)
      BY <2>1 DEF Waiting, ReadyOnes
    <2>3. c \in stopped
      BY <1>1, <2>1, <2>2 DEF Debts, Accounted
    <2> QED
      BY <2>1, <2>3 DEF ToSettle
  <1>6. Debts' /\ Settled'
    BY <1>1, <1>5 DEF Debts, Settled, Accounted, Alive
  <1>7. Phases'
    BY <1>1 DEF Phases, Early, Unwound
  <1> QED
    BY <1>3, <1>4, <1>6, <1>7

(* The inductive invariant holds in every state. *)
LEMMA ContainerServes == ContainerSpec => []Served
  <1>0. MaxConsumers \in Nat
    BY ContainerAssumption
  <1>1. ASSUME Served, [ContainerNext]_containerVars PROVE Served'
    <2>1. CASE UNCHANGED containerVars
      BY <1>1, <2>1, QuietLeaves DEF Served, containerVars, table_, process, options, pass, held,
          consumers, ghosts, Phases, Settled, Early, Unwound, Alive
    <2>2. CASE PassStep
      BY <1>0, <1>1, <2>2, QuietStep, StopGoneKeeps, FollowKeeps, StartKeeps, StartFailsKeeps,
          StopRunningKeeps, JoinedKeeps, SettleGoneKeeps DEF PassStep, Quiet
    <2>3. CASE MainStep
      BY <1>0, <1>1, <2>3, QuietStep, BuildNextKeeps, CloseKeeps, CollectKeeps DEF MainStep, Quiet
    <2>4. CASE WatchStep \/ WatchCannotRead \/ Idle \/ Signal \/ TableChanges
      BY <1>1, <2>4, QuietStep DEF WatchStep, Quiet
    <2>5. CASE \/ \E l \in Lane : BuildRefused(l)
               \/ \E c \in Consumer : Sends(c) \/ SendFinishes(c) \/ ThreadEnds(c)
      BY <1>0, <1>1, <2>5, BuildRefusedKeeps, SendsKeeps, SendFinishesKeeps, ThreadEndsKeeps
    <2> QED
      BY <1>1, <2>1, <2>2, <2>3, <2>4, <2>5 DEF ContainerNext
  <1> QED
    BY <1>1, ContainerBegins, PTL DEF ContainerSpec

(* What the run was told and what it read, where its threads are, and what *)
(* the consumers were told.                                                *)
ToldTyped ==
    /\ table \in [Queue -> Row] /\ changes \in 0..MaxChanges
    /\ names \subseteq Queue /\ startup \subseteq Queue /\ read \subseteq Queue /\ asked \subseteq Queue
    /\ todo \subseteq Lane /\ serves \in [Consumer -> SUBSET Queue]
PhaseTyped ==
    /\ main \in {"roles", "idle", "build", "loop", "callback", "stop", "close", "collect", "over", "refused"}
    /\ callback \in {"queued", "run", "over"}
    /\ watch \in {"none", "idle", "read", "pass", "over"}
    /\ holder \in {"nobody", "main", "watch"} /\ at \in {"free", "gone", "start", "shutdown"}
FlagsTyped ==
    /\ consumes \in BOOLEAN /\ pools \in BOOLEAN /\ shutting \in BOOLEAN /\ done \in BOOLEAN
    /\ refused \in BOOLEAN
    /\ mishaps \in 0..MaxMishaps /\ dropped \subseteq Consumer

(* served_by() names queues. *)
LEMMA ServesQueues ==
  ASSUME ToldTyped
  PROVE  /\ ServedBy(table) \subseteq Queue
         /\ \A set \in SUBSET Queue : Lanes(set) \subseteq Lane /\ \A l : Of(set, l) \subseteq Queue
  <1>1. Own \in Queue
    BY ContainerAssumption
  <1>2. ServedBy(table) \subseteq Queue
    BY <1>1 DEF ServedBy, InPools, ToldTyped
  <1> QED
    BY <1>2 DEF Lanes, Lane, Of

(* Only queues are named, read and told. *)
LEMMA ToldKeeps == ToldTyped /\ [ContainerNext]_containerVars => ToldTyped'
  <1> SUFFICES ASSUME ToldTyped, [ContainerNext]_containerVars PROVE ToldTyped'
    OBVIOUS
  <1> USE DEF table_, options, process, pass, held, consumers, ghosts, containerVars, PassStep, MainStep, WatchStep,
       StopGone, Follow, Skip, Start, StartFails, StopRunning, Joined, SettleGone, PassEnds, StopEnds, BuildNext,
       Handle, Built, StartConsuming, StopBegins, Close, Collect, WatchReads, WatchBegins, WatchEnds,
       WatchCannotRead, Idle, BuildRefused, Sends, SendFinishes, ThreadEnds, Signal, TableChanges, Begins, Builds,
       Tells
  <1>0. MaxChanges \in Nat
    BY ContainerAssumption
  <1>1. UNCHANGED <<table, changes>> \/ TableChanges
    BY DEF ContainerNext
  <1>2. table' \in [Queue -> Row] /\ changes' \in 0..MaxChanges
    <2>1. CASE TableChanges
      BY <1>0, <2>1 DEF TableChanges, ToldTyped
    <2> QED
      BY <1>1, <2>1 DEF ToldTyped
  <1>3. names' = names
    BY DEF ContainerNext
  <1>4. startup' = startup \/ startup' = ServedBy(table) \/ startup' = {}
    BY DEF ContainerNext
  <1>5. read' = read \/ read' = ServedBy(table) \/ read' = names
    BY DEF ContainerNext
  <1>6. \/ asked' = asked /\ todo' \subseteq todo
        \/ asked' = startup /\ todo' = Lanes(startup)
        \/ asked' = read /\ todo' = Lanes(read)
    BY DEF ContainerNext
  <1>7. serves' = serves \/ \E c, l : \E set \in {startup, asked} : serves' = [serves EXCEPT ![c] = Of(set, l)]
    BY DEF ContainerNext
  <1>8. serves' \in [Consumer -> SUBSET Queue]
    <2>1. CASE serves' = serves
      BY <2>1 DEF ToldTyped
    <2>2. ASSUME NEW c, NEW l, NEW set \in {startup, asked}, serves' = [serves EXCEPT ![c] = Of(set, l)]
          PROVE  serves' \in [Consumer -> SUBSET Queue]
      <3>1. Of(set, l) \in SUBSET Queue
        BY ServesQueues DEF ToldTyped
      <3>2. serves \in [Consumer -> SUBSET Queue]
        BY DEF ToldTyped
      <3> HIDE DEF Of
      <3> QED
        BY <2>2, <3>1, <3>2
    <2> QED
      BY <1>7, <2>1, <2>2
  <1> QED
    BY <1>2, <1>3, <1>4, <1>5, <1>6, <1>8, ServesQueues DEF ToldTyped

(* The command, its callback, its watch and its pass are in one of their phases. *)
LEMMA PhaseKeeps == PhaseTyped /\ [ContainerNext]_containerVars => PhaseTyped'
  <1> SUFFICES ASSUME PhaseTyped, [ContainerNext]_containerVars PROVE PhaseTyped'
    OBVIOUS
  <1> USE DEF PhaseTyped, table_, options, process, pass, held, consumers, ghosts
  <1>1. CASE UNCHANGED containerVars
    BY <1>1 DEF containerVars
  <1>2. CASE PassStep
    <2>1. CASE PassEnds
      BY <1>2, <2>1 DEF PassEnds
    <2>2. CASE StopEnds \/ SettleGone
      BY <1>2, <2>2 DEF StopEnds, SettleGone
    <2>3. CASE Joined \/ \E l \in Lane : StopGone(l) \/ Follow(l) \/ Skip(l) \/ Start(l) \/ StartFails(l)
      <3>1. UNCHANGED <<main, callback, watch, holder, at>>
        BY <2>3 DEF Joined, StopGone, Follow, Skip, Start, StartFails
      <3> QED
        BY <3>1
    <2>4. CASE \E l \in Lane : StopRunning(l)
      BY <2>4 DEF StopRunning
    <2> QED
      BY <1>2, <2>1, <2>2, <2>3, <2>4 DEF PassStep
  <1>3. CASE Handle
    BY <1>3 DEF Handle
  <1>4. CASE MainStep /\ ~Handle
    BY <1>4 DEF MainStep, BuildNext, Built, StartConsuming, StopBegins, Close, Collect, Begins
  <1>5. CASE WatchStep \/ WatchCannotRead \/ Idle \/ Signal \/ TableChanges
    BY <1>5 DEF WatchStep, WatchReads, WatchBegins, WatchEnds, WatchCannotRead, Idle, Signal, TableChanges, Begins
  <1>6. CASE \/ \E l \in Lane : BuildRefused(l)
             \/ \E c \in Consumer : Sends(c) \/ SendFinishes(c) \/ ThreadEnds(c)
    BY <1>6 DEF BuildRefused, Sends, SendFinishes, ThreadEnds
  <1> QED
    BY <1>1, <1>2, <1>3, <1>4, <1>5, <1>6 DEF ContainerNext

(* The flags stay flags, and the mishaps are counted. *)
LEMMA FlagsKeep == FlagsTyped /\ References /\ [ContainerNext]_containerVars => FlagsTyped'
  <1> SUFFICES ASSUME FlagsTyped, References, [ContainerNext]_containerVars PROVE FlagsTyped'
    OBVIOUS
  <1> USE DEF FlagsTyped, table_, options, process, pass, held, consumers, ghosts
  <1>0. MaxMishaps \in Nat
    BY ContainerAssumption
  <1>a. ASSUME Mishap PROVE mishaps' \in 0..MaxMishaps
    BY <1>0, <1>a DEF Mishap
  <1>1. CASE UNCHANGED containerVars
    BY <1>1 DEF containerVars
  <1>2. ASSUME NEW l, Stops(l, 0) \/ Stops(l, 1) PROVE refused' \in BOOLEAN /\ mishaps' \in 0..MaxMishaps
    <2>1. PICK refuses \in BOOLEAN : /\ refused' = (refused \/ refuses) /\ mishaps' <= MaxMishaps
                                     /\ \E spent \in {0, 1} : mishaps' = mishaps + spent + IF refuses THEN 1 ELSE 0
      BY <1>2 DEF Stops
    <2>2. refused' \in BOOLEAN
      BY <2>1
    <2>3. mishaps' \in 0..MaxMishaps
      BY <1>0, <2>1
    <2> QED
      BY <2>2, <2>3
  <1>3. CASE \E l \in Lane : StopGone(l) \/ Follow(l) \/ StopRunning(l)
    BY <1>2, <1>3 DEF StopGone, Follow, StopRunning
  <1>4. CASE \E l \in Lane : Skip(l) \/ Start(l) \/ StartFails(l)
    <2>1. UNCHANGED <<consumes, pools, shutting, done, refused, dropped>> /\ (Mishap \/ UNCHANGED mishaps)
      BY <1>4 DEF Skip, Start, StartFails
    <2> QED
      BY <1>a, <2>1
  <1>5. CASE Joined \/ SettleGone \/ PassEnds \/ StopEnds
    <2>1. UNCHANGED <<consumes, pools, shutting, done, refused>> /\ (Mishap \/ UNCHANGED mishaps)
      BY <1>5 DEF Joined, SettleGone, PassEnds, StopEnds
    <2>2. dropped' = dropped \/ dropped' = dropped \cup (ToSettle \cap sending)
      BY <1>5 DEF Joined, SettleGone, PassEnds, StopEnds, SettlesStopped
    <2>3. dropped' \subseteq Consumer
      BY <2>2 DEF References
    <2> QED
      BY <1>a, <2>1, <2>3
  <1>6. CASE Handle
    <2>1. consumes' \in BOOLEAN
      BY <1>6 DEF Handle
    <2> QED
      BY <1>6, <2>1 DEF Handle
  <1>7. CASE MainStep /\ ~Handle
    BY <1>7 DEF MainStep, BuildNext, Built, StartConsuming, StopBegins, Close, Collect, Begins
  <1>8. CASE WatchStep \/ WatchCannotRead \/ Idle \/ Signal \/ TableChanges
    <2>1. /\ UNCHANGED <<consumes, pools, done, dropped>> /\ (Mishap \/ UNCHANGED mishaps)
          /\ shutting' = shutting \/ shutting' = TRUE
          /\ refused' = refused \/ refused' = FALSE
      BY <1>8 DEF WatchStep, WatchReads, WatchBegins, WatchEnds, WatchCannotRead, Idle, Signal, TableChanges, Begins
    <2>2. shutting' \in BOOLEAN /\ refused' \in BOOLEAN
      BY <2>1
    <2> QED
      BY <1>a, <2>1, <2>2
  <1>9. CASE \/ \E l \in Lane : BuildRefused(l)
             \/ \E c \in Consumer : Sends(c) \/ SendFinishes(c) \/ ThreadEnds(c)
    <2>1. UNCHANGED <<consumes, pools, shutting, done, refused, dropped>> /\ (Mishap \/ UNCHANGED mishaps)
      BY <1>9 DEF BuildRefused, Sends, SendFinishes, ThreadEnds
    <2> QED
      BY <1>a, <2>1
  <1> QED
    BY <1>1, <1>3, <1>4, <1>5, <1>6, <1>7, <1>8, <1>9 DEF ContainerNext, PassStep

(* The state of the command and its consumers is typed. *)
THEOREM ContainerTyped == ContainerSpec => []ContainerTypeOK
  <1>1. Served /\ ToldTyped /\ PhaseTyped /\ FlagsTyped => ContainerTypeOK
    <2> SUFFICES ASSUME Served, ToldTyped, PhaseTyped, FlagsTyped PROVE ContainerTypeOK
      OBVIOUS
    <2>1. {consumes, pools, shutting, done, refused} \subseteq BOOLEAN
      BY DEF FlagsTyped
    <2>2. {names, startup, read, asked} \subseteq SUBSET Queue
      BY DEF ToldTyped
    <2>3. \A c \in 1..made : laneOf[c] \in Lane
      <3>1. MaxConsumers \in Nat
        BY ContainerAssumption
      <3> QED
        BY <3>1 DEF Served, References, Consumer
    <2>4. /\ {sending, owes, clash, dropped} \subseteq SUBSET Consumer
          /\ {running, ready} \subseteq [Lane -> Consumer \cup {None}]
      BY DEF Served, References, FlagsTyped
    <2> QED
      BY <2>1, <2>2, <2>3, <2>4 DEF ContainerTypeOK, Served, References, ToldTyped, PhaseTyped, FlagsTyped
  <1>2. ContainerInit => ToldTyped /\ PhaseTyped /\ FlagsTyped
    <2> SUFFICES ASSUME ContainerInit PROVE ToldTyped /\ PhaseTyped /\ FlagsTyped
      OBVIOUS
    <2>1. ToldTyped
      BY ContainerAssumption DEF ContainerInit, ToldTyped
    <2>2. PhaseTyped
      BY DEF ContainerInit, PhaseTyped
    <2>3. consumes \in BOOLEAN /\ shutting \in BOOLEAN /\ done \in BOOLEAN /\ refused \in BOOLEAN
      BY DEF ContainerInit
    <2>4. mishaps \in 0..MaxMishaps
      BY ContainerAssumption DEF ContainerInit
    <2> QED
      BY <2>1, <2>2, <2>3, <2>4 DEF ContainerInit, FlagsTyped
  <1>3. Served => References
    BY DEF Served
  <1> QED
    BY <1>1, <1>2, <1>3, ContainerServes, ToldKeeps, PhaseKeeps, FlagsKeep, PTL DEF ContainerSpec

(* _still_turning, collect: two threads never take from one lane, and      *)
(* nobody settles a consumer whose thread is turning.                      *)
THEOREM LanesHaveOneThread == ContainerSpec => []OneThreadALane
  <1>1. ASSUME Served PROVE OneThreadALane
    BY <1>1, ContainerAssumption DEF Served, OneThreadALane, Alone, References, Consumer
  <1> QED
    BY <1>1, ContainerServes, PTL

(* collect, at the end of the command and at a refusal: what a container   *)
(* built and still knows of is settled, but by a thread that goes on.      *)
THEOREM NothingIsLeftBehind == ContainerSpec => []NothingLeftBehind
  <1>1. ASSUME Served PROVE NothingLeftBehind
    <2> SUFFICES ASSUME main \in {"over", "refused"}, NEW c \in 1..made
                 PROVE  (Alive(c) => c \in stopped) /\ (c \in owes => Alive(c) \/ c \in dropped)
      BY DEF NothingLeftBehind
    <2>1. c \in Consumer
      BY <1>1, ContainerAssumption DEF Served, References, Consumer
    <2>2. Alive(c) => c \in stopped
      BY <1>1, <2>1 DEF Served, Places, Accounted, Phases, Early, Unwound, Alive, None, Consumer
    <2> QED
      BY <1>1, <2>2 DEF Served, Settled
  <1> QED
    BY <1>1, ContainerServes, PTL

=============================================================================
