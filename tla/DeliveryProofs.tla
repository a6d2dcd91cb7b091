--------------------------- MODULE DeliveryProofs ---------------------------
(* Theorems about the consumer, for any messages, queues, bots, budgets    *)
(* and bounds.                                                             *)
EXTENDS Delivery, TLAPS, SequenceTheorems, FiniteSetTheorems

Work == [op : Ops, msg : Msg]

USE MsgAssumption, QueueAssumption, ConfigAssumption

(* A walk of parked messages is work on those messages, all of it offers. *)
LEMMA OffersType ==
    ASSUME NEW s \in Seq(Msg)
    PROVE  /\ Offers(s) \in Seq(Work)
           /\ \A i \in DOMAIN Offers(s) : Offers(s)[i].op = "offer"
<1>1. Offers(s) \in [1..Len(s) -> Work]
  BY ElementOfSeq DEF Offers, Do, Work, Ops
<1>2. Offers(s) \in Seq(Work)
  BY <1>1, SeqDef, LenProperties
<1> QED BY <1>1, <1>2 DEF Offers, Do

(* The queues of a lane are queues of the transport. *)
LEMMA LaneType ==
    ASSUME NEW c \in Configs, NEW s \in c.lanes
    PROVE  s \in Seq(Queue) /\ s # <<>> /\ Entries(s) \subseteq Queue /\ Head(s) \in Queue
<1>1. s \in Seq(Queue) /\ s # <<>>
  BY DEF Config
<1>2. \A i \in DOMAIN s : s[i] \in Queue
  BY <1>1, ElementOfSeq, LenProperties
<1> QED BY <1>1, <1>2, HeadTailProperties DEF Entries

(* A consumer starts with empty books, whatever its lane. *)
LEMMA TypeInit == Init => TypeOK
<1> SUFFICES ASSUME Init PROVE TypeOK
  OBVIOUS
<1>1. books \subseteq Queue
  BY LaneType DEF Init
<1>2. parked \in Seq(Msg) /\ finished \in Seq([msg : Msg, delivered : BOOLEAN])
      /\ todo \in Seq([op : Ops, msg : Msg])
  BY EmptySeq DEF Init
<1>3. at \in [Msg -> {"waiting", "held", "left", "settled"}] /\ done \subseteq Msg
  BY DEF Init
<1>4. inFlight \in [Queue -> Int] /\ sending \in [Bot -> Nat] /\ faults \in 0..MaxFaults
  BY DEF Init
<1>5. fate \in [Msg -> {"none", "open", "reported", "refused", "lost"}]
      /\ book \in [Msg -> Queue]
  BY DEF Init
<1> QED BY <1>1, <1>2, <1>3, <1>4, <1>5 DEF Init, TypeOK, Labels

(* What an acknowledgement, failed or not, does to the types. *)
LEMMA AcknowledgeType ==
    ASSUME TypeOK, NEW m \in Msg, Acknowledge(m)
    PROVE  /\ at' \in [Msg -> {"waiting", "held", "left", "settled"}]
           /\ faults' \in 0..MaxFaults
<1>1. at' \in [Msg -> {"waiting", "held", "left", "settled"}]
  BY DEF Acknowledge, TypeOK
<1>2. faults' \in 0..MaxFaults
  BY DEF Acknowledge, TypeOK
<1> QED BY <1>1, <1>2

(* The first of the consumer's work, and what is left after it. *)
LEMMA WorkType ==
    ASSUME TypeOK, todo # <<>>
    PROVE  /\ First.op \in Ops /\ First.msg \in Msg
           /\ Rest \in Seq([op : Ops, msg : Msg])
           /\ book[First.msg] \in Queue /\ BotOf[First.msg] \in Bot
<1>1. First \in [op : Ops, msg : Msg] /\ Rest \in Seq([op : Ops, msg : Msg])
  BY HeadTailProperties DEF First, Rest, TypeOK
<1> QED BY <1>1 DEF TypeOK

(* What one settlement off self._finished does to the types. *)
LEMMA SettleType ==
    ASSUME TypeOK, Settle
    PROVE  /\ at' \in [Msg -> {"waiting", "held", "left", "settled"}]
           /\ faults' \in 0..MaxFaults
           /\ books' \subseteq Queue
           /\ inFlight' \in [Queue -> Int]
           /\ sending' \in [Bot -> Nat]
           /\ finished' \in Seq([msg : Msg, delivered : BOOLEAN])
<1> DEFINE f == Head(finished)
<1>1. f \in [msg : Msg, delivered : BOOLEAN]
  BY HeadTailProperties DEF Settle, TypeOK
<1>2. finished' \in Seq([msg : Msg, delivered : BOOLEAN])
  BY HeadTailProperties DEF Settle, TypeOK
<1>3. f.msg \in Msg /\ book[f.msg] \in Queue /\ BotOf[f.msg] \in Bot
  BY <1>1 DEF TypeOK
<1>4. books' \subseteq Queue /\ inFlight' \in [Queue -> Int] /\ sending' \in [Bot -> Nat]
  <2> DEFINE q == book[f.msg]
             b == BotOf[f.msg]
  <2> HIDE DEF f
  <2>1. SlotBack(q, b)
    BY DEF Settle, f
  <2>2. books' \subseteq Queue
    BY <1>3, <2>1 DEF SlotBack, TypeOK
  <2>3. inFlight' \in [Queue -> Int]
    BY <1>3, <2>1 DEF SlotBack, TypeOK
  <2>4. sending' \in [Bot -> Nat]
    BY <1>3, <2>1 DEF SlotBack, TypeOK
  <2> QED BY <2>2, <2>3, <2>4
<1>5. Acknowledge(f.msg) \/ UNCHANGED <<at, faults>>
  BY DEF Settle
<1>6. at' \in [Msg -> {"waiting", "held", "left", "settled"}] /\ faults' \in 0..MaxFaults
  BY <1>3, <1>5, AcknowledgeType DEF TypeOK
<1> QED BY <1>2, <1>4, <1>6

(* Every step of the consumer, its loop, the supervisor or a crash keeps   *)
(* the types.                                                              *)
LEMMA TypeNext == TypeOK /\ [Next]_vars => TypeOK'
<1> SUFFICES ASSUME TypeOK, [Next]_vars PROVE TypeOK'
  OBVIOUS
<1>1. CASE Reclaim
  <2>1. at' \in [Msg -> {"waiting", "held", "left", "settled"}]
    BY <1>1 DEF Reclaim, TypeOK
  <2>2. reclaimed' \in BOOLEAN
    BY <1>1 DEF Reclaim, TypeOK
  <2>3. faults' \in 0..MaxFaults
    BY <1>1 DEF Reclaim, TypeOK
  <2>4. pc' \in Labels /\ cur' \in IF pc' \in {"dispatch", "room"} THEN Msg ELSE {NoMsg}
    BY <1>1 DEF Reclaim, TypeOK, Labels
  <2> QED BY <1>1, <2>1, <2>2, <2>3, <2>4 DEF Reclaim, TypeOK
<1>2. CASE Top
  BY <1>2 DEF Top, TypeOK, Labels
<1>3. CASE CollectOne
  BY <1>3, SettleType DEF CollectOne, TypeOK, loop
<1>4. CASE CollectedAll
  BY <1>4, OffersType, EmptySeq DEF CollectedAll, TypeOK, Labels, Work
<1>5. CASE HoldOne
  BY <1>5, SettleType, OffersType, EmptySeq DEF HoldOne, TypeOK, Labels, Work
<1>6. CASE HeldEnough
  BY <1>6 DEF HeldEnough, TypeOK, Labels
<1>7. CASE ForgetRetired
  BY <1>7 DEF ForgetRetired, Goto, TypeOK, Labels
<1>8. CASE Plan
  BY <1>8, LaneType DEF Plan, Readable, TypeOK, Labels
<1>9. CASE \E m \in Msg : Take(m)
  BY <1>9 DEF Take, TypeOK, Labels
<1>10. CASE TakeNothing
  BY <1>10 DEF TakeNothing, Goto, TypeOK, Labels
<1>11. CASE TakeFails
  BY <1>11 DEF TakeFails, Goto, TypeOK, Labels
<1>12. CASE Drop
  BY <1>12 DEF Drop, Do, Ops, TypeOK, Labels
<1>13. CASE Leave
  BY <1>13 DEF Leave, TypeOK, Labels
<1>14. CASE Park
  <2>1. CountedUnder(cur) \in Queue /\ cur \in Msg
    BY <1>14, LaneType DEF Park, CountedUnder, TypeOK
  <2>2. parked' \in Seq(Msg)
    BY <1>14, <2>1 DEF Park, TypeOK
  <2>3. inFlight' \in [Queue -> Int] /\ books' \subseteq Queue
    BY <1>14, <2>1 DEF Park, TypeOK
  <2>4. book' \in [Msg -> Queue]
    BY <1>14, <2>1 DEF Park, TypeOK
  <2> QED BY <1>14, <2>2, <2>3, <2>4 DEF Park, TypeOK, Labels
<1>15. CASE AwaitRoom
  BY <1>15 DEF AwaitRoom, Goto, TypeOK, Labels
<1>16. CASE RoomOne
  BY <1>16, SettleType DEF RoomOne, TypeOK, loop
<1>17. CASE RoomStopped
  BY <1>17 DEF RoomStopped, TypeOK, Labels
<1>18. CASE Give
  BY <1>18, LaneType DEF Give, CountedUnder, Do, Ops, TypeOK, Labels
<1>19. CASE WorkAck
  BY <1>19, WorkType, AcknowledgeType DEF WorkAck, TypeOK
<1>20. CASE Repark
  <2>1. parked' \in Seq(Msg)
    BY <1>20, WorkType DEF Repark, TypeOK
  <2> QED BY <1>20, <2>1, WorkType DEF Repark, TypeOK
<1>21. CASE HandlerTook
  <2>1. todo # <<>>
    BY <1>21 DEF HandlerTook, HandsOver
  <2>2. fate' \in [Msg -> {"none", "open", "reported", "refused", "lost"}]
    BY <1>21, <2>1, WorkType DEF HandlerTook, TypeOK
  <2>3. PICK b \in Bot : sending' = [sending EXCEPT ![b] = @ + 1]
    BY <1>21, <2>1, WorkType DEF HandlerTook
  <2>4. sending' \in [Bot -> Nat]
    BY <2>3 DEF TypeOK
  <2>5. books' \subseteq Queue
    BY <1>21, <2>1, WorkType DEF HandlerTook, TypeOK
  <2>6. inFlight' \in [Queue -> Int]
    <3>1. PICK q \in Queue : inFlight' \in {inFlight, [inFlight EXCEPT ![q] = @ + 1]}
      BY <1>21, <2>1, WorkType DEF HandlerTook
    <3> QED BY <3>1 DEF TypeOK
  <2> QED BY <1>21, <2>1, <2>2, <2>4, <2>5, <2>6, WorkType DEF HandlerTook, TypeOK
<1>22. CASE WorkDone
  BY <1>22 DEF WorkDone, Goto, TypeOK, Labels
<1>23. ASSUME NEW c \in BOOLEAN, HandlerRaised(c) PROVE TypeOK'
  <2> DEFINE settled == IF c THEN <<>> ELSE <<Do("ack", First.msg)>>
  <2>1. todo # <<>>
    BY <1>23 DEF HandlerRaised, HandsOver
  <2>2. fate' \in [Msg -> {"none", "open", "reported", "refused", "lost"}]
        /\ done' \subseteq Msg
    <3>1. fate' \in [Msg -> {"none", "open", "reported", "refused", "lost"}]
      BY <1>23, <2>1, WorkType DEF HandlerRaised, TypeOK
    <3>2. done' \subseteq Msg
      BY <1>23, <2>1, WorkType DEF HandlerRaised, TypeOK
    <3> QED BY <3>1, <3>2
  <2>3. inFlight' \in [Queue -> Int] /\ books' \subseteq Queue
    <3>1. PICK q \in Queue : inFlight' \in {inFlight, [inFlight EXCEPT ![q] = @ - 1]}
      BY <1>23, <2>1, WorkType DEF HandlerRaised
    <3>2. inFlight' \in [Queue -> Int]
      BY <3>1 DEF TypeOK
    <3>3. books' \subseteq Queue
      BY <1>23, <2>1, WorkType DEF HandlerRaised, TypeOK
    <3> QED BY <3>2, <3>3
  <2>4. settled \in Seq(Work)
    <3>1. Do("ack", First.msg) \in Work
      BY <2>1, WorkType DEF Do, Ops, Work
    <3> QED BY <3>1, EmptySeq
  <2>5. todo' = Offers(parked) \o settled \o Rest
    BY <1>23 DEF HandlerRaised
  <2>6. todo' \in Seq(Work)
    <3>1. Offers(parked) \in Seq(Work) /\ Rest \in Seq(Work)
      BY <2>1, WorkType, OffersType DEF Work, TypeOK
    <3> HIDE DEF settled
    <3>2. Offers(parked) \o settled \in Seq(Work)
      BY <2>4, <3>1, ConcatProperties
    <3> QED BY <2>5, <3>1, <3>2, ConcatProperties
  <2>7. parked' \in Seq(Msg)
    BY <1>23, EmptySeq DEF HandlerRaised
  <2> QED BY <1>23, <2>2, <2>3, <2>6, <2>7 DEF HandlerRaised, TypeOK, Work
<1>24. ASSUME NEW c \in BOOLEAN, HandlerReturned(c) PROVE TypeOK'
  <2>1. todo # <<>>
    BY <1>24 DEF HandlerReturned, HandsOver
  <2>2. fate' \in [Msg -> {"none", "open", "reported", "refused", "lost"}]
        /\ done' \subseteq Msg
    BY <1>24, <2>1, WorkType DEF HandlerReturned, TypeOK
  <2>3. Do("ack", First.msg) \in Work /\ Rest \in Seq(Work)
    BY <2>1, WorkType DEF Do, Ops, Work
  <2>4. todo' \in Seq(Work)
    BY <1>24, <2>3, ConcatProperties DEF HandlerReturned
  <2> QED BY <1>24, <2>2, <2>4 DEF HandlerReturned, TypeOK, Work
<1>25. CASE \E m \in Msg : OnComplete(m)
  BY <1>25 DEF OnComplete, TypeOK, loop
<1>26. CASE \E m \in Msg : OnRefused(m)
  BY <1>26 DEF OnRefused, TypeOK, loop
<1>27. CASE \E m \in Msg : CancelSend(m)
  BY <1>27 DEF CancelSend, TypeOK, loop
<1>28. CASE \E s \in cfg.lanes : Serve(s)
  BY <1>28, LaneType DEF Serve, TypeOK, loop
<1>29. CASE Stop
  BY <1>29 DEF Stop, TypeOK
<1>30. CASE Crash
  <2>1. books' \subseteq Queue
    BY <1>30, LaneType DEF Crash
  <2>2. at' \in [Msg -> {"waiting", "held", "left", "settled"}] /\ faults' \in 0..MaxFaults
    BY <1>30 DEF Crash, TypeOK
  <2>3. parked' \in Seq(Msg) /\ finished' \in Seq([msg : Msg, delivered : BOOLEAN])
        /\ todo' \in Seq([op : Ops, msg : Msg])
    BY <1>30, EmptySeq DEF Crash
  <2>4. inFlight' \in [Queue -> Int] /\ sending' \in [Bot -> Nat]
    BY <1>30 DEF Crash
  <2>5. fate' \in [Msg -> {"none", "open", "reported", "refused", "lost"}]
        /\ book' \in [Msg -> Queue]
    BY <1>30 DEF Crash
  <2> QED BY <1>30, <2>1, <2>2, <2>3, <2>4, <2>5 DEF Crash, TypeOK, Labels
<1>31. CASE UNCHANGED vars
  BY <1>31 DEF vars, TypeOK
<1> QED
  BY <1>1, <1>2, <1>3, <1>4, <1>5, <1>6, <1>7, <1>8, <1>9, <1>10, <1>11, <1>12,
     <1>13, <1>14, <1>15, <1>16, <1>17, <1>18, <1>19, <1>20, <1>21, <1>22, <1>23,
     <1>24, <1>25, <1>26, <1>27, <1>28, <1>29, <1>30, <1>31
     DEF Next, Run, Report, Ended

(* The consumer's state keeps its types through every step. *)
THEOREM TypeCorrect == Spec => []TypeOK
<1> QED BY TypeInit, TypeNext, PTL DEF Spec

-----------------------------------------------------------------------------
(* Nothing is acknowledged that was not answered.  The property alone is   *)
(* not inductive: an acknowledgement is decided when a settlement is put   *)
(* on self._finished or when a call returns True, and performed later.     *)

ReportsAnswered ==
    \A i \in DOMAIN finished : finished[i].delivered => finished[i].msg \in done

AllAnswered(work, over) ==
    \A i \in DOMAIN work : work[i].op = "ack" => work[i].msg \in over

AcksAnswered == AllAnswered(todo, done)

AnsweredInv == NeverSettledUnsent /\ ReportsAnswered /\ AcksAnswered

(* A walk of parked messages holds no acknowledgement. *)
LEMMA OffersAnswered ==
    ASSUME TypeOK, todo' = Offers(parked) PROVE AcksAnswered'
BY OffersType DEF TypeOK, AcksAnswered, AllAnswered

(* Work joined to work is answered if both parts are. *)
LEMMA JoinAnswered ==
    ASSUME NEW over, NEW s \in Seq(Work), NEW t \in Seq(Work),
           AllAnswered(s, over), AllAnswered(t, over)
    PROVE  s \o t \in Seq(Work) /\ AllAnswered(s \o t, over)
<1>1. /\ s \o t \in Seq(Work) /\ Len(s \o t) = Len(s) + Len(t)
      /\ \A i \in 1..(Len(s) + Len(t)) :
            (s \o t)[i] = IF i <= Len(s) THEN s[i] ELSE t[i - Len(s)]
  BY ConcatProperties
<1>2. /\ DOMAIN s = 1..Len(s) /\ Len(s) \in Nat
      /\ DOMAIN t = 1..Len(t) /\ Len(t) \in Nat
      /\ DOMAIN (s \o t) = 1..(Len(s) + Len(t))
  BY <1>1, LenProperties
<1>3. ASSUME NEW i \in DOMAIN (s \o t), (s \o t)[i].op = "ack"
      PROVE  (s \o t)[i].msg \in over
  <2>1. CASE i <= Len(s)
    BY <1>1, <1>2, <1>3, <2>1 DEF AllAnswered
  <2>2. CASE i > Len(s)
    <3>1. (s \o t)[i] = t[i - Len(s)] /\ i - Len(s) \in DOMAIN t
      BY <1>1, <1>2, <2>2
    <3> QED BY <1>3, <3>1 DEF AllAnswered
  <2> QED BY <1>2, <2>1, <2>2
<1> QED BY <1>1, <1>3 DEF AllAnswered

(* Dropping the first piece of work leaves the rest answered. *)
LEMMA RestAnswered ==
    ASSUME TypeOK, AcksAnswered, todo # <<>>, todo' = Rest, done \subseteq done'
    PROVE  AcksAnswered'
<1>1. Len(Rest) = Len(todo) - 1 /\ \A i \in 1..Len(Rest) : Rest[i] = todo[i + 1]
  BY HeadTailProperties DEF TypeOK, Rest
<1>2. DOMAIN todo = 1..Len(todo) /\ Len(todo) \in Nat
  BY LenProperties DEF TypeOK
<1>3. DOMAIN Rest = 1..Len(Rest)
  BY WorkType, LenProperties
<1> QED BY <1>1, <1>2, <1>3 DEF AcksAnswered, AllAnswered

(* Acknowledging an answered message settles only answered messages. *)
LEMMA AcknowledgeAnswered ==
    ASSUME TypeOK, NeverSettledUnsent, NEW m \in done, Acknowledge(m), done' = done
    PROVE  NeverSettledUnsent'
BY DEF Acknowledge, NeverSettledUnsent, TypeOK

(* Settling one report keeps both. *)
LEMMA SettleAnswered ==
    ASSUME TypeOK, NeverSettledUnsent, ReportsAnswered, Settle, done' = done
    PROVE  NeverSettledUnsent' /\ ReportsAnswered'
<1> DEFINE f == Head(finished)
<1>1. /\ f = finished[1] /\ 1 \in DOMAIN finished
      /\ DOMAIN finished = 1..Len(finished) /\ Len(finished) \in Nat
  BY EmptySeq, LenProperties DEF Settle, TypeOK
<1>2. f.delivered => f.msg \in done
  BY <1>1 DEF ReportsAnswered
<1>3. (f.delivered /\ Acknowledge(f.msg)) \/ at' = at
  BY DEF Settle
<1>4. NeverSettledUnsent'
  BY <1>2, <1>3, AcknowledgeAnswered DEF NeverSettledUnsent
<1>5. /\ finished' = Tail(finished) /\ Len(finished') = Len(finished) - 1
      /\ \A i \in 1..Len(finished') : finished'[i] = finished[i + 1]
  BY HeadTailProperties DEF Settle, TypeOK
<1>6. DOMAIN finished' = 1..Len(finished')
  BY SettleType, LenProperties
<1> QED BY <1>1, <1>4, <1>5, <1>6 DEF ReportsAnswered

(* Nothing is settled, reported or owed an acknowledgement at the start. *)
LEMMA AnsweredInit == Init => AnsweredInv
BY DEF Init, AnsweredInv, NeverSettledUnsent, ReportsAnswered, AcksAnswered, AllAnswered

(* Every step keeps settled messages, delivered reports and owed           *)
(* acknowledgements among the messages whose handler is finished.          *)
LEMMA AnsweredNext == TypeOK /\ AnsweredInv /\ [Next]_vars => AnsweredInv'
<1> SUFFICES ASSUME TypeOK, AnsweredInv, [Next]_vars PROVE AnsweredInv'
  OBVIOUS
<1> USE DEF AnsweredInv
<1>1. CASE Reclaim
  BY <1>1 DEF Reclaim, TypeOK, NeverSettledUnsent, ReportsAnswered, AcksAnswered, AllAnswered
<1>2. CASE Top \/ HeldEnough \/ Plan \/ AwaitRoom \/ ForgetRetired \/ WorkDone
           \/ TakeNothing \/ Leave \/ RoomStopped \/ Park \/ Stop
  BY <1>2 DEF Top, HeldEnough, Plan, AwaitRoom, ForgetRetired, WorkDone, TakeNothing,
     Leave, RoomStopped, Park, Stop, Goto, NeverSettledUnsent, ReportsAnswered, AcksAnswered, AllAnswered
<1>3. CASE CollectOne \/ RoomOne
  <2>1. NeverSettledUnsent' /\ ReportsAnswered'
    BY <1>3, SettleAnswered DEF CollectOne, RoomOne
  <2>2. AcksAnswered'
    BY <1>3 DEF CollectOne, RoomOne, loop, AcksAnswered, AllAnswered
  <2> QED BY <2>1, <2>2
<1>4. CASE CollectedAll
  BY <1>4, OffersAnswered DEF CollectedAll, NeverSettledUnsent, ReportsAnswered
<1>5. CASE HoldOne
  BY <1>5, OffersAnswered, SettleAnswered DEF HoldOne
<1>6. CASE \E m \in Msg : Take(m)
  BY <1>6 DEF Take, TypeOK, NeverSettledUnsent, ReportsAnswered, AcksAnswered, AllAnswered
<1>7. CASE TakeFails
  BY <1>7 DEF TakeFails, Goto, TypeOK, NeverSettledUnsent, ReportsAnswered, AcksAnswered, AllAnswered
<1>8. CASE Drop
  BY <1>8 DEF Drop, Do, NeverSettledUnsent, ReportsAnswered, AcksAnswered, AllAnswered
<1>9. CASE Give
  BY <1>9 DEF Give, Do, NeverSettledUnsent, ReportsAnswered, AcksAnswered, AllAnswered
<1>10. CASE WorkAck
  <2>1. todo[1] = First /\ 1 \in DOMAIN todo
    BY <1>10, EmptySeq, LenProperties DEF WorkAck, First, TypeOK
  <2>2. First.msg \in done
    BY <1>10, <2>1 DEF WorkAck, AcksAnswered, AllAnswered
  <2>3. NeverSettledUnsent'
    BY <1>10, <2>2, AcknowledgeAnswered DEF WorkAck
  <2>4. AcksAnswered'
    BY <1>10, RestAnswered DEF WorkAck
  <2> QED BY <1>10, <2>3, <2>4 DEF WorkAck, ReportsAnswered
<1>11. CASE Repark \/ HandlerTook
  <2>1. AcksAnswered'
    BY <1>11, RestAnswered DEF Repark, HandlerTook, HandsOver
  <2> QED BY <1>11, <2>1 DEF Repark, HandlerTook, NeverSettledUnsent, ReportsAnswered
<1>12. ASSUME NEW c \in BOOLEAN, HandlerRaised(c) \/ HandlerReturned(c)
       PROVE  AnsweredInv'
  <2>1. NeverSettledUnsent' /\ ReportsAnswered'
    BY <1>12 DEF HandlerRaised, HandlerReturned, NeverSettledUnsent, ReportsAnswered
  <2>2. todo # <<>> /\ done \subseteq done' /\ (~c => First.msg \in done')
    BY <1>12 DEF HandlerRaised, HandlerReturned, HandsOver
  <2>3. Rest \in Seq(Work) /\ AllAnswered(Rest, done')
    <3>1. Len(Rest) = Len(todo) - 1 /\ \A i \in 1..Len(Rest) : Rest[i] = todo[i + 1]
      BY <2>2, HeadTailProperties DEF TypeOK, Rest
    <3>2. DOMAIN todo = 1..Len(todo) /\ Len(todo) \in Nat
      BY LenProperties DEF TypeOK
    <3>3. Rest \in Seq(Work) /\ DOMAIN Rest = 1..Len(Rest)
      BY <2>2, WorkType, LenProperties DEF Work
    <3>4. \A i \in DOMAIN Rest : i + 1 \in DOMAIN todo /\ Rest[i] = todo[i + 1]
      BY <3>1, <3>2, <3>3
    <3> QED BY <2>2, <3>3, <3>4 DEF AcksAnswered, AllAnswered
  <2> DEFINE settled == IF c THEN <<>> ELSE <<Do("ack", First.msg)>>
  <2>4. settled \in Seq(Work) /\ AllAnswered(settled, done')
    <3>1. Do("ack", First.msg) \in Work
      BY <2>2, WorkType DEF Do, Ops, Work
    <3>2. CASE c
      BY <3>2, EmptySeq DEF AllAnswered
    <3>3. CASE ~c
      BY <2>2, <3>1, <3>3 DEF AllAnswered, Do
    <3> QED BY <3>2, <3>3
  <2>5. Offers(parked) \in Seq(Work) /\ AllAnswered(Offers(parked), done')
    BY OffersType DEF TypeOK, AllAnswered
  <2>6. todo' = Offers(parked) \o settled \o Rest \/ todo' = settled \o Rest
    <3>1. CASE HandlerRaised(c)
      BY <3>1 DEF HandlerRaised
    <3>2. CASE HandlerReturned(c)
      BY <2>3, <3>2, ConcatEmptySeq DEF HandlerReturned
    <3> QED BY <1>12, <3>1, <3>2
  <2> HIDE DEF settled
  <2>7. /\ AllAnswered(settled \o Rest, done')
        /\ AllAnswered(Offers(parked) \o settled \o Rest, done')
    <3>1. /\ Offers(parked) \o settled \in Seq(Work)
          /\ AllAnswered(Offers(parked) \o settled, done')
      BY <2>4, <2>5, JoinAnswered
    <3> QED BY <2>3, <2>4, <3>1, JoinAnswered
  <2>8. AcksAnswered'
    BY <2>6, <2>7 DEF AcksAnswered
  <2> QED BY <2>1, <2>8
<1>13. ASSUME NEW m \in Msg, OnComplete(m) \/ OnRefused(m) PROVE AnsweredInv'
  <2>1. NeverSettledUnsent' /\ AcksAnswered' /\ done \subseteq done'
    BY <1>13 DEF OnComplete, OnRefused, loop, NeverSettledUnsent, AcksAnswered, AllAnswered
  <2>2. PICK d \in BOOLEAN : /\ finished' = Append(finished, [msg |-> m, delivered |-> d])
                             /\ d => m \in done'
    BY <1>13 DEF OnComplete, OnRefused
  <2>3. ReportsAnswered'
    <3>1. /\ Len(finished') = Len(finished) + 1 /\ Len(finished) \in Nat
          /\ DOMAIN finished = 1..Len(finished) /\ DOMAIN finished' = 1..Len(finished')
          /\ finished'[Len(finished) + 1] = [msg |-> m, delivered |-> d]
          /\ \A i \in 1..Len(finished) : finished'[i] = finished[i]
      BY <2>2, AppendProperties, LenProperties DEF TypeOK
    <3> QED BY <2>1, <2>2, <3>1 DEF ReportsAnswered
  <2> QED BY <2>1, <2>3
<1>14. CASE \E m \in Msg : CancelSend(m)
  BY <1>14 DEF CancelSend, loop, NeverSettledUnsent, ReportsAnswered, AcksAnswered, AllAnswered
<1>15. CASE \E s \in cfg.lanes : Serve(s)
  BY <1>15 DEF Serve, loop, NeverSettledUnsent, ReportsAnswered, AcksAnswered, AllAnswered
<1>16. CASE Crash
  BY <1>16 DEF Crash, TypeOK, NeverSettledUnsent, ReportsAnswered, AcksAnswered, AllAnswered
<1>17. CASE UNCHANGED vars
  BY <1>17 DEF vars, NeverSettledUnsent, ReportsAnswered, AcksAnswered, AllAnswered
<1> QED
  BY <1>1, <1>2, <1>3, <1>4, <1>5, <1>6, <1>7, <1>8, <1>9, <1>10, <1>11, <1>12,
     <1>13, <1>14, <1>15, <1>16, <1>17 DEF Next, Run, Report, Ended

(* No message is settled whose handler is not finished with it, whatever   *)
(* the budgets, however sends are refused, cancelled or raise, and however *)
(* often the process dies.                                                 *)
THEOREM SettledOnlyWhenAnswered == Spec => []NeverSettledUnsent
<1>1. AnsweredInv => NeverSettledUnsent
  BY DEF AnsweredInv
<1> QED BY <1>1, AnsweredInit, AnsweredNext, TypeInit, TypeNext, PTL DEF Spec

-----------------------------------------------------------------------------
(* Where a message is in the consumer's hands *)

(* The messages of one kind of work; those reported over and not collected; *)
(* and those whose send is under way, or lost with its loop.               *)
Of(op, work) == {m \in Msg : Do(op, m) \in Entries(work)}
Parked == Entries(parked)
Reported == {f.msg : f \in Entries(finished)}
Open == {m \in Msg : fate[m] \in {"open", "lost"}}
Reading == IF cur = NoMsg THEN {} ELSE {cur}

Offered == Of("offer", todo)
Given == Of("give", todo)
Acked == Of("ack", todo)

(* The work of a call stack is emptied before the loop goes on, and a       *)
(* message just read is handed over with nothing below it.                 *)
Stack ==
    /\ pc # "work" => todo = <<>>
    /\ Given # {} => Len(todo) = 1

(* No queue of the consumer's holds a message twice ... *)
Solo(s) == \A i, j \in DOMAIN s : s[i] = s[j] => i = j
SoloReport(s) == \A i, j \in DOMAIN s : s[i].msg = s[j].msg => i = j
SoloWork(s) == \A i, j \in DOMAIN s : s[i].op # "ack" /\ s[i] = s[j] => i = j
Once == Solo(parked) /\ SoloReport(finished) /\ SoloWork(todo)

(* ... and no two of them the same one. *)
Apart ==
    /\ Open \cap (Reported \cup Parked \cup Offered \cup Given \cup Reading) = {}
    /\ Reported \cap (Parked \cup Offered \cup Given \cup Reading) = {}
    /\ Parked \cap (Offered \cup Given \cup Reading) = {}
    /\ Offered \cap Given = {}

(* What is in the consumer's hands was taken and has not gone back. *)
Hand == {m \in Msg : at[m] \in {"held", "settled"}}
Custody ==
    Open \cup Reported \cup Parked \cup Offered \cup Given \cup Acked \cup Reading \subseteq Hand

(* The slots of a queue are the messages counted on it, those of a bot the  *)
(* sends under way to it, and a queue with a slot taken has its books.     *)
Sends == Reported \cup Open
Counted == Parked \cup Offered \cup Sends
Under(holders, home, q) == {m \in holders : home[m] = q}
SlotsExact == \A q \in Queue : inFlight[q] = Cardinality(Under(Counted, book, q))
SendsExact == \A b \in Bot : sending[b] = Cardinality(Under(Sends, BotOf, b))
Booked == \A q \in Queue : inFlight[q] # 0 => q \in books
Exact == SlotsExact /\ SendsExact /\ Booked

(* A handler that keeps no books leaves none. *)
Immediate == ~cfg.defers => Counted = {}

(* Where a message is about to be counted there is room for it. *)
Free(q) == ~AtCapacity(q) \/ (q = Own /\ MayShrink)
Room ==
    /\ Entries(served) \subseteq books
    /\ pc = "read" => \A q \in asked : q \in books /\ Free(q)
    /\ pc \in {"dispatch", "room"} => QueueOf[cur] \in books /\ Free(QueueOf[cur])
    /\ cfg.lanes = {<<Own>>} /\ pc \in {"retry", "forget", "plan"} => ~AtCapacity(Own)
    /\ \A m \in Given : Free(book[m])

(* A parked message is of a bot that has no room, unless settlements are    *)
(* being collected, and one handed over is of a bot that has; without a    *)
(* budget on the queues nothing is parked.                                 *)
Turn ==
    /\ cfg.limit = 0 => Parked = {} /\ Offered = {}
    /\ pc = "room" => cfg.limit = 0
    /\ pc # "collect" => \A m \in Parked : BotAtCapacity(BotOf[m])
    /\ \A m \in Given : ~BotAtCapacity(BotOf[m])

BooksInv == /\ TypeOK /\ Stack /\ Once /\ Apart /\ Custody
            /\ Exact /\ Immediate /\ Room /\ WithinBudget /\ Turn

-----------------------------------------------------------------------------
(* Lemmas about sequences as the places of messages *)

LEMMA EntriesAre ==
    ASSUME NEW S, NEW s \in Seq(S)
    PROVE  /\ Len(s) \in Nat /\ DOMAIN s = 1..Len(s) /\ Entries(s) \subseteq S
           /\ s # <<>> => /\ Len(Tail(s)) = Len(s) - 1 /\ Tail(s) \in Seq(S)
                          /\ DOMAIN Tail(s) = 1..(Len(s) - 1) /\ Head(s) = s[1] /\ 1 \in DOMAIN s
                          /\ \A i \in 1..(Len(s) - 1) : Tail(s)[i] = s[i + 1]
<1>1. Len(s) \in Nat /\ DOMAIN s = 1..Len(s)
  BY LenProperties
<1>2. Entries(s) \subseteq S
  BY <1>1, ElementOfSeq DEF Entries
<1>3. ASSUME s # <<>>
      PROVE  /\ Len(Tail(s)) = Len(s) - 1 /\ Tail(s) \in Seq(S)
             /\ DOMAIN Tail(s) = 1..(Len(s) - 1) /\ Head(s) = s[1] /\ 1 \in DOMAIN s
             /\ \A i \in 1..(Len(s) - 1) : Tail(s)[i] = s[i + 1]
  <2>1. Tail(s) \in Seq(S) /\ Len(Tail(s)) = Len(s) - 1
        /\ \A i \in 1..Len(Tail(s)) : Tail(s)[i] = s[i + 1]
    BY <1>3, HeadTailProperties
  <2>2. DOMAIN Tail(s) = 1..Len(Tail(s))
    BY <2>1, LenProperties
  <2>3. Len(s) \in Nat \ {0}
    BY <1>3, EmptySeq
  <2> QED
    BY <1>1, <2>1, <2>2, <2>3
<1> QED
  BY <1>1, <1>2, <1>3

LEMMA EntriesTail ==
    ASSUME NEW S, NEW s \in Seq(S), s # <<>>
    PROVE  Entries(s) = {Head(s)} \cup Entries(Tail(s))
<1>1. /\ Len(s) \in Nat /\ DOMAIN s = 1..Len(s) /\ Head(s) = s[1] /\ 1 \in DOMAIN s
      /\ DOMAIN Tail(s) = 1..(Len(s) - 1) /\ \A i \in 1..(Len(s) - 1) : Tail(s)[i] = s[i + 1]
  BY EntriesAre
<1>2. ASSUME NEW i \in DOMAIN s PROVE s[i] = s[1] \/ s[i] \in Entries(Tail(s))
  <2>1. i = 1 \/ (i - 1 \in DOMAIN Tail(s) /\ Tail(s)[i - 1] = s[i])
    BY <1>1
  <2> QED
    BY <2>1 DEF Entries
<1>3. ASSUME NEW i \in DOMAIN Tail(s) PROVE Tail(s)[i] \in Entries(s)
  <2>1. i + 1 \in DOMAIN s /\ Tail(s)[i] = s[i + 1]
    BY <1>1
  <2> QED
    BY <2>1 DEF Entries
<1> QED
  BY <1>1, <1>2, <1>3 DEF Entries

LEMMA EntriesAppend ==
    ASSUME NEW S, NEW s \in Seq(S), NEW e \in S
    PROVE  /\ Entries(Append(s, e)) = Entries(s) \cup {e}
           /\ DOMAIN Append(s, e) = 1..(Len(s) + 1) /\ Append(s, e)[Len(s) + 1] = e
           /\ \A i \in DOMAIN s : Append(s, e)[i] = s[i]
<1>1. /\ Len(s) \in Nat /\ DOMAIN s = 1..Len(s)
      /\ DOMAIN Append(s, e) = 1..(Len(s) + 1) /\ Append(s, e)[Len(s) + 1] = e
      /\ \A i \in 1..Len(s) : Append(s, e)[i] = s[i]
  BY AppendProperties, LenProperties
<1>2. ASSUME NEW i \in 1..(Len(s) + 1) PROVE Append(s, e)[i] \in Entries(s) \cup {e}
  BY <1>1 DEF Entries
<1>3. Entries(s) \cup {e} \subseteq Entries(Append(s, e))
  BY <1>1 DEF Entries
<1>4. Entries(Append(s, e)) \subseteq Entries(s) \cup {e}
  BY <1>1, <1>2 DEF Entries
<1> QED
  BY <1>1, <1>3, <1>4

LEMMA EntriesJoin ==
    ASSUME NEW S, NEW s \in Seq(S), NEW t \in Seq(S)
    PROVE  /\ Entries(s \o t) = Entries(s) \cup Entries(t)
           /\ DOMAIN (s \o t) = 1..(Len(s) + Len(t))
           /\ \A i \in 1..(Len(s) + Len(t)) :
                 (s \o t)[i] = IF i <= Len(s) THEN s[i] ELSE t[i - Len(s)]
<1>1. /\ Len(s) \in Nat /\ DOMAIN s = 1..Len(s) /\ Len(t) \in Nat /\ DOMAIN t = 1..Len(t)
      /\ DOMAIN (s \o t) = 1..(Len(s) + Len(t))
      /\ \A i \in 1..(Len(s) + Len(t)) :
            (s \o t)[i] = IF i <= Len(s) THEN s[i] ELSE t[i - Len(s)]
  BY ConcatProperties, LenProperties
<1>2. ASSUME NEW i \in 1..(Len(s) + Len(t)) PROVE (s \o t)[i] \in Entries(s) \cup Entries(t)
  <2>1. CASE i <= Len(s)
    BY <1>1, <2>1 DEF Entries
  <2>2. CASE i > Len(s)
    <3>1. i - Len(s) \in DOMAIN t /\ (s \o t)[i] = t[i - Len(s)]
      BY <1>1, <2>2
    <3> QED
      BY <3>1 DEF Entries
  <2> QED
    BY <1>1, <2>1, <2>2
<1>3. ASSUME NEW i \in DOMAIN s PROVE s[i] \in Entries(s \o t)
  BY <1>1 DEF Entries
<1>4. ASSUME NEW i \in DOMAIN t PROVE t[i] \in Entries(s \o t)
  <2>1. i + Len(s) \in DOMAIN (s \o t) /\ (s \o t)[i + Len(s)] = t[i]
    BY <1>1
  <2> QED
    BY <2>1 DEF Entries
<1>5. Entries(s \o t) \subseteq Entries(s) \cup Entries(t)
  BY <1>1, <1>2 DEF Entries
<1>6. Entries(s) \cup Entries(t) \subseteq Entries(s \o t)
  <2> SUFFICES ASSUME NEW e \in Entries(s) \cup Entries(t) PROVE e \in Entries(s \o t)
    OBVIOUS
  <2>1. (\E i \in DOMAIN s : e = s[i]) \/ (\E i \in DOMAIN t : e = t[i])
    BY DEF Entries
  <2> QED
    BY <1>3, <1>4, <2>1
<1> QED
  BY <1>1, <1>5, <1>6

(* A queue of distinct messages, less its first or with a new one. *)
LEMMA SoloTail ==
    ASSUME NEW s \in Seq(Msg), Solo(s), s # <<>>
    PROVE  Solo(Tail(s)) /\ Head(s) \notin Entries(Tail(s))
  BY EntriesAre DEF Solo, Entries

LEMMA SoloAppend ==
    ASSUME NEW s \in Seq(Msg), Solo(s), NEW e \in Msg \ Entries(s)
    PROVE  Solo(Append(s, e))
<1>1. /\ Len(s) \in Nat /\ DOMAIN s = 1..Len(s)
      /\ DOMAIN Append(s, e) = 1..(Len(s) + 1) /\ Append(s, e)[Len(s) + 1] = e
      /\ \A i \in DOMAIN s : Append(s, e)[i] = s[i] /\ s[i] # e
  BY EntriesAre, EntriesAppend DEF Entries
<1> QED
  BY <1>1 DEF Solo

Settlement == [msg : Msg, delivered : BOOLEAN]

LEMMA ReportTail ==
    ASSUME NEW s \in Seq(Settlement), SoloReport(s), s # <<>>
    PROVE  /\ Head(s).msg \in Msg /\ SoloReport(Tail(s))
           /\ {f.msg : f \in Entries(Tail(s))} = {f.msg : f \in Entries(s)} \ {Head(s).msg}
<1>1. /\ Len(s) \in Nat /\ DOMAIN s = 1..Len(s) /\ Head(s) = s[1] /\ 1 \in DOMAIN s
      /\ DOMAIN Tail(s) = 1..(Len(s) - 1) /\ \A i \in 1..(Len(s) - 1) : Tail(s)[i] = s[i + 1]
      /\ Head(s) \in Settlement
  BY EntriesAre, HeadTailProperties
<1>2. SoloReport(Tail(s))
  BY <1>1 DEF SoloReport
<1>3. Entries(s) = {Head(s)} \cup Entries(Tail(s))
  BY EntriesTail
<1>4. \A f \in Entries(Tail(s)) : f.msg # Head(s).msg
  BY <1>1 DEF SoloReport, Entries
<1> QED
  BY <1>1, <1>2, <1>3, <1>4 DEF Settlement

LEMMA ReportAppend ==
    ASSUME NEW s \in Seq(Settlement), SoloReport(s), NEW e \in Settlement,
           e.msg \notin {f.msg : f \in Entries(s)}
    PROVE  /\ SoloReport(Append(s, e))
           /\ {f.msg : f \in Entries(Append(s, e))} = {f.msg : f \in Entries(s)} \cup {e.msg}
<1>1. /\ Len(s) \in Nat /\ DOMAIN s = 1..Len(s)
      /\ DOMAIN Append(s, e) = 1..(Len(s) + 1) /\ Append(s, e)[Len(s) + 1] = e
      /\ \A i \in DOMAIN s : Append(s, e)[i] = s[i]
  BY EntriesAre, EntriesAppend
<1>2. \A i \in DOMAIN s : s[i].msg # e.msg
  BY DEF Entries
<1>3. SoloReport(Append(s, e))
  BY <1>1, <1>2 DEF SoloReport
<1>4. Entries(Append(s, e)) = Entries(s) \cup {e}
  BY EntriesAppend
<1> QED
  BY <1>3, <1>4

(* What is left of the work after its first piece. *)
LEMMA WorkTail ==
    ASSUME NEW s \in Seq(Work), s # <<>>
    PROVE  /\ Head(s) \in Work /\ Tail(s) \in Seq(Work)
           /\ \A op : Of(op, s) = Of(op, Tail(s)) \cup IF Head(s).op = op THEN {Head(s).msg} ELSE {}
           /\ SoloWork(s) => SoloWork(Tail(s))
           /\ SoloWork(s) /\ Head(s).op # "ack" => Head(s).msg \notin Of(Head(s).op, Tail(s))
<1>1. /\ Len(s) \in Nat /\ DOMAIN s = 1..Len(s) /\ Head(s) = s[1] /\ 1 \in DOMAIN s
      /\ DOMAIN Tail(s) = 1..(Len(s) - 1) /\ \A i \in 1..(Len(s) - 1) : Tail(s)[i] = s[i + 1]
      /\ Head(s) \in Work /\ Tail(s) \in Seq(Work)
  BY EntriesAre, HeadTailProperties
<1>2. Entries(s) = {Head(s)} \cup Entries(Tail(s))
  BY EntriesTail
<1>3. \A op : Of(op, s) = Of(op, Tail(s)) \cup IF Head(s).op = op THEN {Head(s).msg} ELSE {}
  BY <1>1, <1>2 DEF Of, Do, Work
<1>4. SoloWork(s) => SoloWork(Tail(s))
  BY <1>1 DEF SoloWork
<1>5. ASSUME SoloWork(s), Head(s).op # "ack" PROVE Head(s).msg \notin Of(Head(s).op, Tail(s))
  <2>1. Do(Head(s).op, Head(s).msg) = Head(s)
    BY <1>1 DEF Do, Work
  <2>2. \A i \in DOMAIN Tail(s) : Tail(s)[i] # Head(s)
    BY <1>1, <1>5 DEF SoloWork
  <2> QED
    BY <2>1, <2>2 DEF Of, Entries
<1> QED
  BY <1>1, <1>3, <1>4, <1>5

LEMMA WorkJoin ==
    ASSUME NEW s \in Seq(Work), NEW t \in Seq(Work)
    PROVE  /\ s \o t \in Seq(Work) /\ \A op : Of(op, s \o t) = Of(op, s) \cup Of(op, t)
           /\ (/\ SoloWork(s) /\ SoloWork(t)
               /\ Of("offer", s) \cap Of("offer", t) = {} /\ Of("give", s) \cap Of("give", t) = {})
              => SoloWork(s \o t)
<1>1. /\ Len(s) \in Nat /\ DOMAIN s = 1..Len(s) /\ Len(t) \in Nat /\ DOMAIN t = 1..Len(t)
      /\ Entries(s) \subseteq Work /\ Entries(t) \subseteq Work
      /\ Entries(s \o t) = Entries(s) \cup Entries(t)
      /\ DOMAIN (s \o t) = 1..(Len(s) + Len(t))
      /\ \A i \in 1..(Len(s) + Len(t)) :
            (s \o t)[i] = IF i <= Len(s) THEN s[i] ELSE t[i - Len(s)]
  BY EntriesAre, EntriesJoin
<1>2. \A op : Of(op, s \o t) = Of(op, s) \cup Of(op, t)
  BY <1>1 DEF Of
<1>3. ASSUME SoloWork(s), SoloWork(t),
             Of("offer", s) \cap Of("offer", t) = {}, Of("give", s) \cap Of("give", t) = {}
      PROVE  SoloWork(s \o t)
  <2>1. ASSUME NEW i \in DOMAIN s, NEW j \in DOMAIN t, s[i] = t[j] PROVE s[i].op = "ack"
    <3>1. s[i] \in Work /\ s[i] \in Entries(s) /\ s[i] \in Entries(t)
      BY <1>1, <2>1 DEF Entries
    <3>2. s[i] = Do(s[i].op, s[i].msg) /\ s[i].op \in Ops /\ s[i].msg \in Msg
      BY <3>1 DEF Work, Do
    <3>3. s[i].msg \in Of(s[i].op, s) \cap Of(s[i].op, t)
      BY <3>1, <3>2 DEF Of
    <3> QED
      BY <1>3, <3>2, <3>3 DEF Ops
  <2> SUFFICES ASSUME NEW i \in DOMAIN (s \o t), NEW j \in DOMAIN (s \o t),
                      (s \o t)[i].op # "ack", (s \o t)[i] = (s \o t)[j]
               PROVE  i = j
    BY DEF SoloWork
  <2>2. CASE i <= Len(s) /\ j <= Len(s)
    BY <1>1, <1>3, <2>2 DEF SoloWork
  <2>3. CASE i > Len(s) /\ j > Len(s)
    BY <1>1, <1>3, <2>3 DEF SoloWork
  <2>4. CASE i <= Len(s) /\ j > Len(s)
    <3>1. i \in DOMAIN s /\ j - Len(s) \in DOMAIN t /\ s[i] = t[j - Len(s)] /\ s[i].op # "ack"
      BY <1>1, <2>4
    <3> QED
      BY <2>1, <3>1
  <2>5. CASE i > Len(s) /\ j <= Len(s)
    <3>1. j \in DOMAIN s /\ i - Len(s) \in DOMAIN t /\ s[j] = t[i - Len(s)] /\ s[j].op # "ack"
      BY <1>1, <2>5
    <3> QED
      BY <2>1, <3>1
  <2> QED
    BY <1>1, <2>2, <2>3, <2>4, <2>5
<1> QED
  BY <1>2, <1>3, ConcatProperties

LEMMA WorkOne ==
    ASSUME NEW op \in Ops, NEW m \in Msg
    PROVE  /\ <<Do(op, m)>> \in Seq(Work) /\ SoloWork(<<Do(op, m)>>)
           /\ Of(op, <<Do(op, m)>>) = {m} /\ \A o : o # op => Of(o, <<Do(op, m)>>) = {}
<1>1. Do(op, m) \in Work
  BY DEF Do, Work
<1>2. Entries(<<Do(op, m)>>) = {Do(op, m)}
  BY DEF Entries
<1> QED
  BY <1>1, <1>2 DEF Of, Do, SoloWork

LEMMA WorkNone ==
    /\ <<>> \in Seq(Work) /\ SoloWork(<<>>) /\ \A op : Of(op, <<>>) = {}
  BY EmptySeq DEF SoloWork, Of, Entries

(* A walk holds each parked message once. *)
LEMMA WorkOffers ==
    ASSUME NEW s \in Seq(Msg)
    PROVE  /\ Offers(s) \in Seq(Work) /\ (Solo(s) => SoloWork(Offers(s)))
           /\ Of("offer", Offers(s)) = Entries(s)
           /\ \A op : op # "offer" => Of(op, Offers(s)) = {}
<1>1. /\ Len(s) \in Nat /\ DOMAIN s = 1..Len(s) /\ Entries(s) \subseteq Msg
  BY EntriesAre
<1>2. DOMAIN Offers(s) = DOMAIN s /\ \A i \in DOMAIN s : Offers(s)[i] = Do("offer", s[i])
  BY <1>1 DEF Offers
<1>3. \A i \in DOMAIN s : Offers(s)[i].op = "offer" /\ Offers(s)[i].msg = s[i]
  BY <1>2 DEF Do
<1>4. Solo(s) => SoloWork(Offers(s))
  BY <1>2, <1>3 DEF Solo, SoloWork
<1>5. \A op : op # "offer" => Of(op, Offers(s)) = {}
  BY <1>2, <1>3 DEF Of, Entries, Do
<1>6. Of("offer", Offers(s)) = Entries(s)
  <2>1. ASSUME NEW m \in Msg, Do("offer", m) \in Entries(Offers(s)) PROVE m \in Entries(s)
    BY <1>2, <1>3, <2>1 DEF Entries, Do
  <2>2. ASSUME NEW m \in Entries(s) PROVE Do("offer", m) \in Entries(Offers(s))
    BY <1>2 DEF Entries
  <2> QED
    BY <1>1, <2>1, <2>2 DEF Of
<1> QED
  BY <1>4, <1>5, <1>6, OffersType

-----------------------------------------------------------------------------
(* What each step does to the places *)

PlaceInv == TypeOK /\ Stack /\ Once /\ Apart /\ Custody

Places(p, o, g, r, u) ==
    Parked' = p /\ Offered' = o /\ Given' = g /\ Reported' = r /\ Open' = u /\ Once'

LEMMA Typed ==
    ASSUME TypeOK
    PROVE  /\ parked \in Seq(Msg) /\ finished \in Seq(Settlement) /\ todo \in Seq(Work)
           /\ fate \in [Msg -> {"none", "open", "reported", "refused", "lost"}]
           /\ Parked \subseteq Msg /\ Reported \subseteq Msg
           /\ Offered \subseteq Msg /\ Given \subseteq Msg /\ Open \subseteq Msg
<1>1. parked \in Seq(Msg) /\ finished \in Seq(Settlement) /\ todo \in Seq(Work)
      /\ fate \in [Msg -> {"none", "open", "reported", "refused", "lost"}]
  BY DEF TypeOK, Settlement, Work
<1>2. Entries(parked) \subseteq Msg /\ Entries(finished) \subseteq Settlement
  BY <1>1, EntriesAre
<1> QED
  BY <1>1, <1>2 DEF Parked, Reported, Offered, Given, Open, Of, Settlement

(* The consumer's queues as they were. *)
LEMMA PlacesKept ==
    ASSUME Once, UNCHANGED <<parked, finished, todo>>, Open' = Open
    PROVE  Places(Parked, Offered, Given, Reported, Open)
  BY DEF Once, Places, Parked, Offered, Given, Reported, Of

(* A settlement taken off, the parked messages left alone or walked. *)
LEMMA PlacesSettled ==
    ASSUME PlaceInv, Settle, UNCHANGED fate
    PROVE  /\ Head(finished).msg \in Reported
           /\ UNCHANGED <<parked, todo>> =>
                 Places(Parked, Offered, Given, Reported \ {Head(finished).msg}, Open)
           /\ todo = <<>> /\ todo' = Offers(parked) /\ parked' = <<>> =>
                 Places({}, Parked, {}, Reported \ {Head(finished).msg}, Open)
<1>1. finished \in Seq(Settlement) /\ finished # <<>> /\ finished' = Tail(finished)
      /\ SoloReport(finished) /\ parked \in Seq(Msg) /\ Solo(parked)
  BY Typed DEF PlaceInv, Settle, Once
<1>2. Reported' = Reported \ {Head(finished).msg} /\ SoloReport(finished')
  BY <1>1, ReportTail DEF Reported
<1>3. Head(finished).msg \in Reported
  BY <1>1, EntriesTail DEF Reported
<1>4. Open' = Open
  BY DEF Open
<1>5. ASSUME UNCHANGED <<parked, todo>>
      PROVE  Places(Parked, Offered, Given, Reported \ {Head(finished).msg}, Open)
  BY <1>2, <1>4, <1>5 DEF PlaceInv, Once, Places, Parked, Offered, Given, Of
<1>6. ASSUME todo' = Offers(parked), parked' = <<>>
      PROVE  Places({}, Parked, {}, Reported \ {Head(finished).msg}, Open)
  <2>1. SoloWork(todo') /\ Offered' = Parked /\ Given' = {}
    BY <1>1, <1>6, WorkOffers DEF Offered, Given, Parked
  <2>2. Parked' = {} /\ Solo(parked')
    BY <1>6 DEF Parked, Entries, Solo
  <2> QED
    BY <1>2, <1>4, <2>1, <2>2 DEF Once, Places
<1> QED
  BY <1>3, <1>5, <1>6

LEMMA PlacesWalked ==
    ASSUME PlaceInv, CollectedAll
    PROVE  Places({}, Parked, {}, Reported, Open)
<1>1. parked \in Seq(Msg) /\ Solo(parked) /\ todo' = Offers(parked) /\ parked' = <<>>
      /\ finished' = finished /\ fate' = fate
  BY Typed DEF PlaceInv, Once, CollectedAll
<1>2. SoloWork(todo') /\ Offered' = Parked /\ Given' = {}
  BY <1>1, WorkOffers DEF Offered, Given, Parked
<1>3. Parked' = {} /\ Solo(parked')
  BY <1>1 DEF Parked, Entries, Solo
<1> QED
  BY <1>1, <1>2, <1>3 DEF PlaceInv, Once, Places, Reported, Open

(* The message just read: dropped, parked or given to the handler. *)
LEMMA PlacesRead ==
    ASSUME PlaceInv, Drop \/ Park \/ Give
    PROVE  /\ cur \in Msg /\ cur \notin Counted /\ todo = <<>> /\ Offered = {} /\ Given = {}
           /\ Drop => Places(Parked, {}, {}, Reported, Open) /\ Acked' = {cur}
           /\ Park => Places(Parked \cup {cur}, {}, {}, Reported, Open) /\ Acked' = {}
           /\ Give => Places(Parked, {}, {cur}, Reported, Open) /\ Acked' = {}
<1>1. cur \in Msg /\ todo = <<>> /\ cur # NoMsg
  BY DEF PlaceInv, TypeOK, Stack, Drop, Park, Give
<1>2. Offered = {} /\ Given = {} /\ Acked = {}
  BY <1>1, WorkNone DEF Offered, Given, Acked
<1>3. cur \notin Counted
  BY <1>1, <1>2 DEF PlaceInv, Apart, Counted, Sends, Reading
<1>4. parked \in Seq(Msg) /\ Once
  BY Typed DEF PlaceInv
<1>5. ASSUME Drop PROVE Places(Parked, {}, {}, Reported, Open) /\ Acked' = {cur}
  <2>1. Offered' = {} /\ Given' = {} /\ Acked' = {cur} /\ SoloWork(todo')
    BY <1>1, <1>5, WorkOne DEF Drop, Offered, Given, Acked, Ops
  <2> QED
    BY <1>4, <1>5, <2>1 DEF Drop, Once, Places, Parked, Reported, Open
<1>6. ASSUME Park PROVE Places(Parked \cup {cur}, {}, {}, Reported, Open) /\ Acked' = {}
  <2>1. parked' = Append(parked, cur) /\ cur \notin Entries(parked) /\ UNCHANGED <<todo, finished, fate>>
    BY <1>3, <1>6 DEF Park, Counted, Parked
  <2>2. Parked' = Parked \cup {cur} /\ Solo(parked')
    BY <1>1, <1>4, <2>1, SoloAppend, EntriesAppend DEF Parked, Once
  <2> QED
    BY <1>2, <1>4, <2>1, <2>2 DEF Once, Places, Reported, Open, Offered, Given, Acked
<1>7. ASSUME Give PROVE Places(Parked, {}, {cur}, Reported, Open) /\ Acked' = {}
  <2>1. Offered' = {} /\ Given' = {cur} /\ Acked' = {} /\ SoloWork(todo')
    BY <1>1, <1>7, WorkOne DEF Give, Offered, Given, Acked, Ops
  <2> QED
    BY <1>4, <1>7, <2>1 DEF Give, Once, Places, Parked, Reported, Open
<1> QED
  BY <1>1, <1>2, <1>3, <1>5, <1>6, <1>7

(* The first piece of work and what is below it. *)
LEMMA PlacesWork ==
    ASSUME PlaceInv, todo # <<>>
    PROVE  /\ First \in Work /\ Rest \in Seq(Work) /\ SoloWork(Rest)
           /\ First.op = "ack" => Of("offer", Rest) = Offered /\ Of("give", Rest) = Given
           /\ First.op # "ack" => /\ Of("offer", Rest) = Offered \ {First.msg}
                                  /\ Of("give", Rest) = Given \ {First.msg}
           /\ Of("give", Rest) = {} /\ (First.op = "offer" => First.msg \in Offered)
           /\ First.op = "give" => First.msg \in Given /\ Rest = <<>>
           /\ First.op = "ack" => First.msg \in Acked
           /\ Of("ack", Rest) \subseteq Acked
<1>1. todo \in Seq(Work) /\ SoloWork(todo)
  BY Typed DEF PlaceInv, Once
<1>2. /\ First \in Work /\ Rest \in Seq(Work) /\ SoloWork(Rest)
      /\ \A op : Of(op, todo) = Of(op, Rest) \cup IF First.op = op THEN {First.msg} ELSE {}
      /\ First.op # "ack" => First.msg \notin Of(First.op, Rest)
  BY <1>1, WorkTail DEF First, Rest
<1>3. (First.op = "give" => Rest = <<>>) /\ Of("give", Rest) = {}
  <2>1. Len(todo) \in Nat /\ Len(Rest) = Len(todo) - 1
    BY <1>1, EntriesAre DEF Rest
  <2>2. Given # {} => Rest = <<>>
    <3>1. Given # {} => Len(Rest) = 0
      BY <2>1 DEF PlaceInv, Stack
    <3>2. Rest # <<>> => Len(Rest) # 0
      BY <1>2, EmptySeq
    <3> QED
      BY <3>1, <3>2
  <2>3. First.op = "give" \/ Of("give", Rest) # {} => Given # {}
    BY <1>2 DEF Given
  <2> QED
    BY <2>2, <2>3, WorkNone
<1>4. Offered \cap Given = {}
  BY DEF PlaceInv, Apart
<1>5. /\ Offered = Of("offer", Rest) \cup IF First.op = "offer" THEN {First.msg} ELSE {}
      /\ Given = Of("give", Rest) \cup IF First.op = "give" THEN {First.msg} ELSE {}
      /\ Acked = Of("ack", Rest) \cup IF First.op = "ack" THEN {First.msg} ELSE {}
  BY <1>2 DEF Offered, Given, Acked
<1>6. First.op \in {"offer", "give", "ack"}
  BY <1>2 DEF Work, Ops
<1>7. CASE First.op = "offer"
  BY <1>2, <1>3, <1>4, <1>5, <1>7
<1>8. CASE First.op = "give"
  BY <1>2, <1>3, <1>4, <1>5, <1>8
<1>9. CASE First.op = "ack"
  BY <1>2, <1>3, <1>5, <1>9
<1> QED
  BY <1>6, <1>7, <1>8, <1>9

LEMMA PlacesWorked ==
    ASSUME PlaceInv
    PROVE  /\ WorkAck => /\ Places(Parked, Offered, Given, Reported, Open)
                         /\ First.msg \in Acked /\ Acked' \subseteq Acked
           /\ Repark => /\ Places(Parked \cup {First.msg}, Offered \ {First.msg}, Given, Reported, Open)
                        /\ First.msg \in Offered /\ Acked' \subseteq Acked
           /\ HandlerTook => /\ Places(Parked, Offered \ {First.msg}, Given \ {First.msg}, Reported,
                                       Open \cup {First.msg})
                             /\ First.msg \in Offered \cup Given /\ Acked' \subseteq Acked
                             /\ First.op = "offer" <=> First.msg \in Offered
                             /\ First.op = "give" => Rest = <<>>
<1>1. parked \in Seq(Msg) /\ Once
  BY Typed DEF PlaceInv
<1>2. ASSUME WorkAck
      PROVE  /\ Places(Parked, Offered, Given, Reported, Open)
             /\ First.msg \in Acked /\ Acked' \subseteq Acked
  BY <1>1, <1>2, PlacesWork
     DEF WorkAck, Once, Places, Parked, Reported, Open, Offered, Given, Acked
<1>3. ASSUME Repark
      PROVE  /\ Places(Parked \cup {First.msg}, Offered \ {First.msg}, Given, Reported, Open)
             /\ First.msg \in Offered /\ Acked' \subseteq Acked
  <2>1. /\ todo # <<>> /\ First.op = "offer" /\ todo' = Rest /\ parked' = Append(parked, First.msg)
        /\ UNCHANGED <<finished, fate>>
    BY <1>3 DEF Repark
  <2>2. First.msg \in Msg /\ First.msg \in Offered /\ First.msg \notin Parked /\ First.msg \notin Given
    BY <2>1, PlacesWork DEF PlaceInv, Apart, Work
  <2>3. Offered' = Offered \ {First.msg} /\ Given' = Given /\ Acked' \subseteq Acked /\ SoloWork(todo')
    BY <2>1, <2>2, PlacesWork DEF Offered, Given, Acked
  <2>4. Parked' = Parked \cup {First.msg} /\ Solo(parked')
    BY <1>1, <2>1, <2>2, SoloAppend, EntriesAppend DEF Parked, Once
  <2> QED
    BY <1>1, <2>1, <2>2, <2>3, <2>4 DEF Once, Places, Reported, Open
<1>4. ASSUME HandlerTook
      PROVE  /\ Places(Parked, Offered \ {First.msg}, Given \ {First.msg}, Reported, Open \cup {First.msg})
             /\ First.msg \in Offered \cup Given /\ Acked' \subseteq Acked
             /\ First.op = "offer" <=> First.msg \in Offered
             /\ First.op = "give" => Rest = <<>>
  <2>1. /\ todo # <<>> /\ First.op \in {"offer", "give"} /\ todo' = Rest
        /\ UNCHANGED <<parked, finished>> /\ fate' = [fate EXCEPT ![First.msg] = "open"]
    BY <1>4 DEF HandlerTook, HandsOver
  <2>2. First.msg \in Msg /\ First.msg \in Offered \cup Given /\ (First.op = "offer" <=> First.msg \in Offered)
        /\ (First.op = "give" => Rest = <<>>)
    BY <2>1, PlacesWork DEF PlaceInv, Apart, Work
  <2>3. /\ Offered' = Offered \ {First.msg} /\ Given' = Given \ {First.msg} /\ Acked' \subseteq Acked
        /\ SoloWork(todo')
    BY <2>1, <2>2, PlacesWork DEF Offered, Given, Acked
  <2>4. Open' = Open \cup {First.msg}
    BY <2>1, <2>2, Typed DEF PlaceInv, Open
  <2> QED
    BY <1>1, <2>1, <2>2, <2>3, <2>4 DEF Once, Places, Reported, Parked
<1> QED
  BY <1>2, <1>3, <1>4

(* The handler raised, or returned where it keeps no books. *)
LEMMA PlacesOver ==
    ASSUME PlaceInv, NEW c \in BOOLEAN
    PROVE  /\ HandlerRaised(c) =>
                 /\ Places({}, Parked \cup (Offered \ {First.msg}), Given \ {First.msg}, Reported, Open)
                 /\ First.msg \in Offered \cup Given /\ Acked' \subseteq Acked \cup {First.msg}
                 /\ First.op = "offer" <=> First.msg \in Offered
           /\ HandlerReturned(c) =>
                 /\ Places(Parked, Offered \ {First.msg}, Given \ {First.msg}, Reported, Open)
                 /\ First.msg \in Offered \cup Given /\ Acked' \subseteq Acked \cup {First.msg}
                 /\ First.op = "offer" <=> First.msg \in Offered
<1> SUFFICES ASSUME HandlerRaised(c) \/ HandlerReturned(c) PROVE
      /\ First.msg \in Offered \cup Given /\ Acked' \subseteq Acked \cup {First.msg}
      /\ First.op = "offer" <=> First.msg \in Offered
      /\ HandlerRaised(c) =>
            Places({}, Parked \cup (Offered \ {First.msg}), Given \ {First.msg}, Reported, Open)
      /\ HandlerReturned(c) =>
            Places(Parked, Offered \ {First.msg}, Given \ {First.msg}, Reported, Open)
  OBVIOUS
<1> DEFINE settled == IF c THEN <<>> ELSE <<Do("ack", First.msg)>>
<1>1. parked \in Seq(Msg) /\ Once
  BY Typed DEF PlaceInv
<1>2. /\ todo # <<>> /\ First.op \in {"offer", "give"} /\ UNCHANGED finished
      /\ fate' = [fate EXCEPT ![First.msg] = IF c THEN "refused" ELSE "reported"]
  BY DEF HandlerRaised, HandlerReturned, HandsOver
<1>3. /\ First.msg \in Msg /\ First.msg \in Offered \cup Given /\ (First.op = "offer" <=> First.msg \in Offered)
      /\ First.msg \notin Open
  BY <1>2, PlacesWork DEF PlaceInv, Apart, Work
<1>4. Open' = Open
  BY <1>2, <1>3, Typed DEF PlaceInv, Open
<1>5. /\ settled \in Seq(Work) /\ SoloWork(settled) /\ Of("ack", settled) \subseteq {First.msg}
      /\ Of("offer", settled) = {} /\ Of("give", settled) = {}
  BY <1>3, WorkOne, WorkNone DEF Ops
<1>6. /\ Rest \in Seq(Work) /\ SoloWork(Rest) /\ Of("ack", Rest) \subseteq Acked
      /\ Of("offer", Rest) = Offered \ {First.msg} /\ Of("give", Rest) = Given \ {First.msg}
  BY <1>2, PlacesWork
<1> HIDE DEF settled
<1>7. /\ settled \o Rest \in Seq(Work) /\ SoloWork(settled \o Rest)
      /\ Of("ack", settled \o Rest) \subseteq Acked \cup {First.msg}
      /\ Of("offer", settled \o Rest) = Offered \ {First.msg}
      /\ Of("give", settled \o Rest) = Given \ {First.msg}
  BY <1>5, <1>6, WorkJoin
<1>8. CASE HandlerReturned(c)
  <2>1. todo' = settled \o Rest /\ UNCHANGED parked
    BY <1>6, <1>8, ConcatEmptySeq DEF HandlerReturned, settled
  <2>2. /\ Offered' = Offered \ {First.msg} /\ Given' = Given \ {First.msg}
        /\ Acked' \subseteq Acked \cup {First.msg} /\ SoloWork(todo')
    BY <1>7, <2>1 DEF Offered, Given, Acked
  <2>3. Parked' = Parked /\ Reported' = Reported /\ Once'
    BY <1>1, <1>2, <2>1, <2>2 DEF Parked, Reported, Once
  <2>4. ~HandlerRaised(c)
    BY <1>8 DEF HandlerRaised, HandlerReturned
  <2> QED
    BY <1>3, <1>4, <2>2, <2>3, <2>4 DEF Places
<1>9. CASE HandlerRaised(c)
  <2>1. /\ todo' = Offers(parked) \o settled \o Rest /\ parked' = <<>>
    BY <1>9 DEF HandlerRaised, settled
  <2>2. /\ Offers(parked) \in Seq(Work) /\ SoloWork(Offers(parked)) /\ Of("offer", Offers(parked)) = Parked
        /\ Of("give", Offers(parked)) = {} /\ Of("ack", Offers(parked)) = {}
    BY <1>1, WorkOffers DEF Once, Parked
  <2>3. /\ Offers(parked) \o settled \in Seq(Work) /\ SoloWork(Offers(parked) \o settled)
        /\ Of("offer", Offers(parked) \o settled) = Parked
        /\ Of("give", Offers(parked) \o settled) = {}
        /\ Of("ack", Offers(parked) \o settled) \subseteq {First.msg}
    <3> DEFINE walk == Offers(parked)
    <3>1. /\ walk \in Seq(Work) /\ SoloWork(walk) /\ Of("offer", walk) = Parked
          /\ Of("give", walk) = {} /\ Of("ack", walk) = {}
      BY <2>2
    <3> HIDE DEF walk
    <3>2. /\ walk \o settled \in Seq(Work) /\ SoloWork(walk \o settled)
          /\ \A op : Of(op, walk \o settled) = Of(op, walk) \cup Of(op, settled)
      BY <1>5, <3>1, WorkJoin
    <3> QED
      BY <1>5, <3>1, <3>2 DEF walk
  <2>4. Parked \cap Offered = {}
    BY DEF PlaceInv, Apart
  <2>5. /\ Offered' = Parked \cup (Offered \ {First.msg}) /\ Given' = Given \ {First.msg}
        /\ Acked' \subseteq Acked \cup {First.msg} /\ SoloWork(todo')
    <3> DEFINE above == Offers(parked) \o settled
    <3>1. /\ above \in Seq(Work) /\ SoloWork(above) /\ Of("offer", above) = Parked
          /\ Of("give", above) = {} /\ Of("ack", above) \subseteq {First.msg} /\ todo' = above \o Rest
      BY <2>1, <2>3
    <3> HIDE DEF above
    <3>2. /\ SoloWork(above \o Rest)
          /\ \A op : Of(op, above \o Rest) = Of(op, above) \cup Of(op, Rest)
      BY <1>6, <2>4, <3>1, WorkJoin
    <3> QED
      BY <1>6, <3>1, <3>2 DEF Offered, Given, Acked
  <2>6. Parked' = {} /\ Reported' = Reported /\ Once'
    BY <1>1, <1>2, <2>1, <2>5 DEF Parked, Reported, Once, Entries, Solo
  <2>7. ~HandlerReturned(c)
    BY <1>9 DEF HandlerRaised, HandlerReturned
  <2> QED
    BY <1>3, <1>4, <2>5, <2>6, <2>7 DEF Places
<1> QED
  BY <1>8, <1>9

(* A send reports, or is lost with its loop. *)
LEMMA PlacesReported ==
    ASSUME PlaceInv, NEW m \in Msg
    PROVE  /\ Report(m) => /\ Places(Parked, Offered, Given, Reported \cup {m}, Open \ {m})
                           /\ m \in Open
           /\ CancelSend(m) => Places(Parked, Offered, Given, Reported, Open)
<1>1. finished \in Seq(Settlement) /\ Once /\ fate \in [Msg -> {"none", "open", "reported", "refused", "lost"}]
  BY Typed DEF PlaceInv
<1>2. ASSUME Report(m)
      PROVE  Places(Parked, Offered, Given, Reported \cup {m}, Open \ {m}) /\ m \in Open
  <2>1. PICK d \in BOOLEAN, f \in {"reported", "refused"} :
            /\ fate[m] = "open" /\ fate' = [fate EXCEPT ![m] = f]
            /\ finished' = Append(finished, [msg |-> m, delivered |-> d])
            /\ UNCHANGED <<parked, todo>>
    BY <1>2 DEF Report, OnComplete, OnRefused, loop
  <2>2. m \in Open /\ Open' = Open \ {m}
    BY <1>1, <2>1 DEF Open
  <2>3. [msg |-> m, delivered |-> d] \in Settlement /\ m \notin Reported
    BY <2>2 DEF Settlement, PlaceInv, Apart
  <2>4. Reported' = Reported \cup {m} /\ SoloReport(finished')
    <3> DEFINE e == [msg |-> m, delivered |-> d]
    <3>1. e.msg = m
      OBVIOUS
    <3> HIDE DEF e
    <3> QED
      BY <1>1, <2>1, <2>3, <3>1, ReportAppend DEF Reported, Once, e
  <2> QED
    BY <1>1, <2>1, <2>2, <2>4 DEF Once, Places, Parked, Offered, Given
<1>3. ASSUME CancelSend(m) PROVE Places(Parked, Offered, Given, Reported, Open)
  <2>1. Open' = Open /\ UNCHANGED <<parked, finished, todo>>
    BY <1>1, <1>3 DEF CancelSend, Open, loop
  <2> QED
    BY <1>1, <2>1, PlacesKept
<1> QED
  BY <1>2, <1>3

(* Hands are only emptied by a crash, and only filled by a take. *)
LEMMA AcknowledgeHand ==
    ASSUME TypeOK, NEW m \in Hand, Acknowledge(m)
    PROVE  Hand \subseteq Hand'
  BY DEF Acknowledge, Hand, TypeOK

LEMMA SettleHand ==
    ASSUME PlaceInv, Settle
    PROVE  Hand \subseteq Hand'
<1>1. Head(finished) \in Entries(finished)
  BY Typed, EntriesTail DEF PlaceInv, Settle
<1>2. Head(finished).msg \in Hand
  BY <1>1 DEF PlaceInv, Custody, Reported
<1> QED
  BY <1>2, AcknowledgeHand DEF Settle, PlaceInv, Hand

(* The places after a step, apart and in hand if they were filled from each *)
(* other and from the message just read.                                   *)
LEMMA PlaceStep ==
    ASSUME PlaceInv, [Next]_vars, Stack', NEW p, NEW o, NEW g, NEW r, NEW u, Places(p, o, g, r, u),
           u \cap (r \cup p \cup o \cup g \cup Reading') = {},
           r \cap (p \cup o \cup g \cup Reading') = {},
           p \cap (o \cup g \cup Reading') = {}, o \cap g = {},
           u \cup r \cup p \cup o \cup g \cup Acked' \cup Reading' \subseteq Hand'
    PROVE  PlaceInv'
<1>1. TypeOK'
  BY TypeNext DEF PlaceInv
<1>2. Once'
  BY DEF Places
<1>3. Apart'
  BY DEF Places, Apart
<1>4. Custody'
  BY DEF Places, Custody
<1> QED
  BY <1>1, <1>2, <1>3, <1>4 DEF PlaceInv

LEMMA PlaceQuiet ==
    ASSUME PlaceInv, [Next]_vars, Stack', UNCHANGED <<parked, finished, todo>>, Open' = Open,
           Reading' \subseteq Reading, Hand \subseteq Hand'
    PROVE  PlaceInv'
<1>1. Places(Parked, Offered, Given, Reported, Open)
  BY PlacesKept DEF PlaceInv
<1>2. Acked' = Acked
  BY DEF Acked, Of
<1> QED
  BY <1>1, <1>2, PlaceStep DEF PlaceInv, Apart, Custody

LEMMA PlaceNext == PlaceInv /\ [Next]_vars => PlaceInv'
<1> SUFFICES ASSUME PlaceInv, [Next]_vars PROVE PlaceInv'
  OBVIOUS
<1>t. TypeOK /\ TypeOK' /\ Stack /\ Apart /\ Custody
  BY TypeNext DEF PlaceInv
<1>r. (cur = NoMsg => Reading = {}) /\ (cur # NoMsg => Reading = {cur})
      /\ (cur' = NoMsg => Reading' = {}) /\ (cur' # NoMsg => Reading' = {cur'})
  BY DEF Reading
<1>1. CASE Reclaim
  <2>1. Hand \subseteq Hand' /\ Open' = Open /\ Stack' /\ Reading' \subseteq Reading
    BY <1>1, <1>t DEF Reclaim, Hand, TypeOK, Open, Stack, Given, Of, Reading
  <2> QED
    BY <1>1, <2>1, PlaceQuiet DEF Reclaim
<1>2. CASE Top \/ HeldEnough \/ Plan \/ AwaitRoom \/ ForgetRetired \/ WorkDone
           \/ TakeNothing \/ Stop \/ TakeFails
  <2>1. Hand \subseteq Hand'
    BY <1>2, <1>t DEF Top, HeldEnough, Plan, AwaitRoom, ForgetRetired, WorkDone, TakeNothing,
       Stop, TakeFails, Hand, TypeOK
  <2>2. /\ UNCHANGED <<parked, finished, todo, cur, fate>>
        /\ pc' # "work" => pc # "work" \/ todo = <<>>
    BY <1>2 DEF Top, HeldEnough, Plan, AwaitRoom, ForgetRetired, WorkDone, TakeNothing,
       Stop, TakeFails, Goto
  <2>3. Stack' /\ Open' = Open /\ Reading' = Reading
    BY <1>t, <2>2 DEF Stack, Given, Of, Open, Reading
  <2> QED
    BY <2>1, <2>2, <2>3, PlaceQuiet
<1>3. CASE \E s \in cfg.lanes : Serve(s)
  <2>1. Hand \subseteq Hand' /\ Open' = Open /\ Stack' /\ Reading' = Reading
        /\ UNCHANGED <<parked, finished, todo>>
    BY <1>3, <1>t DEF Serve, loop, Hand, Open, Stack, Given, Of, Reading
  <2> QED
    BY <2>1, PlaceQuiet
<1>4. CASE CollectOne \/ RoomOne
  <2>1. Settle /\ UNCHANGED <<parked, todo, fate, cur, pc>>
    BY <1>4 DEF CollectOne, RoomOne, loop
  <2>2. Places(Parked, Offered, Given, Reported \ {Head(finished).msg}, Open)
    BY <2>1, PlacesSettled
  <2>3. Hand \subseteq Hand' /\ Acked' = Acked /\ Stack' /\ Reading' = Reading
    BY <1>t, <2>1, SettleHand DEF Acked, Of, Stack, Given, Reading
  <2> QED
    BY <1>t, <2>2, <2>3, PlaceStep DEF Apart, Custody
<1>5. CASE HoldOne
  <2>1. /\ Settle /\ todo = <<>> /\ todo' = Offers(parked) /\ parked' = <<>> /\ UNCHANGED <<fate, cur>>
        /\ pc' = "work" /\ parked \in Seq(Msg)
    BY <1>5, <1>t, Typed DEF HoldOne, Stack
  <2>2. Places({}, Parked, {}, Reported \ {Head(finished).msg}, Open)
    BY <2>1, PlacesSettled
  <2>3. Hand \subseteq Hand' /\ Acked' = {} /\ Stack' /\ Reading' = Reading
    BY <2>1, <2>2, SettleHand, WorkOffers DEF Acked, Stack, Places, Reading
  <2> QED
    BY <1>t, <2>2, <2>3, PlaceStep DEF Apart, Custody
<1>6. CASE CollectedAll
  <2>1. Places({}, Parked, {}, Reported, Open)
    BY <1>6, PlacesWalked
  <2>2. parked \in Seq(Msg)
    BY <1>t, Typed
  <2>3. Hand' = Hand /\ Acked' = {} /\ Stack' /\ Reading' = Reading
    BY <1>6, <2>1, <2>2, WorkOffers DEF CollectedAll, Acked, Stack, Places, Hand, Reading
  <2> QED
    BY <1>t, <2>1, <2>3, PlaceStep DEF Apart, Custody
<1>7. ASSUME NEW m \in Msg, Take(m) PROVE PlaceInv'
  <2>1. Places(Parked, Offered, Given, Reported, Open)
    BY <1>7, PlacesKept DEF PlaceInv, Take, Open
  <2>2. /\ m \notin Hand /\ Hand' = Hand \cup {m} /\ Acked' = Acked /\ Stack'
    BY <1>7, <1>t DEF Take, Hand, TypeOK, Acked, Of, Stack, Given
  <2>3. Reading' = {m}
    BY <1>7, <1>r DEF Take
  <2> QED
    BY <1>t, <2>1, <2>2, <2>3, PlaceStep DEF Apart, Custody
<1>8. CASE Leave \/ RoomStopped
  <2>1. /\ cur \in Msg /\ cur # NoMsg /\ UNCHANGED <<at, parked, finished, todo>> /\ cur' = NoMsg
        /\ fate' = [fate EXCEPT ![cur] = "refused"] /\ todo = <<>>
    BY <1>8, <1>t DEF Leave, RoomStopped, TypeOK, Stack
  <2>2. Open' = Open
    BY <1>t, <1>r, <2>1, Typed DEF Open, Apart
  <2>3. Hand' = Hand /\ Stack' /\ Reading' = {}
    BY <1>r, <2>1, WorkNone DEF Hand, Stack, Given
  <2> QED
    BY <2>1, <2>2, <2>3, PlaceQuiet
<1>9. CASE Drop \/ Park \/ Give
  <2>1. UNCHANGED at /\ cur' = NoMsg /\ cur # NoMsg
    BY <1>9, <1>t DEF Drop, Park, Give, TypeOK
  <2>2. Hand' = Hand /\ Reading' = {} /\ cur \in Hand /\ Reading = {cur}
    BY <1>r, <1>t, <2>1 DEF Hand, Custody
  <2>3. CASE Drop
    <3>1. Stack'
      BY <2>3, PlacesRead DEF Drop, Stack, Places
    <3> QED
      BY <1>t, <2>2, <2>3, <3>1, PlacesRead, PlaceStep DEF Apart, Custody
  <2>4. CASE Park
    <3>1. Stack'
      BY <2>4, PlacesRead DEF Park, Stack, Places
    <3> QED
      BY <1>t, <2>2, <2>4, <3>1, PlacesRead, PlaceStep DEF Apart, Custody, Counted, Sends
  <2>5. CASE Give
    <3>1. Stack'
      BY <2>5, PlacesRead DEF Give, Stack, Places
    <3> QED
      BY <1>t, <2>2, <2>5, <3>1, PlacesRead, PlaceStep DEF Apart, Custody, Counted, Sends
  <2> QED
    BY <1>9, <2>3, <2>4, <2>5
<1>10. CASE WorkAck
  <2>1. /\ First.msg \in Acked /\ Acked' \subseteq Acked
        /\ Places(Parked, Offered, Given, Reported, Open)
    BY <1>10, PlacesWorked
  <2>2. Hand \subseteq Hand'
    BY <1>10, <1>t, <2>1, AcknowledgeHand DEF WorkAck, Custody
  <2>3. Given' = {} /\ pc' = "work" /\ Reading' = Reading
    BY <1>10, PlacesWork DEF WorkAck, Given, Reading
  <2>4. Stack'
    BY <2>3 DEF Stack
  <2> QED
    BY <1>t, <2>1, <2>2, <2>3, <2>4, PlaceStep DEF Apart, Custody
<1>11. CASE Repark \/ HandlerTook
  <2>1. Hand' = Hand /\ Given' = {} /\ pc' = "work" /\ Reading' = {}
    BY <1>11, <1>t, PlacesWork DEF Repark, HandlerTook, HandsOver, Given, Hand, Reading, TypeOK
  <2>2. Stack'
    BY <2>1 DEF Stack
  <2>3. CASE Repark
    <3>1. /\ Places(Parked \cup {First.msg}, Offered \ {First.msg}, Given, Reported, Open)
          /\ First.msg \in Offered /\ Acked' \subseteq Acked
      BY <2>3, PlacesWorked
    <3> QED
      BY <1>t, <2>1, <2>2, <3>1, PlaceStep DEF Apart, Custody
  <2>4. CASE HandlerTook
    <3>1. /\ Places(Parked, Offered \ {First.msg}, Given \ {First.msg}, Reported, Open \cup {First.msg})
          /\ First.msg \in Offered \cup Given /\ Acked' \subseteq Acked
      BY <2>4, PlacesWorked
    <3> QED
      BY <1>t, <2>1, <2>2, <3>1, PlaceStep DEF Apart, Custody
  <2> QED
    BY <1>11, <2>3, <2>4
<1>12. ASSUME NEW c \in BOOLEAN, HandlerRaised(c) \/ HandlerReturned(c) PROVE PlaceInv'
  <2>1. /\ First.msg \in Offered \cup Given /\ Acked' \subseteq Acked \cup {First.msg}
        /\ Given' = Given \ {First.msg}
    BY <1>12, PlacesOver DEF Places
  <2>2. Hand' = Hand /\ pc' = "work" /\ todo # <<>> /\ First.op # "ack" /\ Reading' = Reading
    BY <1>12 DEF HandlerRaised, HandlerReturned, HandsOver, Hand, Reading
  <2>3. Stack'
    BY <2>1, <2>2, PlacesWork DEF Stack
  <2>4. CASE HandlerRaised(c)
    <3>1. Places({}, Parked \cup (Offered \ {First.msg}), Given \ {First.msg}, Reported, Open)
      BY <2>4, PlacesOver
    <3> QED
      BY <1>t, <2>1, <2>2, <2>3, <3>1, PlaceStep DEF Apart, Custody
  <2>5. CASE HandlerReturned(c)
    BY <1>t, <2>1, <2>2, <2>3, <2>5, PlacesOver, PlaceStep DEF Apart, Custody
  <2> QED
    BY <1>12, <2>4, <2>5
<1>13. ASSUME NEW m \in Msg, Report(m) \/ CancelSend(m) PROVE PlaceInv'
  <2>1. UNCHANGED <<at, todo, cur, pc>>
    BY <1>13 DEF Report, OnComplete, OnRefused, CancelSend, loop
  <2>2. Hand' = Hand /\ Acked' = Acked /\ Stack' /\ Reading' = Reading
    BY <1>t, <2>1 DEF Hand, Acked, Of, Stack, Given, Reading
  <2>3. CASE Report(m)
    <3>1. Places(Parked, Offered, Given, Reported \cup {m}, Open \ {m}) /\ m \in Open
      BY <2>3, PlacesReported
    <3> QED
      BY <1>t, <2>2, <3>1, PlaceStep DEF Apart, Custody
  <2>4. CASE CancelSend(m)
    <3>1. Places(Parked, Offered, Given, Reported, Open)
      BY <2>4, PlacesReported
    <3> QED
      BY <1>t, <2>2, <3>1, PlaceStep DEF Apart, Custody
  <2> QED
    BY <1>13, <2>3, <2>4
<1>14. CASE Crash
  <2>1. parked' = <<>> /\ finished' = <<>> /\ todo' = <<>> /\ cur' = NoMsg /\ fate' = [m \in Msg |-> "none"]
    BY <1>14 DEF Crash
  <2>2. Places({}, {}, {}, {}, {}) /\ Acked' = {} /\ Stack' /\ Reading' = {}
    BY <1>r, <2>1, WorkNone DEF Places, Once, Solo, SoloReport, Parked, Reported, Offered, Given, Acked,
       Open, Entries, Stack
  <2> QED
    BY <2>2, PlaceStep
<1>15. CASE UNCHANGED vars
  <2>1. Hand' = Hand /\ Open' = Open /\ Stack' /\ Reading' = Reading /\ UNCHANGED <<parked, finished, todo>>
    BY <1>15, <1>t DEF vars, Hand, Open, Stack, Given, Of, Reading
  <2> QED
    BY <2>1, PlaceQuiet
<1> QED
  BY <1>1, <1>2, <1>3, <1>4, <1>5, <1>6, <1>7, <1>8, <1>9, <1>10, <1>11, <1>12, <1>13, <1>14, <1>15
     DEF Next, Run, Ended

(* A consumer starts with nothing in its hands. *)
LEMMA PlaceInit == Init => PlaceInv
<1> SUFFICES ASSUME Init PROVE PlaceInv
  OBVIOUS
<1>1. /\ parked = <<>> /\ finished = <<>> /\ todo = <<>> /\ cur = NoMsg
      /\ fate = [m \in Msg |-> "none"]
  BY DEF Init
<1>2. /\ Parked = {} /\ Reported = {} /\ Offered = {} /\ Given = {} /\ Acked = {}
      /\ Open = {} /\ Reading = {}
  BY <1>1, WorkNone
     DEF Parked, Reported, Offered, Given, Acked, Open, Reading, Entries
<1>3. Once
  BY <1>1, WorkNone DEF Once, Solo, SoloReport
<1>4. Stack /\ Apart /\ Custody
  BY <1>1, <1>2 DEF Stack, Apart, Custody
<1> QED
  BY <1>3, <1>4, TypeInit DEF PlaceInv

-----------------------------------------------------------------------------
(* No message overtakes a parked one of its bot *)

LEMMA TurnInit == Init => Turn
<1> SUFFICES ASSUME Init PROVE Turn
  OBVIOUS
<1>1. Parked = {} /\ Offered = {} /\ Given = {}
  BY WorkNone DEF Init, Parked, Offered, Given, Entries
<1> QED
  BY <1>1 DEF Init, Turn

(* A step that leaves the three places as they were, or empties some, and  *)
(* takes no slot of a bot back.                                            *)
LEMMA TurnKept ==
    ASSUME Turn, UNCHANGED <<cfg, sending>>, Parked' \subseteq Parked, Given' \subseteq Given,
           cfg.limit = 0 => Offered' = {}, pc = "collect" => Parked' = {} \/ pc' = "collect",
           pc' = "room" => pc = "room" \/ cfg.limit = 0
    PROVE  Turn'
  BY DEF Turn, BotAtCapacity

LEMMA TurnNext == PlaceInv /\ Turn /\ [Next]_vars => Turn'
<1> SUFFICES ASSUME PlaceInv, Turn, [Next]_vars PROVE Turn'
  OBVIOUS
<1>t. /\ TypeOK /\ TypeOK' /\ cfg.limit \in Nat /\ cfg.perBot \in Nat /\ Stack
      /\ sending \in [Bot -> Nat] /\ Parked \subseteq Msg /\ BotOf \in [Msg -> Bot]
  BY TypeNext, Typed DEF PlaceInv, TypeOK, Config
<1>1. CASE Reclaim \/ Top \/ HeldEnough \/ Plan \/ AwaitRoom \/ ForgetRetired \/ WorkDone
           \/ TakeNothing \/ Stop \/ TakeFails \/ Leave \/ RoomStopped
           \/ (\E m \in Msg : Take(m)) \/ (\E s \in cfg.lanes : Serve(s)) \/ UNCHANGED vars
  <2>1. /\ UNCHANGED <<cfg, sending, parked, todo>> /\ (pc = "collect" => pc' = "collect")
        /\ pc' = "room" => pc = "room" \/ cfg.limit = 0
    BY <1>t, <1>1 DEF TypeOK, Reclaim, Top, HeldEnough, Plan, AwaitRoom, ForgetRetired, WorkDone, TakeNothing,
       Stop, TakeFails, Leave, RoomStopped, Take, Serve, Goto, loop, vars
  <2>2. Parked' = Parked /\ Offered' = Offered /\ Given' = Given
    BY <2>1 DEF Parked, Offered, Given, Of
  <2> QED
    BY <2>1, <2>2, TurnKept DEF Turn
<1>2. ASSUME NEW m \in Msg, Report(m) \/ CancelSend(m) PROVE Turn'
  <2>1. UNCHANGED <<cfg, sending, parked, todo, pc>>
    BY <1>2 DEF Report, OnComplete, OnRefused, CancelSend, loop
  <2>2. Parked' = Parked /\ Offered' = Offered /\ Given' = Given
    BY <2>1 DEF Parked, Offered, Given, Of
  <2> QED
    BY <2>1, <2>2, TurnKept DEF Turn
<1>3. CASE CollectOne
  <2>1. UNCHANGED <<cfg, parked, todo, pc>> /\ pc = "collect" /\ todo = <<>>
    BY <1>3, <1>t DEF CollectOne, loop, Stack
  <2>2. Parked' = Parked /\ Offered' = Offered /\ Given' = {} /\ pc' = "collect" /\ cfg' = cfg
    BY <2>1, WorkNone DEF Parked, Offered, Given, Of
  <2> QED
    BY <2>2 DEF Turn
<1>4. CASE RoomOne
  <2>1. UNCHANGED <<cfg, parked, todo, pc>> /\ pc = "room" /\ todo = <<>>
    BY <1>4, <1>t DEF RoomOne, loop, Stack
  <2>2. Parked' = Parked /\ Offered' = Offered /\ Given' = {}
    BY <2>1, WorkNone DEF Parked, Offered, Given, Of
  <2>3. cfg.limit = 0
    BY <1>4 DEF RoomOne, Turn
  <2> QED
    BY <2>1, <2>2, <2>3 DEF Turn
<1>5. CASE CollectedAll
  <2>1. Places({}, Parked, {}, Reported, Open)
    BY <1>5, PlacesWalked
  <2> QED
    BY <1>5, <2>1, TurnKept DEF CollectedAll, Places, Turn
<1>6. CASE HoldOne
  <2>1. /\ Settle /\ todo = <<>> /\ todo' = Offers(parked) /\ parked' = <<>> /\ UNCHANGED <<cfg, fate>>
    BY <1>6, <1>t DEF HoldOne, Stack
  <2>2. Parked' = {} /\ Offered' = Parked /\ Given' = {}
    BY <2>1, PlacesSettled DEF Places
  <2> QED
    BY <1>6, <2>1, <2>2 DEF HoldOne, Turn
<1>7. CASE Drop
  <2>1. Parked' = Parked /\ Offered' = {} /\ Given' = {}
    BY <1>7, PlacesRead DEF Places
  <2> QED
    BY <1>7, <2>1, TurnKept DEF Drop
<1>8. CASE Park
  <2>1. Parked' = Parked \cup {cur} /\ Offered' = {} /\ Given' = {}
    BY <1>8, PlacesRead DEF Places
  <2>2. /\ UNCHANGED <<cfg, sending>> /\ cfg.limit # 0 /\ BotAtCapacity(BotOf[cur]) /\ pc # "collect"
        /\ pc' = "top"
    BY <1>8 DEF Park
  <2>3. \A m \in Parked' : BotAtCapacity(BotOf[m])
    BY <2>1, <2>2 DEF Turn
  <2> QED
    BY <2>1, <2>2, <2>3 DEF Turn, BotAtCapacity
<1>9. CASE Give
  <2>1. Parked' = Parked /\ Offered' = {} /\ Given' = {cur}
    BY <1>9, PlacesRead DEF Places
  <2> QED
    BY <1>9, <2>1 DEF Give, Turn, BotAtCapacity
<1>10. CASE WorkAck
  <2>1. Parked' = Parked /\ Offered' = Offered /\ Given' = Given
    BY <1>10, PlacesWorked DEF Places
  <2> QED
    BY <1>10, <2>1, TurnKept DEF WorkAck, Turn
<1>11. CASE Repark
  <2>1. Parked' = Parked \cup {First.msg} /\ Offered' = Offered \ {First.msg} /\ Given' = Given
        /\ First.msg \in Offered
    BY <1>11, PlacesWorked DEF Places
  <2> QED
    BY <1>11, <2>1 DEF Repark, Turn, BotAtCapacity
<1>12. CASE HandlerTook
  <2>1. Parked' = Parked /\ Offered' = Offered \ {First.msg} /\ UNCHANGED <<cfg, pc>> /\ First.msg \in Msg
    BY <1>12, PlacesWorked, PlacesWork DEF Places, HandlerTook, HandsOver, Work
  <2>2. Given' = {}
    BY <1>12, PlacesWork DEF HandlerTook, HandsOver, Given
  <2>3. sending' = [sending EXCEPT ![BotOf[First.msg]] = @ + 1] /\ BotOf[First.msg] \in Bot
    BY <1>12, <2>1, <1>t DEF HandlerTook
  <2>4. \A b \in Bot : sending'[b] >= sending[b] /\ sending[b] \in Nat /\ sending'[b] \in Nat
    BY <1>t, <2>3
  <2>5. \A b \in Bot : BotAtCapacity(b) => BotAtCapacity(b)'
    BY <1>t, <2>1, <2>4 DEF BotAtCapacity
  <2>6. \A m \in Parked : BotOf[m] \in Bot
    BY <1>t
  <2> QED
    BY <2>1, <2>2, <2>5, <2>6 DEF Turn
<1>13. ASSUME NEW c \in BOOLEAN, HandlerRaised(c) \/ HandlerReturned(c) PROVE Turn'
  <2>1. /\ UNCHANGED <<cfg, sending, pc>> /\ pc = "work"
    BY <1>13 DEF HandlerRaised, HandlerReturned, HandsOver
  <2>2. CASE HandlerRaised(c)
    BY <2>1, <2>2, PlacesOver, TurnKept DEF Places, Turn
  <2>3. CASE HandlerReturned(c)
    BY <2>1, <2>3, PlacesOver, TurnKept DEF Places, Turn
  <2> QED
    BY <1>13, <2>2, <2>3
<1>14. CASE Crash
  <2>1. Parked' = {} /\ Offered' = {} /\ Given' = {}
    BY <1>14, WorkNone DEF Crash, Parked, Offered, Given, Entries
  <2> QED
    BY <1>14, <2>1 DEF Crash, Turn
<1> QED
  BY <1>1, <1>2, <1>3, <1>4, <1>5, <1>6, <1>7, <1>8, <1>9, <1>10, <1>11, <1>12, <1>13, <1>14
     DEF Next, Run, Ended

(* A message handed over while one of its bot's is parked would overtake   *)
(* it: the bot of the one has room, and that of the other has none.        *)
LEMMA HandsOverInTurn ==
    ASSUME PlaceInv, Turn, [Next]_vars, NEW m \in Msg, fate'[m] = "open", fate[m] # "open"
    PROVE  \A p \in Parked : BotOf[p] # BotOf[m]
<1>1. TypeOK /\ fate \in [Msg -> {"none", "open", "reported", "refused", "lost"}]
  BY DEF PlaceInv, TypeOK
<1>2. HandlerTook
  <2>1. ~UNCHANGED fate
    OBVIOUS
  <2>2. ASSUME Leave \/ RoomStopped PROVE FALSE
    BY <1>1, <2>2 DEF Leave, RoomStopped, TypeOK
  <2>3. ASSUME NEW c \in BOOLEAN, HandlerRaised(c) \/ HandlerReturned(c) PROVE FALSE
    <3>1. PICK f \in {"reported", "refused"} : \E n : fate' = [fate EXCEPT ![n] = f]
      BY <2>3 DEF HandlerRaised, HandlerReturned
    <3> QED
      BY <1>1, <3>1
  <2>4. ASSUME NEW n \in Msg, Report(n) \/ CancelSend(n) PROVE FALSE
    BY <1>1, <2>4 DEF Report, OnComplete, OnRefused, CancelSend
  <2>5. ASSUME Crash PROVE FALSE
    BY <2>5 DEF Crash
  <2>6. ASSUME Reclaim \/ Top \/ HeldEnough \/ Plan \/ AwaitRoom \/ ForgetRetired \/ WorkDone
               \/ TakeNothing \/ Stop \/ TakeFails \/ CollectOne \/ RoomOne \/ CollectedAll \/ HoldOne
               \/ Drop \/ Park \/ Give \/ WorkAck \/ Repark
               \/ (\E n \in Msg : Take(n)) \/ (\E s \in cfg.lanes : Serve(s)) \/ UNCHANGED vars
        PROVE  UNCHANGED fate
    BY <2>6 DEF Reclaim, Top, HeldEnough, Plan, AwaitRoom, ForgetRetired, WorkDone, TakeNothing,
       Stop, TakeFails, CollectOne, RoomOne, CollectedAll, HoldOne, Drop, Park, Give, WorkAck, Repark,
       Take, Serve, Goto, loop, vars
  <2> QED
    BY <2>1, <2>2, <2>3, <2>4, <2>5, <2>6 DEF Next, Run, Ended
<1>3. m = First.msg /\ First.msg \in Offered \cup Given /\ pc # "collect" /\ First.op \in {"offer", "give"}
  <2>1. fate' = [fate EXCEPT ![First.msg] = "open"] /\ pc = "work" /\ First.op \in {"offer", "give"}
    BY <1>2 DEF HandlerTook, HandsOver
  <2> QED
    BY <1>1, <1>2, <2>1, PlacesWorked
<1>4. ~BotAtCapacity(BotOf[First.msg])
  <2>1. CASE First.op = "give"
    BY <1>2, <2>1, PlacesWork DEF Turn, HandlerTook, HandsOver
  <2>2. CASE First.op = "offer"
    BY <1>2, <2>2 DEF HandlerTook, HandsOver
  <2> QED
    BY <1>3, <2>1, <2>2
<1> QED
  BY <1>3, <1>4 DEF Turn

(* A bot's messages reach its handler in the order they were taken,        *)
(* whatever is parked, refused or raises meanwhile.                        *)
THEOREM NothingOvertakes == Spec => NoOvertaking
<1>1. PlaceInv /\ Turn /\ [Next]_vars =>
          [\A m \in Msg : fate'[m] = "open" /\ fate[m] # "open" =>
              \A p \in Entries(parked) : BotOf[p] # BotOf[m]]_vars
  BY HandsOverInTurn DEF Parked
<1> QED
  BY <1>1, PlaceInit, PlaceNext, TurnInit, TurnNext, PTL DEF Spec, NoOvertaking
-----------------------------------------------------------------------------
(* The consumer implements the transport's contract *)

Where == [m \in Msg |-> IF at[m] \in {"held", "left"} THEN "taken" ELSE at[m]]

(* A message is acknowledged once the handler is finished with it, and      *)
(* from the consumer's hands.                                              *)
LEMMA AcknowledgeSettles ==
    ASSUME TypeOK, NEW m \in Hand, m \in done, Acknowledge(m), done' = done
    PROVE  Contract!Settle(m) \/ UNCHANGED <<Where, done>>
<1>1. at \in [Msg -> {"waiting", "held", "left", "settled"}] /\ at[m] \in {"held", "settled"} /\ m \in Msg
  BY DEF TypeOK, Hand
<1>2. CASE UNCHANGED at
  BY <1>2 DEF Where
<1>3. CASE at' = [at EXCEPT ![m] = "settled"] /\ at[m] = "settled"
  <2>1. at' = at
    BY <1>1, <1>3
  <2> QED
    BY <2>1 DEF Where
<1>4. CASE at' = [at EXCEPT ![m] = "settled"] /\ at[m] = "held"
  BY <1>1, <1>4 DEF Contract!Settle, Where
<1> QED
  BY <1>1, <1>2, <1>3, <1>4 DEF Acknowledge

(* The handler finishes with a message in the consumer's hands: one that    *)
(* is settled already was finished with before.                            *)
LEMMA FinishAnswers ==
    ASSUME TypeOK, NeverSettledUnsent, NEW m \in Msg, UNCHANGED at,
           done' = done \/ done' = done \cup {m}
    PROVE  Contract!Answer(m) \/ UNCHANGED <<Where, done>>
<1>1. Where' = Where
  BY DEF Where
<1>2. CASE done' = done
  BY <1>1, <1>2
<1>3. CASE done' = done \cup {m} /\ at[m] = "settled"
  <2>1. done' = done
    BY <1>3 DEF NeverSettledUnsent
  <2> QED
    BY <1>1, <2>1
<1>4. CASE done' = done \cup {m} /\ at[m] # "settled"
  <2>1. Where[m] # "settled"
    BY <1>4 DEF Where
  <2> QED
    BY <1>1, <1>4, <2>1 DEF Contract!Answer, Where
<1> QED
  BY <1>2, <1>3, <1>4

LEMMA ContractStep ==
    PlaceInv /\ AnsweredInv /\ [Next]_vars => [Contract!Next]_(Contract!vars)
<1> SUFFICES ASSUME PlaceInv, AnsweredInv, [Next]_vars
             PROVE  Contract!Next \/ UNCHANGED <<Where, done>>
  BY DEF Contract!vars, Where
<1>t. /\ TypeOK /\ at \in [Msg -> {"waiting", "held", "left", "settled"}] /\ Custody
      /\ NeverSettledUnsent /\ ReportsAnswered /\ AcksAnswered
  BY DEF PlaceInv, TypeOK, AnsweredInv
<1>1. CASE Reclaim
  <2>1. CASE UNCHANGED at
    BY <1>1, <2>1 DEF Reclaim, Where
  <2>2. CASE at' = [m \in Msg |-> IF at[m] = "left" THEN "waiting" ELSE at[m]]
    <3>0. PICK back \in SUBSET Msg : back = {m \in Msg : at[m] = "left"}
      OBVIOUS
    <3>1. back \subseteq {m \in Msg : Where[m] = "taken"}
      BY <3>0 DEF Where
    <3>2. Where' = [m \in Msg |-> IF m \in back THEN "waiting" ELSE Where[m]]
      BY <1>t, <2>2, <3>0 DEF Where
    <3>3. Contract!Return(back)
      BY <1>1, <3>1, <3>2 DEF Contract!Return, Where, Reclaim
    <3> QED
      BY <3>3 DEF Contract!Next
  <2> QED
    BY <1>1, <2>1, <2>2 DEF Reclaim
<1>2. ASSUME NEW m \in Msg, Take(m) PROVE Contract!Next
  <2>1. Contract!Take(m)
    BY <1>t, <1>2 DEF Take, Contract!Take
  <2> QED
    BY <2>1 DEF Contract!Next
<1>3. CASE TakeFails
  <2>1. CASE UNCHANGED at
    BY <1>3, <2>1 DEF TakeFails, Where
  <2>2. ASSUME NEW m \in Msg, at[m] = "waiting", at' = [at EXCEPT ![m] = "left"]
        PROVE  Contract!Next
    <3>1. Contract!Take(m)
      BY <1>t, <1>3, <2>2 DEF TakeFails, Contract!Take
    <3> QED
      BY <3>1 DEF Contract!Next
  <2> QED
    BY <1>3, <2>1, <2>2 DEF TakeFails
<1>4. CASE CollectOne \/ RoomOne \/ HoldOne
  <2>1. Settle /\ done' = done
    BY <1>4 DEF CollectOne, RoomOne, HoldOne
  <2> DEFINE f == Head(finished)
  <2>2. f \in Entries(finished) /\ f = finished[1] /\ 1 \in DOMAIN finished
    BY <1>t, <2>1, Typed, EntriesAre, EntriesTail DEF Settle
  <2>3. f.msg \in Hand /\ (f.delivered => f.msg \in done) /\ f.msg \in Msg
    BY <1>t, <2>2 DEF Custody, Reported, ReportsAnswered, Hand
  <2>4. (f.delivered /\ Acknowledge(f.msg)) \/ UNCHANGED at
    BY <2>1 DEF Settle
  <2> HIDE DEF f
  <2> QED
    BY <1>t, <2>1, <2>3, <2>4, AcknowledgeSettles DEF Where, Contract!Next
<1>5. CASE WorkAck
  <2>1. First = todo[1] /\ 1 \in DOMAIN todo /\ First.op = "ack"
    BY <1>5, <1>t, Typed, EntriesAre DEF WorkAck, First
  <2>2. First.msg \in done
    BY <1>t, <2>1 DEF AcksAnswered, AllAnswered
  <2>3. First.msg \in Hand
    BY <1>t, <1>5, PlacesWorked DEF Custody
  <2>4. First.msg \in Msg
    BY <2>3 DEF Hand
  <2> QED
    BY <1>t, <1>5, <2>2, <2>3, <2>4, AcknowledgeSettles DEF WorkAck, Contract!Next
<1>6. CASE Drop
  <2>1. cur \in Msg /\ UNCHANGED at /\ done' = done \cup {cur}
    BY <1>6, <1>t DEF Drop, TypeOK
  <2> QED
    BY <1>t, <2>1, FinishAnswers DEF Contract!Next
<1>7. ASSUME NEW c \in BOOLEAN, HandlerRaised(c) \/ HandlerReturned(c)
      PROVE  Contract!Next \/ UNCHANGED <<Where, done>>
  <2>1. todo # <<>> /\ UNCHANGED at /\ (done' = done \/ done' = done \cup {First.msg})
    BY <1>7 DEF HandlerRaised, HandlerReturned, HandsOver
  <2>2. First.msg \in Msg
    BY <1>t, <2>1, WorkType
  <2> QED
    BY <1>t, <2>1, <2>2, FinishAnswers DEF Contract!Next
<1>8. ASSUME NEW m \in Msg, Report(m) \/ CancelSend(m)
      PROVE  Contract!Next \/ UNCHANGED <<Where, done>>
  <2>1. UNCHANGED at /\ (done' = done \/ done' = done \cup {m})
    BY <1>8 DEF Report, OnComplete, OnRefused, CancelSend
  <2> QED
    BY <1>t, <2>1, FinishAnswers DEF Contract!Next
<1>9. CASE Crash
  <2>1. Where' = Where
    BY <1>9, <1>t DEF Crash, Where
  <2> QED
    BY <1>9, <2>1 DEF Crash
<1>10. CASE Top \/ HeldEnough \/ Plan \/ AwaitRoom \/ ForgetRetired \/ WorkDone \/ TakeNothing \/ Stop
            \/ Leave \/ RoomStopped \/ CollectedAll \/ Park \/ Give \/ Repark \/ HandlerTook
            \/ (\E s \in cfg.lanes : Serve(s)) \/ UNCHANGED vars
  BY <1>10 DEF Top, HeldEnough, Plan, AwaitRoom, ForgetRetired, WorkDone, TakeNothing, Stop, Leave,
     RoomStopped, CollectedAll, Park, Give, Repark, HandlerTook, Serve, Goto, vars, Where
<1> QED
  BY <1>1, <1>2, <1>3, <1>4, <1>5, <1>6, <1>7, <1>8, <1>9, <1>10 DEF Next, Run, Ended

(* The consumer keeps the transport's contract: it takes what waits,        *)
(* settles only what it took and its handler is finished with, and gives   *)
(* back only what it took; every other step of it is none of a broker's.   *)
THEOREM ConsumerImplementsContract == Spec => Implements
<1>1. Init => Contract!Init
  BY DEF Init, Contract!Init
<1> QED
  BY <1>1, ContractStep, PlaceInit, PlaceNext, TypeInit, AnsweredInit, AnsweredNext, PTL
     DEF Spec, Implements, Contract!Spec, PlaceInv
-----------------------------------------------------------------------------
(* Counting *)

(* One message more, or one less, is counted once under its own home. *)
LEMMA CountAdd ==
    ASSUME NEW holders \in SUBSET Msg, NEW m \in Msg \ holders, NEW home, NEW q
    PROVE  Cardinality(Under(holders \cup {m}, home, q))
              = Cardinality(Under(holders, home, q)) + IF home[m] = q THEN 1 ELSE 0
<1>1. IsFiniteSet(Under(holders, home, q)) /\ m \notin Under(holders, home, q)
  BY FS_Subset DEF Under
<1>2. CASE home[m] = q
  <2>1. Under(holders \cup {m}, home, q) = Under(holders, home, q) \cup {m}
    BY <1>2 DEF Under
  <2> QED
    BY <1>1, <1>2, <2>1, FS_AddElement
<1>3. CASE home[m] # q
  <2>1. Under(holders \cup {m}, home, q) = Under(holders, home, q)
    BY <1>3 DEF Under
  <2> QED
    BY <1>1, <1>3, <2>1, FS_CardinalityType
<1> QED
  BY <1>2, <1>3

LEMMA CountRemove ==
    ASSUME NEW holders \in SUBSET Msg, NEW m \in holders, NEW home, NEW q
    PROVE  /\ Cardinality(Under(holders \ {m}, home, q))
                 = Cardinality(Under(holders, home, q)) - IF home[m] = q THEN 1 ELSE 0
           /\ home[m] = q => Cardinality(Under(holders, home, q)) # 0
<1>1. IsFiniteSet(Under(holders, home, q))
  BY FS_Subset DEF Under
<1>2. CASE home[m] = q
  <2>1. Under(holders \ {m}, home, q) = Under(holders, home, q) \ {m} /\ m \in Under(holders, home, q)
    BY <1>2 DEF Under
  <2>2. Cardinality(Under(holders \ {m}, home, q)) = Cardinality(Under(holders, home, q)) - 1
    <3> DEFINE S == Under(holders, home, q)
    <3>1. IsFiniteSet(S) /\ m \in S
      BY <1>1, <2>1
    <3> HIDE DEF S
    <3>2. Cardinality(S \ {m}) = Cardinality(S) - 1
      BY <3>1, FS_RemoveElement
    <3> QED
      BY <2>1, <3>2 DEF S
  <2>3. Cardinality(Under(holders, home, q)) # 0
    BY <1>1, <2>1, FS_EmptySet
  <2> QED
    BY <1>2, <2>2, <2>3
<1>3. CASE home[m] # q
  <2>1. Under(holders \ {m}, home, q) = Under(holders, home, q)
    BY <1>3 DEF Under
  <2> QED
    BY <1>1, <1>3, <2>1, FS_CardinalityType
<1> QED
  BY <1>2, <1>3

LEMMA CountType ==
    ASSUME NEW holders \in SUBSET Msg, NEW home, NEW q
    PROVE  Cardinality(Under(holders, home, q)) \in Nat
  BY FS_Subset, FS_CardinalityType DEF Under

(* A queue counts what it did while the same messages are counted, each     *)
(* under the queue it was.                                                 *)
LEMMA SlotsKept ==
    ASSUME SlotsExact, UNCHANGED inFlight, Counted' = Counted, \A m \in Counted : book'[m] = book[m]
    PROVE  SlotsExact'
<1>1. \A q : Under(Counted', book', q) = Under(Counted, book, q)
  BY DEF Under
<1> QED
  BY <1>1 DEF SlotsExact

LEMMA SlotTaken ==
    ASSUME TypeOK, SlotsExact, Counted \subseteq Msg, NEW m \in Msg \ Counted, Counted' = Counted \cup {m},
           \A n \in Counted : book'[n] = book[n], book'[m] \in Queue,
           inFlight' = [inFlight EXCEPT ![book'[m]] = @ + 1]
    PROVE  SlotsExact'
<1>1. \A q : Under(Counted, book', q) = Under(Counted, book, q)
  BY DEF Under
<1>2. ASSUME NEW q \in Queue PROVE inFlight'[q] = Cardinality(Under(Counted', book', q))
  <2>1. Cardinality(Under(Counted \cup {m}, book', q))
          = Cardinality(Under(Counted, book', q)) + IF book'[m] = q THEN 1 ELSE 0
    BY CountAdd
  <2>2. inFlight[q] = Cardinality(Under(Counted, book', q)) /\ inFlight[q] \in Int
    BY <1>1 DEF SlotsExact, TypeOK
  <2>3. inFlight'[q] = inFlight[q] + IF book'[m] = q THEN 1 ELSE 0
    BY <2>2 DEF TypeOK
  <2> QED
    BY <2>1, <2>2, <2>3
<1> QED
  BY <1>2 DEF SlotsExact

LEMMA SlotGivenBack ==
    ASSUME TypeOK, SlotsExact, Counted \subseteq Msg, NEW m \in Counted, Counted' = Counted \ {m},
           book' = book, inFlight' = [inFlight EXCEPT ![book[m]] = @ - 1]
    PROVE  SlotsExact'
<1>1. ASSUME NEW q \in Queue PROVE inFlight'[q] = Cardinality(Under(Counted', book', q))
  <2>1. Cardinality(Under(Counted \ {m}, book, q))
          = Cardinality(Under(Counted, book, q)) - IF book[m] = q THEN 1 ELSE 0
    BY CountRemove
  <2>2. inFlight[q] = Cardinality(Under(Counted, book, q)) /\ inFlight[q] \in Int
    BY DEF SlotsExact, TypeOK
  <2>3. inFlight'[q] = inFlight[q] - IF book[m] = q THEN 1 ELSE 0
    BY <2>2 DEF TypeOK
  <2> QED
    BY <2>1, <2>2, <2>3
<1> QED
  BY <1>1 DEF SlotsExact

LEMMA SendTaken ==
    ASSUME TypeOK, SendsExact, Sends \subseteq Msg, NEW m \in Msg \ Sends, Sends' = Sends \cup {m},
           sending' = [sending EXCEPT ![BotOf[m]] = @ + 1]
    PROVE  SendsExact'
<1>1. ASSUME NEW b \in Bot PROVE sending'[b] = Cardinality(Under(Sends', BotOf, b))
  <2>1. Cardinality(Under(Sends \cup {m}, BotOf, b))
          = Cardinality(Under(Sends, BotOf, b)) + IF BotOf[m] = b THEN 1 ELSE 0
    BY CountAdd
  <2>2. sending[b] = Cardinality(Under(Sends, BotOf, b)) /\ sending[b] \in Nat
    BY DEF SendsExact, TypeOK
  <2>3. sending'[b] = sending[b] + IF BotOf[m] = b THEN 1 ELSE 0
    BY <2>2 DEF TypeOK
  <2> QED
    BY <2>1, <2>2, <2>3
<1> QED
  BY <1>1 DEF SendsExact

LEMMA SendOver ==
    ASSUME TypeOK, SendsExact, Sends \subseteq Msg, NEW m \in Sends, Sends' = Sends \ {m},
           sending' = [sending EXCEPT ![BotOf[m]] = @ - 1]
    PROVE  SendsExact'
<1>1. ASSUME NEW b \in Bot PROVE sending'[b] = Cardinality(Under(Sends', BotOf, b))
  <2>1. Cardinality(Under(Sends \ {m}, BotOf, b))
          = Cardinality(Under(Sends, BotOf, b)) - IF BotOf[m] = b THEN 1 ELSE 0
    BY CountRemove
  <2>2. sending[b] = Cardinality(Under(Sends, BotOf, b)) /\ sending[b] \in Nat
    BY DEF SendsExact, TypeOK
  <2>3. sending'[b] = sending[b] - IF BotOf[m] = b THEN 1 ELSE 0
    BY <2>2 DEF TypeOK
  <2> QED
    BY <2>1, <2>2, <2>3
<1> QED
  BY <1>1 DEF SendsExact

LEMMA CountedType ==
    ASSUME TypeOK PROVE Counted \subseteq Msg /\ Sends \subseteq Msg
  BY Typed DEF Counted, Sends

(* A settlement taken off gives back one slot of its queue and of its bot,  *)
(* neither of them below zero.                                             *)
LEMMA SettleBooks ==
    ASSUME PlaceInv, Exact, Settle, UNCHANGED <<book, fate>>, NEW m, m = Head(finished).msg
    PROVE  /\ m \in Sends /\ book[m] \in Queue /\ BotOf[m] \in Bot
           /\ inFlight' = [inFlight EXCEPT ![book[m]] = @ - 1]
           /\ sending' = [sending EXCEPT ![BotOf[m]] = @ - 1]
           /\ books' = books
<1>1. TypeOK /\ m \in Reported
  BY PlacesSettled DEF PlaceInv
<1>2. m \in Sends /\ m \in Counted /\ m \in Msg /\ Sends \subseteq Msg /\ Counted \subseteq Msg
  BY <1>1, CountedType DEF Sends, Counted
<1>3. book[m] \in Queue /\ BotOf[m] \in Bot
  BY <1>1, <1>2 DEF TypeOK
<1>4. inFlight[book[m]] # 0 /\ sending[BotOf[m]] # 0
  <2>1. Cardinality(Under(Counted, book, book[m])) # 0
    BY <1>2, CountRemove
  <2>2. Cardinality(Under(Sends, BotOf, BotOf[m])) # 0
    BY <1>2, CountRemove
  <2> QED
    BY <1>3, <2>1, <2>2 DEF Exact, SlotsExact, SendsExact
<1>5. book[m] \in books /\ sending[BotOf[m]] > 0
  BY <1>1, <1>3, <1>4 DEF Exact, Booked, TypeOK
<1>6. SlotBack(book[m], BotOf[m])
  BY DEF Settle
<1>7. books' = books
  BY <1>5, <1>6 DEF SlotBack
<1>8. inFlight' = [inFlight EXCEPT ![book[m]] = @ - 1]
  BY <1>5, <1>6 DEF SlotBack
<1>9. sending' = [sending EXCEPT ![BotOf[m]] = @ - 1]
  BY <1>5, <1>6 DEF SlotBack
<1> QED
  BY <1>2, <1>3, <1>7, <1>8, <1>9
LEMMA ExactKept ==
    ASSUME Exact, Immediate, UNCHANGED <<cfg, inFlight, sending>>, Counted' = Counted, Sends' = Sends,
           \A m \in Counted : book'[m] = book[m], \A q \in Queue : inFlight[q] # 0 => q \in books'
    PROVE  Exact' /\ Immediate'
<1>1. SlotsExact'
  BY SlotsKept DEF Exact
<1>2. SendsExact' /\ Booked' /\ Immediate'
  BY DEF Exact, SendsExact, Booked, Immediate
<1> QED
  BY <1>1, <1>2 DEF Exact

(* A handler that keeps no books has no bot at its capacity. *)
LEMMA NeverFull ==
    ASSUME TypeOK, Exact, Immediate, ~cfg.defers, NEW b \in Bot
    PROVE  ~BotAtCapacity(b)
<1>1. Under(Sends, BotOf, b) = {}
  BY DEF Immediate, Counted, Under
<1>2. sending[b] = 0
  BY <1>1, FS_EmptySet DEF Exact, SendsExact
<1>3. cfg.perBot \in Nat
  BY DEF TypeOK, Config
<1> QED
  BY <1>2, <1>3 DEF BotAtCapacity

LEMMA ExactInit == Init => Exact /\ Immediate
<1> SUFFICES ASSUME Init PROVE Exact /\ Immediate
  OBVIOUS
<1>1. /\ Parked = {} /\ Reported = {} /\ Offered = {} /\ Open = {}
  BY WorkNone DEF Init, Parked, Reported, Offered, Open, Entries
<1>2. Counted = {} /\ Sends = {}
  BY <1>1 DEF Counted, Sends
<1>3. \A home, q : Under({}, home, q) = {}
  BY DEF Under
<1>4. SlotsExact
  BY <1>2, <1>3, FS_EmptySet DEF Init, SlotsExact
<1>5. SendsExact
  BY <1>2, <1>3, FS_EmptySet DEF Init, SendsExact
<1>6. Booked
  BY DEF Init, Booked
<1> QED
  BY <1>2, <1>4, <1>5, <1>6 DEF Exact, Immediate

(* Steps that count nothing: the thread's own turns, a message read, given, *)
(* dropped or refused, walked or parked again, and reports.                *)
LEMMA ExactQuiet ==
    ASSUME PlaceInv, Exact, Immediate,
           \/ Reclaim \/ Top \/ HeldEnough \/ Plan \/ AwaitRoom \/ WorkDone
           \/ TakeNothing \/ Stop \/ TakeFails \/ Leave \/ RoomStopped
           \/ (\E m \in Msg : Take(m)) \/ (\E s \in cfg.lanes : Serve(s)) \/ UNCHANGED vars
           \/ CollectedAll \/ Drop \/ Give \/ WorkAck \/ Repark
           \/ (\E m \in Msg : Report(m) \/ CancelSend(m))
    PROVE  Exact' /\ Immediate'
<1>t. TypeOK /\ Once /\ Apart /\ Counted \subseteq Msg /\ Sends \subseteq Msg
  BY CountedType DEF PlaceInv
<1>b. Exact /\ \A q \in Queue : inFlight[q] # 0 => q \in books
  BY DEF Exact, Booked
<1>1. CASE Reclaim \/ Top \/ HeldEnough \/ Plan \/ AwaitRoom \/ WorkDone
           \/ TakeNothing \/ Stop \/ TakeFails \/ Leave \/ RoomStopped
           \/ (\E m \in Msg : Take(m)) \/ (\E s \in cfg.lanes : Serve(s)) \/ UNCHANGED vars
  <2>1. UNCHANGED <<cfg, inFlight, sending, parked, finished, todo, book>> /\ books \subseteq books'
    BY <1>1 DEF Reclaim, Top, HeldEnough, Plan, AwaitRoom, WorkDone, TakeNothing,
       Stop, TakeFails, Leave, RoomStopped, Take, Serve, Goto, loop, vars
  <2>2. Open' = Open
    <3>1. CASE Leave \/ RoomStopped
      <4>1. cur \in Msg /\ cur # NoMsg /\ fate' = [fate EXCEPT ![cur] = "refused"]
        BY <1>t, <3>1 DEF Leave, RoomStopped, TypeOK
      <4>2. cur \notin Open
        BY <1>t, <4>1 DEF Apart, Reading
      <4> QED
        BY <1>t, <4>1, <4>2, Typed DEF Open
    <3>2. CASE UNCHANGED fate
      BY <3>2 DEF Open
    <3> QED
      BY <1>1, <3>1, <3>2 DEF Reclaim, Top, HeldEnough, Plan, AwaitRoom, WorkDone, TakeNothing,
         Stop, TakeFails, Take, Serve, Goto, vars
  <2>3. Places(Parked, Offered, Given, Reported, Open)
    BY <1>t, <2>1, <2>2, PlacesKept
  <2>4. Counted' = Counted /\ Sends' = Sends
    BY <2>3 DEF Places, Counted, Sends
  <2> QED
    BY <1>b, <2>1, <2>4, ExactKept
<1>2. CASE CollectedAll
  <2>1. UNCHANGED <<cfg, inFlight, sending, book, books>> /\ todo = <<>>
    BY <1>2 DEF CollectedAll, PlaceInv, Stack
  <2>2. Offered = {}
    BY <2>1, WorkNone DEF Offered
  <2>3. Counted' = Counted /\ Sends' = Sends
    BY <1>2, <2>2, PlacesWalked DEF Places, Counted, Sends
  <2> QED
    BY <1>b, <2>1, <2>3, ExactKept
<1>3. CASE Drop \/ Give
  <2>1. UNCHANGED <<cfg, inFlight, sending, books>>
    BY <1>3 DEF Drop, Give
  <2>2. /\ Offered = {} /\ Places(Parked, {}, Given', Reported, Open)
    BY <1>3, PlacesRead DEF Places
  <2>3. Counted' = Counted /\ Sends' = Sends
    BY <2>2 DEF Places, Counted, Sends
  <2>4. cur \in Msg /\ cur \notin Counted
    BY <1>3, PlacesRead
  <2>5. book' = book \/ book' = [book EXCEPT ![cur] = CountedUnder(cur)]
    BY <1>3 DEF Drop, Give
  <2>6. \A m \in Counted : book'[m] = book[m]
    BY <1>t, <2>4, <2>5 DEF TypeOK
  <2> QED
    BY <1>b, <2>1, <2>3, <2>6, ExactKept
<1>4. CASE WorkAck \/ Repark
  <2>1. UNCHANGED <<cfg, inFlight, sending, book, books>>
    BY <1>4 DEF WorkAck, Repark
  <2>2. Counted' = Counted /\ Sends' = Sends
    BY <1>4, PlacesWorked DEF Places, Counted, Sends
  <2> QED
    BY <1>b, <2>1, <2>2, ExactKept
<1>5. ASSUME NEW m \in Msg, Report(m) \/ CancelSend(m) PROVE Exact' /\ Immediate'
  <2>1. UNCHANGED <<cfg, inFlight, sending, book, books>>
    BY <1>5 DEF Report, OnComplete, OnRefused, CancelSend
  <2>2. Counted' = Counted /\ Sends' = Sends
    BY <1>5, PlacesReported DEF Places, Counted, Sends
  <2> QED
    BY <1>b, <2>1, <2>2, ExactKept
<1> QED
  BY <1>1, <1>2, <1>3, <1>4, <1>5

(* A settlement taken off the queue of reports. *)
LEMMA ExactSettled ==
    ASSUME PlaceInv, Exact, Immediate, CollectOne \/ RoomOne \/ HoldOne
    PROVE  Exact' /\ Immediate'
<1>t. TypeOK /\ Apart /\ Counted \subseteq Msg /\ Sends \subseteq Msg
  BY CountedType DEF PlaceInv
<1>1. Settle /\ UNCHANGED <<cfg, book, fate>>
  BY DEF CollectOne, RoomOne, HoldOne, loop
<1>2. PICK m : m = Head(finished).msg
  OBVIOUS
<1>3. /\ m \in Sends /\ book[m] \in Queue /\ BotOf[m] \in Bot
      /\ inFlight' = [inFlight EXCEPT ![book[m]] = @ - 1]
      /\ sending' = [sending EXCEPT ![BotOf[m]] = @ - 1]
      /\ books' = books
  BY <1>1, <1>2, SettleBooks
<1>4. m \in Reported /\ m \notin Open /\ m \notin Parked /\ m \notin Offered
  BY <1>1, <1>2, <1>t, PlacesSettled DEF Apart
<1>5. Counted' = Counted \ {m} /\ Sends' = Sends \ {m}
  <2>1. CASE CollectOne \/ RoomOne
    <3>1. Places(Parked, Offered, Given, Reported \ {m}, Open)
      BY <1>1, <1>2, <2>1, PlacesSettled DEF CollectOne, RoomOne, loop
    <3> QED
      BY <1>4, <3>1 DEF Places, Counted, Sends
  <2>2. CASE HoldOne
    <3>1. todo = <<>> /\ Offered = {}
      BY <2>2, WorkNone DEF HoldOne, PlaceInv, Stack, Offered
    <3>2. Places({}, Parked, {}, Reported \ {m}, Open)
      BY <1>1, <1>2, <2>2, <3>1, PlacesSettled DEF HoldOne
    <3> QED
      BY <1>4, <3>1, <3>2 DEF Places, Counted, Sends
  <2> QED
    BY <2>1, <2>2
<1>6. m \in Counted
  BY <1>3 DEF Counted
<1>7. SlotsExact'
  BY <1>1, <1>t, <1>3, <1>5, <1>6, SlotGivenBack DEF Exact
<1>8. SendsExact'
  BY <1>t, <1>3, <1>5, SendOver DEF Exact
<1>9. Booked'
  <2>1. \A q \in Queue : inFlight'[q] # 0 => inFlight[q] # 0 \/ q = book[m]
    BY <1>t, <1>3 DEF TypeOK
  <2>2. inFlight[book[m]] # 0
    <3>1. Cardinality(Under(Counted, book, book[m])) # 0
      BY <1>t, <1>6, CountRemove
    <3> QED
      BY <1>3, <3>1 DEF Exact, SlotsExact
  <2> QED
    BY <1>3, <2>1, <2>2 DEF Exact, Booked
<1>10. Immediate'
  BY <1>1, <1>6, <1>5 DEF Immediate
<1> QED
  BY <1>7, <1>8, <1>9, <1>10 DEF Exact
(* A message parked takes a slot of the queue it is counted under. *)
LEMMA ExactParked ==
    ASSUME PlaceInv, Exact, Immediate, Park
    PROVE  Exact' /\ Immediate'
<1>t. TypeOK /\ TypeOK' /\ Counted \subseteq Msg /\ Sends \subseteq Msg /\ cur \in Msg /\ cur \notin Counted
  BY CountedType, TypeNext, PlacesRead DEF PlaceInv, Next, Run
<1>1. /\ UNCHANGED <<cfg, sending>> /\ book' = [book EXCEPT ![cur] = CountedUnder(cur)]
      /\ inFlight' = [inFlight EXCEPT ![CountedUnder(cur)] = @ + 1]
      /\ books' = books \cup {CountedUnder(cur)} /\ BotAtCapacity(BotOf[cur])
  BY DEF Park
<1>2. book'[cur] = CountedUnder(cur) /\ book'[cur] \in Queue /\ \A m \in Counted : book'[m] = book[m]
  BY <1>t, <1>1 DEF TypeOK
<1>3. Counted' = Counted \cup {cur} /\ Sends' = Sends
  BY PlacesRead DEF Places, Counted, Sends
<1>4. SlotsExact'
  BY <1>t, <1>1, <1>2, <1>3, SlotTaken DEF Exact
<1>5. SendsExact'
  BY <1>1, <1>3 DEF Exact, SendsExact
<1>6. Booked'
  <2>1. \A q \in Queue : inFlight'[q] # 0 => inFlight[q] # 0 \/ q = CountedUnder(cur)
    BY <1>t, <1>1, <1>2 DEF TypeOK
  <2> QED
    BY <1>1, <2>1 DEF Exact, Booked
<1>7. cfg.defers
  BY <1>t, <1>1, NeverFull
<1> QED
  BY <1>1, <1>4, <1>5, <1>6, <1>7 DEF Exact, Immediate

(* The handler took a message: a new one takes a slot of its queue, and    *)
(* either one a slot of its bot.                                           *)
LEMMA ExactTook ==
    ASSUME PlaceInv, Exact, Immediate, HandlerTook
    PROVE  Exact' /\ Immediate'
<1>t. TypeOK /\ Apart /\ Counted \subseteq Msg /\ Sends \subseteq Msg
  BY CountedType DEF PlaceInv
<1>1. /\ todo # <<>> /\ First.op \in {"offer", "give"} /\ UNCHANGED <<cfg, book>> /\ cfg.defers
      /\ sending' = [sending EXCEPT ![BotOf[First.msg]] = @ + 1]
  BY DEF HandlerTook, HandsOver
<1>2. /\ First.msg \in Msg /\ book[First.msg] \in Queue /\ First.msg \in Offered \cup Given
      /\ (First.op = "offer" <=> First.msg \in Offered)
      /\ Parked' = Parked /\ Offered' = Offered \ {First.msg} /\ Reported' = Reported
      /\ Open' = Open \cup {First.msg}
  BY <1>1, WorkType, <1>t, PlacesWorked DEF Places
<1>3. First.msg \notin Sends /\ Sends' = Sends \cup {First.msg}
  BY <1>2, <1>t DEF Sends, Apart
<1>4. Counted' = Counted \cup {First.msg}
  BY <1>2 DEF Counted, Sends
<1>5. SendsExact'
  BY <1>t, <1>1, <1>2, <1>3, SendTaken DEF Exact
<1>6. Immediate'
  BY <1>1 DEF Immediate
<1>7. CASE First.op = "offer"
  <2>1. UNCHANGED <<inFlight, books>>
    BY <1>7 DEF HandlerTook
  <2>2. Counted' = Counted
    BY <1>2, <1>4, <1>7 DEF Counted
  <2> QED
    BY <1>1, <1>5, <1>6, <2>1, <2>2, SlotsKept DEF Exact, Booked
<1>8. CASE First.op = "give"
  <2>1. /\ inFlight' = [inFlight EXCEPT ![book[First.msg]] = @ + 1]
        /\ books' = books \cup {book[First.msg]}
    BY <1>8 DEF HandlerTook
  <2>2. First.msg \in Given
    BY <1>1, <1>8, PlacesWork
  <2>3. First.msg \notin Counted
    BY <1>t, <1>3, <2>2 DEF Apart, Counted
  <2>4. SlotsExact'
    BY <1>t, <1>1, <1>2, <1>4, <2>1, <2>3, SlotTaken DEF Exact
  <2>5. \A q \in Queue : inFlight'[q] # 0 => inFlight[q] # 0 \/ q = book[First.msg]
    BY <1>t, <1>2, <2>1 DEF TypeOK
  <2>6. Booked'
    BY <2>1, <2>5 DEF Exact, Booked
  <2> QED
    BY <1>5, <1>6, <2>4, <2>6 DEF Exact
<1> QED
  BY <1>1, <1>7, <1>8

(* The handler raised, or keeps no books: a parked message gives its slot   *)
(* back, a new one never took any.                                         *)
LEMMA ExactOver ==
    ASSUME PlaceInv, Exact, Immediate, NEW c \in BOOLEAN, HandlerRaised(c) \/ HandlerReturned(c)
    PROVE  Exact' /\ Immediate'
<1>t. TypeOK /\ Apart /\ Counted \subseteq Msg /\ Sends \subseteq Msg
  BY CountedType DEF PlaceInv
<1>1. /\ todo # <<>> /\ First.op \in {"offer", "give"} /\ UNCHANGED <<cfg, book, sending>>
  BY DEF HandlerRaised, HandlerReturned, HandsOver
<1>2. /\ First.msg \in Msg /\ book[First.msg] \in Queue /\ First.msg \in Offered \cup Given
      /\ (First.op = "offer" <=> First.msg \in Offered)
  BY <1>1, WorkType, <1>t, PlacesOver
<1>3. CASE HandlerReturned(c)
  <2>1. Counted = {} /\ UNCHANGED <<inFlight, books>>
    BY <1>3 DEF HandlerReturned, Immediate
  <2>2. Parked' = Parked /\ Offered' = Offered \ {First.msg} /\ Reported' = Reported /\ Open' = Open
    BY <1>3, PlacesOver DEF Places
  <2>3. Counted' = Counted /\ Sends' = Sends
    BY <2>1, <2>2 DEF Counted, Sends
  <2> QED
    BY <1>1, <2>1, <2>3, ExactKept DEF Exact, Booked
<1>4. CASE HandlerRaised(c)
  <2>1. /\ Parked' = {} /\ Offered' = Parked \cup (Offered \ {First.msg})
        /\ Reported' = Reported /\ Open' = Open
    BY <1>4, PlacesOver DEF Places
  <2>2. Sends' = Sends /\ SendsExact'
    BY <1>1, <2>1 DEF Sends, Exact, SendsExact
  <2>3. /\ books' = books \cup {book[First.msg]} /\ cfg.defers
        /\ First.op = "offer" => inFlight' = [inFlight EXCEPT ![book[First.msg]] = @ - 1]
        /\ First.op # "offer" => UNCHANGED inFlight
    BY <1>4 DEF HandlerRaised
  <2>4. CASE First.op = "offer"
    <3>1. First.msg \in Counted /\ Counted' = Counted \ {First.msg}
      BY <1>2, <1>t, <2>1, <2>4 DEF Counted, Sends, Apart
    <3>2. SlotsExact'
      BY <1>1, <1>t, <2>3, <2>4, <3>1, SlotGivenBack DEF Exact
    <3>3. \A q \in Queue : inFlight'[q] # 0 => inFlight[q] # 0 \/ q = book[First.msg]
      BY <1>2, <1>t, <2>3, <2>4 DEF TypeOK
    <3> QED
      BY <1>1, <2>2, <2>3, <3>2, <3>3 DEF Exact, Booked, Immediate
  <2>5. CASE First.op = "give"
    <3>1. Counted' = Counted
      BY <1>2, <2>1, <2>5 DEF Counted, Sends
    <3> QED
      BY <1>1, <2>2, <2>3, <2>5, <3>1, ExactKept DEF Exact, Booked
  <2> QED
    BY <1>1, <2>4, <2>5
<1> QED
  BY <1>3, <1>4

(* The books a pass forgets count nothing. *)
LEMMA ExactForgotten ==
    ASSUME PlaceInv, Exact, Immediate, ForgetRetired
    PROVE  Exact' /\ Immediate'
<1>t. TypeOK /\ Counted \subseteq Msg /\ Once
  BY CountedType DEF PlaceInv
<1>1. \A q \in Queue : inFlight[q] \in Nat
  BY <1>t, CountType DEF Exact, SlotsExact
<1>2. \A q \in Queue : inFlight[q] # 0 => q \in books'
  BY <1>1 DEF ForgetRetired, Exact, Booked
<1>3. inFlight' = inFlight
  BY <1>t, <1>2 DEF ForgetRetired, TypeOK
<1>4. UNCHANGED <<cfg, sending, parked, finished, todo, fate, book>>
  BY DEF ForgetRetired, Goto
<1>5. Places(Parked, Offered, Given, Reported, Open)
  BY <1>t, <1>4, PlacesKept DEF Open
<1>6. Counted' = Counted /\ Sends' = Sends
  BY <1>5 DEF Places, Counted, Sends
<1> QED
  BY <1>2, <1>3, <1>4, <1>6, ExactKept

LEMMA ExactNext == PlaceInv /\ Exact /\ Immediate /\ [Next]_vars => Exact' /\ Immediate'
<1> SUFFICES ASSUME PlaceInv, Exact, Immediate, [Next]_vars PROVE Exact' /\ Immediate'
  OBVIOUS
<1>1. CASE Crash
  <2>1. /\ Parked' = {} /\ Reported' = {} /\ Offered' = {} /\ Open' = {}
    BY <1>1, WorkNone DEF Crash, Parked, Reported, Offered, Open, Entries
  <2>2. Counted' = {} /\ Sends' = {}
    BY <2>1 DEF Counted, Sends
  <2>3. \A home, q : Under({}, home, q) = {}
    BY DEF Under
  <2>4. SlotsExact'
    BY <1>1, <2>2, <2>3, FS_EmptySet DEF Crash, SlotsExact
  <2>5. SendsExact'
    BY <1>1, <2>2, <2>3, FS_EmptySet DEF Crash, SendsExact
  <2>6. Booked'
    BY <1>1 DEF Crash, Booked
  <2> QED
    BY <2>2, <2>4, <2>5, <2>6 DEF Exact, Immediate
<1> QED
  BY <1>1, ExactQuiet, ExactSettled, ExactParked, ExactTook, ExactOver, ExactForgotten DEF Next, Run, Ended

-----------------------------------------------------------------------------
(* There is room where a message is counted *)

LEMMA RoomInit == Init => Room /\ WithinBudget
<1> SUFFICES ASSUME Init PROVE Room /\ WithinBudget
  OBVIOUS
<1>1. Given = {}
  BY WorkNone DEF Init, Given
<1>2. cfg.limit \in Nat /\ cfg.perBot \in Nat
  BY DEF Init, Config
<1>3. WithinBudget
  BY <1>2 DEF Init, WithinBudget
<1> QED
  BY <1>1, <1>3 DEF Init, Room

(* Nothing is counted and no books are closed: every queue has the room it  *)
(* had.                                                                    *)
LEMMA FreeKept ==
    ASSUME TypeOK, TypeOK', UNCHANGED cfg, \A q \in Queue : inFlight'[q] <= inFlight[q], NEW q \in Queue
    PROVE  (Free(q) => Free(q)') /\ (~AtCapacity(q) => ~AtCapacity(q)')
<1>1. inFlight[q] \in Int /\ inFlight'[q] \in Int /\ cfg.limit \in Nat /\ inFlight'[q] <= inFlight[q]
  BY DEF TypeOK, Config
<1>2. ~AtCapacity(q) => ~AtCapacity(q)'
  BY <1>1 DEF AtCapacity
<1>3. MayShrink' = MayShrink
  BY DEF MayShrink
<1> QED
  BY <1>2, <1>3 DEF Free
(* Where nothing is read or about to be, room is owed to none. *)
LEMMA RoomIdle ==
    ASSUME Given' = {}, pc' \in {"boot", "top", "collect", "work", "hold", "ended"},
           Entries(served)' \subseteq books'
    PROVE  Room'
  BY DEF Room

LEMMA RoomStill ==
    ASSUME Room, UNCHANGED <<cfg, inFlight, pc, cur, asked, todo, book>>, books \subseteq books',
           Entries(served)' \subseteq books'
    PROVE  Room'
<1>1. Given' = Given
  BY DEF Given, Of
<1>2. \A q : AtCapacity(q)' = AtCapacity(q) /\ Free(q)' = Free(q)
  BY DEF AtCapacity, Free, MayShrink
<1> QED
  BY <1>1, <1>2 DEF Room

(* Outside the work on its stack the consumer gives nothing. *)
LEMMA NoneGiven ==
    ASSUME Stack, pc # "work" PROVE todo = <<>> /\ Given = {}
  BY WorkNone DEF Stack, Given

LEMMA RoomNext == PlaceInv /\ Exact /\ Room /\ [Next]_vars => Room'
<1> SUFFICES ASSUME PlaceInv, Exact, Room, [Next]_vars PROVE Room'
  OBVIOUS
<1>t. TypeOK /\ TypeOK' /\ Stack /\ Entries(served) \subseteq books
  BY TypeNext DEF PlaceInv, Room
<1>c. /\ cfg.limit \in Nat /\ cfg \in Configs /\ served \in cfg.lanes /\ Entries(served) \subseteq Queue
      /\ served # <<>> /\ inFlight \in [Queue -> Int]
  BY <1>t, LaneType DEF TypeOK, Config
<1>1. CASE Top \/ TakeNothing \/ TakeFails \/ Leave \/ RoomStopped \/ CollectOne
  <2>1. pc # "work" /\ pc' \in {"top", "collect"} /\ UNCHANGED <<served, todo>> /\ books \subseteq books'
    BY <1>1 DEF Top, TakeNothing, TakeFails, Leave, RoomStopped, CollectOne, Settle, SlotBack, Goto, loop
  <2>2. Given' = {} /\ Entries(served)' = Entries(served)
    BY <1>t, <2>1, NoneGiven DEF Given, Of
  <2> QED
    BY <1>t, <2>1, <2>2, RoomIdle
<1>2. CASE WorkDone
  <2>1. todo' = <<>> /\ pc' \in {"hold", "top", "ended"} /\ UNCHANGED <<served, books>>
    BY <1>2, <1>t DEF WorkDone, Goto, TypeOK
  <2>2. Given' = {} /\ Entries(served)' = Entries(served)
    BY <2>1, WorkNone DEF Given
  <2> QED
    BY <1>t, <2>1, <2>2, RoomIdle
<1>3. CASE CollectedAll \/ HoldOne \/ Drop \/ Park
  <2>1. pc # "work" /\ pc' \in {"top", "work"} /\ UNCHANGED served /\ books \subseteq books'
    BY <1>3 DEF CollectedAll, HoldOne, Drop, Park, Settle, SlotBack
  <2>2. Given' = {}
    <3>1. CASE HoldOne
      BY <1>t, <3>1, NoneGiven, PlacesSettled DEF HoldOne, Places
    <3>2. CASE CollectedAll
      BY <3>2, PlacesWalked DEF Places
    <3>3. CASE Drop \/ Park
      BY <3>3, PlacesRead DEF Places
    <3> QED
      BY <1>3, <3>1, <3>2, <3>3
  <2> QED
    BY <1>t, <2>1, <2>2, RoomIdle
<1>4. CASE WorkAck \/ Repark \/ HandlerTook \/ \E c \in BOOLEAN : HandlerRaised(c) \/ HandlerReturned(c)
  <2>1. /\ pc' = "work" /\ UNCHANGED served /\ books \subseteq books' /\ todo # <<>>
    BY <1>4 DEF WorkAck, Repark, HandlerTook, HandlerRaised, HandlerReturned, HandsOver
  <2>2. Given' = {}
    <3>1. CASE WorkAck \/ Repark \/ HandlerTook
      BY <2>1, <3>1, PlacesWork DEF WorkAck, Repark, HandlerTook, Given
    <3>2. ASSUME NEW c \in BOOLEAN, HandlerRaised(c) \/ HandlerReturned(c) PROVE Given' = {}
      <4>1. Given' = Given \ {First.msg} /\ First.op # "ack"
        BY <3>2, PlacesOver DEF Places, HandlerRaised, HandlerReturned, HandsOver
      <4> QED
        BY <2>1, <4>1, PlacesWork
    <3> QED
      BY <1>4, <3>1, <3>2
  <2> QED
    BY <1>t, <2>1, <2>2, RoomIdle
<1>5. CASE Crash
  <2>1. todo' = <<>> /\ pc' = "boot" /\ books' = Entries(served')
    BY <1>5 DEF Crash
  <2>2. Given' = {} /\ Entries(served)' = Entries(served')
    BY <2>1, WorkNone DEF Given, Entries
  <2> QED
    BY <2>1, <2>2, RoomIdle
<1>6. CASE Stop \/ UNCHANGED vars \/ (\E m \in Msg : Report(m) \/ CancelSend(m))
           \/ (\E s \in cfg.lanes : Serve(s))
  <2>1. UNCHANGED <<cfg, inFlight, pc, cur, asked, todo, book>> /\ books \subseteq books'
    BY <1>6 DEF Stop, vars, loop, Report, OnComplete, OnRefused, CancelSend, Serve
  <2>2. Entries(served)' \subseteq books'
    <3>1. CASE \E s \in cfg.lanes : Serve(s)
      BY <3>1 DEF Serve, Entries
    <3>2. CASE UNCHANGED <<served, books>>
      BY <1>t, <3>2 DEF Entries
    <3> QED
      BY <1>6, <3>1, <3>2 DEF Stop, vars, Report, OnComplete, OnRefused, CancelSend
  <2> QED
    BY <2>1, <2>2, RoomStill
<1>7. CASE Reclaim
  <2>1. /\ UNCHANGED <<cfg, inFlight, served, books, todo>> /\ pc # "work"
        /\ pc' = "top" \/ (pc = "retry" /\ pc' = "forget")
    BY <1>7 DEF Reclaim
  <2>2. Given' = {} /\ Entries(served)' = Entries(served) /\ AtCapacity(Own)' = AtCapacity(Own)
    BY <1>t, <2>1, NoneGiven DEF Given, Of, AtCapacity
  <2> QED
    BY <1>t, <2>1, <2>2 DEF Room
<1>8. CASE HeldEnough
  <2>1. /\ UNCHANGED <<cfg, inFlight, served, books, todo>> /\ pc # "work"
        /\ pc' = "collect" \/ (pc' \in {"retry", "forget"} /\ ~AllAtCapacity)
    BY <1>8 DEF HeldEnough
  <2>2. Given' = {} /\ Entries(served)' = Entries(served) /\ AtCapacity(Own)' = AtCapacity(Own)
    BY <1>t, <2>1, NoneGiven DEF Given, Of, AtCapacity
  <2>3. cfg.lanes = {<<Own>>} /\ ~AllAtCapacity => ~AtCapacity(Own)
    BY <1>c DEF AllAtCapacity, Entries
  <2> QED
    BY <1>t, <2>1, <2>2, <2>3 DEF Room
<1>9. CASE ForgetRetired
  <2>1. /\ UNCHANGED <<cfg, served, todo>> /\ pc = "forget" /\ pc' = "plan"
        /\ Entries(served) \subseteq books'
    BY <1>9, <1>t DEF ForgetRetired, Goto
  <2>2. Given' = {} /\ Entries(served)' = Entries(served)
    BY <1>t, <2>1, NoneGiven DEF Given, Of
  <2>3. \A q \in Queue : inFlight'[q] <= inFlight[q]
    <3>1. \A q \in Queue : inFlight[q] \in Nat
      BY <1>t, CountedType, CountType DEF Exact, SlotsExact
    <3> QED
      BY <1>9, <3>1 DEF ForgetRetired
  <2>4. ~AtCapacity(Own) => ~AtCapacity(Own)'
    BY <1>t, <2>1, <2>3, FreeKept
  <2> QED
    BY <2>1, <2>2, <2>4 DEF Room
<1>10. CASE Plan
  <2>1. /\ UNCHANGED <<cfg, served, todo, inFlight, books>> /\ pc = "plan" /\ pc' \in {"top", "read"}
        /\ asked' = Readable
    BY <1>10 DEF Plan
  <2>2. Given' = {} /\ Entries(served)' = Entries(served)
    BY <1>t, <2>1, NoneGiven DEF Given, Of
  <2>3. \A q : Free(q)' = Free(q)
    BY <2>1 DEF AtCapacity, Free, MayShrink
  <2>4. ASSUME NEW q \in Readable PROVE q \in books /\ Free(q)
    <3>1. CASE served = <<Own>>
      <4>1. q = Own /\ Own \in Entries(served)
        BY <2>4, <3>1 DEF Readable, Entries
      <4>2. MayShrink \/ cfg.lanes = {<<Own>>}
        BY <1>c, <3>1 DEF MayShrink
      <4> QED
        BY <1>t, <2>1, <4>1, <4>2 DEF Room, Free
    <3>2. CASE served # <<Own>>
      BY <1>t, <2>4, <3>2 DEF Readable, Free
    <3> QED
      BY <3>1, <3>2
  <2> QED
    BY <1>t, <2>1, <2>2, <2>3, <2>4 DEF Room
<1>11. ASSUME NEW m \in Msg, Take(m) PROVE Room'
  <2>1. /\ UNCHANGED <<cfg, served, todo, inFlight, books>> /\ pc = "read" /\ pc' = "dispatch"
        /\ QueueOf[m] \in asked /\ cur' = m
    BY <1>11 DEF Take
  <2>2. Given' = {} /\ Entries(served)' = Entries(served)
    BY <1>t, <2>1, NoneGiven DEF Given, Of
  <2>3. \A q : Free(q)' = Free(q)
    BY <2>1 DEF AtCapacity, Free, MayShrink
  <2>4. QueueOf[m] \in books /\ Free(QueueOf[m])
    BY <2>1 DEF Room
  <2> QED
    BY <1>t, <2>1, <2>2, <2>3, <2>4 DEF Room
<1>12. CASE AwaitRoom
  <2>1. /\ UNCHANGED <<cfg, served, todo, inFlight, books, cur>> /\ pc = "dispatch" /\ pc' = "room"
    BY <1>12 DEF AwaitRoom, Goto
  <2>2. Given' = {} /\ Entries(served)' = Entries(served)
    BY <1>t, <2>1, NoneGiven DEF Given, Of
  <2>3. \A q : Free(q)' = Free(q)
    BY <2>1 DEF AtCapacity, Free, MayShrink
  <2> QED
    BY <1>t, <2>1, <2>2, <2>3 DEF Room
<1>13. CASE RoomOne
  <2>1. /\ UNCHANGED <<cfg, served, todo, book, fate, cur, pc>> /\ pc = "room" /\ Settle
    BY <1>13 DEF RoomOne, loop
  <2>2. Given' = {} /\ Entries(served)' = Entries(served)
    BY <1>t, <2>1, NoneGiven DEF Given, Of
  <2>3. PICK q \in Queue : inFlight' = [inFlight EXCEPT ![q] = @ - 1] /\ books' = books
    BY <2>1, SettleBooks
  <2>4. \A p \in Queue : inFlight'[p] <= inFlight[p]
    BY <1>c, <2>3
  <2>5. QueueOf[cur] \in Queue /\ QueueOf[cur] \in books /\ Free(QueueOf[cur])
    BY <1>t, <2>1 DEF Room, TypeOK
  <2>6. Free(QueueOf[cur])'
    <3>1. Free(QueueOf[cur]) => Free(QueueOf[cur])'
      <4>1. PICK p \in Queue : p = QueueOf[cur]
        BY <2>5
      <4>2. Free(p) => Free(p)'
        BY <1>t, <2>1, <2>4, FreeKept
      <4> QED
        BY <2>1, <4>1, <4>2 DEF Free, AtCapacity, MayShrink
    <3> QED
      BY <2>5, <3>1
  <2> QED
    BY <1>t, <2>1, <2>2, <2>3, <2>5, <2>6 DEF Room
<1>14. CASE Give
  <2>1. /\ UNCHANGED <<cfg, served, inFlight, books>> /\ pc \in {"dispatch", "room"} /\ pc' = "work"
        /\ book' = [book EXCEPT ![cur] = CountedUnder(cur)]
    BY <1>14 DEF Give
  <2>2. Given' = {cur} /\ cur \in Msg /\ Entries(served)' = Entries(served)
    BY <1>14, <2>1, PlacesRead DEF Places
  <2>3. \A q : Free(q)' = Free(q)
    BY <2>1 DEF AtCapacity, Free, MayShrink
  <2>4. book'[cur] = QueueOf[cur] /\ Free(QueueOf[cur])
    BY <1>t, <2>1, <2>2 DEF Room, CountedUnder, TypeOK
  <2>5. \A m \in Given' : Free(book[m])'
    BY <2>2, <2>3, <2>4 DEF Free, AtCapacity, MayShrink
  <2> QED
    BY <1>t, <2>1, <2>2, <2>5 DEF Room
<1> QED
  BY <1>1, <1>2, <1>3, <1>4, <1>5, <1>6, <1>7, <1>8, <1>9, <1>10, <1>11, <1>12, <1>13, <1>14
     DEF Next, Run, Ended
(* No count grows past its budget where none grows. *)
LEMMA BudgetKept ==
    ASSUME TypeOK, TypeOK', WithinBudget, UNCHANGED cfg, \A q \in Queue : inFlight'[q] <= inFlight[q],
           \A b \in Bot : sending'[b] <= sending[b]
    PROVE  WithinBudget'
<1>1. /\ cfg.limit \in Nat /\ cfg.perBot \in Nat
      /\ \A q \in Queue : inFlight[q] \in Int /\ inFlight'[q] \in Int
      /\ \A b \in Bot : sending[b] \in Nat /\ sending'[b] \in Nat
  BY DEF TypeOK, Config
<1>2. MayShrink' = MayShrink
  BY DEF MayShrink
<1>3. ASSUME cfg.limit # 0, NEW q \in Queue
      PROVE  inFlight'[q] <= cfg.limit \/ (q = Own /\ MayShrink)
  BY <1>1, <1>3 DEF WithinBudget
<1>4. ASSUME cfg.perBot # 0, NEW b \in Bot PROVE sending'[b] <= cfg.perBot
  BY <1>1, <1>4 DEF WithinBudget
<1> QED
  BY <1>2, <1>3, <1>4 DEF WithinBudget

(* A slot taken where there was room for one. *)
LEMMA SlotWithin ==
    ASSUME TypeOK, WithinBudget, UNCHANGED cfg, NEW p \in Queue, Free(p),
           inFlight' = [inFlight EXCEPT ![p] = @ + 1]
    PROVE  cfg'.limit # 0 => \A q \in Queue : inFlight'[q] <= cfg'.limit \/ (q = Own /\ MayShrink')
<1> SUFFICES ASSUME cfg.limit # 0, NEW q \in Queue
             PROVE  inFlight'[q] <= cfg.limit \/ (q = Own /\ MayShrink)
  BY DEF MayShrink
<1>1. inFlight[q] \in Int /\ cfg.limit \in Nat /\ inFlight'[q] = IF q = p THEN inFlight[q] + 1 ELSE inFlight[q]
  BY DEF TypeOK, Config
<1>2. CASE q = p
  BY <1>1, <1>2 DEF Free, AtCapacity
<1>3. CASE q # p
  BY <1>1, <1>3 DEF WithinBudget
<1> QED
  BY <1>2, <1>3

LEMMA SendWithin ==
    ASSUME TypeOK, WithinBudget, UNCHANGED cfg, NEW a \in Bot, ~BotAtCapacity(a),
           sending' = [sending EXCEPT ![a] = @ + 1]
    PROVE  cfg'.perBot # 0 => \A b \in Bot : sending'[b] <= cfg'.perBot
<1> SUFFICES ASSUME cfg.perBot # 0, NEW b \in Bot PROVE sending'[b] <= cfg.perBot
  OBVIOUS
<1>1. sending[b] \in Nat /\ cfg.perBot \in Nat /\ sending'[b] = IF b = a THEN sending[b] + 1 ELSE sending[b]
  BY DEF TypeOK, Config
<1>2. CASE b = a
  BY <1>1, <1>2 DEF BotAtCapacity
<1>3. CASE b # a
  BY <1>1, <1>3 DEF WithinBudget
<1> QED
  BY <1>2, <1>3

LEMMA BudgetNext == PlaceInv /\ Exact /\ Turn /\ Room /\ WithinBudget /\ [Next]_vars => WithinBudget'
<1> SUFFICES ASSUME PlaceInv, Exact, Turn, Room, WithinBudget, [Next]_vars PROVE WithinBudget'
  OBVIOUS
<1>t. TypeOK /\ TypeOK'
  BY TypeNext DEF PlaceInv
<1>c. /\ inFlight \in [Queue -> Int] /\ sending \in [Bot -> Nat]
      /\ \A q \in Queue : inFlight[q] \in Nat
  <2>1. \A q \in Queue : inFlight[q] \in Nat
    BY <1>t, CountedType, CountType DEF Exact, SlotsExact
  <2> QED
    BY <1>t, <2>1 DEF TypeOK
<1>1. CASE Reclaim \/ Top \/ HeldEnough \/ Plan \/ AwaitRoom \/ WorkDone
           \/ TakeNothing \/ Stop \/ TakeFails \/ Leave \/ RoomStopped
           \/ (\E m \in Msg : Take(m)) \/ (\E s \in cfg.lanes : Serve(s)) \/ UNCHANGED vars
           \/ CollectedAll \/ Drop \/ Give \/ WorkAck \/ Repark
           \/ (\E m \in Msg : Report(m) \/ CancelSend(m)) \/ \E c \in BOOLEAN : HandlerReturned(c)
  <2>1. UNCHANGED <<cfg, inFlight, sending>>
    BY <1>1 DEF Reclaim, Top, HeldEnough, Plan, AwaitRoom, WorkDone, TakeNothing, Stop, TakeFails, Leave,
       RoomStopped, Take, Serve, Goto, loop, vars, CollectedAll, Drop, Give, WorkAck, Repark, Report,
       OnComplete, OnRefused, CancelSend, HandlerReturned
  <2> QED
    BY <1>t, <1>c, <2>1, BudgetKept
<1>2. CASE CollectOne \/ RoomOne \/ HoldOne
  <2>1. Settle /\ UNCHANGED <<cfg, book, fate>>
    BY <1>2 DEF CollectOne, RoomOne, HoldOne, loop
  <2>2. PICK q \in Queue, b \in Bot : /\ inFlight' = [inFlight EXCEPT ![q] = @ - 1]
                                      /\ sending' = [sending EXCEPT ![b] = @ - 1]
    BY <2>1, SettleBooks
  <2>3. \A p \in Queue : inFlight'[p] <= inFlight[p]
    BY <1>c, <2>2
  <2>4. \A a \in Bot : sending'[a] <= sending[a]
    BY <1>c, <2>2
  <2> QED
    BY <1>t, <2>1, <2>3, <2>4, BudgetKept
<1>3. CASE ForgetRetired
  <2>1. UNCHANGED <<cfg, sending>> /\ \A q \in Queue : inFlight'[q] <= inFlight[q]
    BY <1>3, <1>c DEF ForgetRetired
  <2> QED
    BY <1>t, <1>c, <2>1, BudgetKept
<1>4. ASSUME NEW c \in BOOLEAN, HandlerRaised(c) PROVE WithinBudget'
  <2>1. UNCHANGED <<cfg, sending>> /\ todo # <<>>
    BY <1>4 DEF HandlerRaised, HandsOver
  <2>2. PICK q \in Queue : inFlight' \in {inFlight, [inFlight EXCEPT ![q] = @ - 1]}
    BY <1>4, <1>t, <2>1, WorkType DEF HandlerRaised
  <2>3. \A p \in Queue : inFlight'[p] <= inFlight[p]
    BY <1>c, <2>2
  <2> QED
    BY <1>t, <1>c, <2>1, <2>3, BudgetKept
<1>5. CASE Park
  <2>1. /\ UNCHANGED <<cfg, sending>> /\ pc = "dispatch" /\ cur \in Msg
        /\ inFlight' = [inFlight EXCEPT ![CountedUnder(cur)] = @ + 1]
    BY <1>5, PlacesRead DEF Park
  <2>2. CountedUnder(cur) = QueueOf[cur] /\ Free(QueueOf[cur]) /\ QueueOf[cur] \in Queue
    BY <2>1 DEF Room, CountedUnder
  <2>3. cfg'.limit # 0 => \A q \in Queue : inFlight'[q] <= cfg'.limit \/ (q = Own /\ MayShrink')
    BY <1>t, <2>1, <2>2, SlotWithin
  <2> QED
    BY <2>1, <2>3 DEF WithinBudget
<1>6. CASE HandlerTook
  <2>1. /\ UNCHANGED <<cfg, book>> /\ todo # <<>> /\ First.op \in {"offer", "give"}
        /\ sending' = [sending EXCEPT ![BotOf[First.msg]] = @ + 1]
        /\ First.op = "give" => inFlight' = [inFlight EXCEPT ![book[First.msg]] = @ + 1]
        /\ First.op = "offer" => UNCHANGED inFlight /\ ~BotAtCapacity(BotOf[First.msg])
    BY <1>6 DEF HandlerTook, HandsOver
  <2>2. BotOf[First.msg] \in Bot /\ book[First.msg] \in Queue
    BY <1>t, <2>1, WorkType
  <2>3. First.op = "give" => Free(book[First.msg]) /\ ~BotAtCapacity(BotOf[First.msg])
    BY <2>1, PlacesWork DEF Room, Turn
  <2>4. cfg'.perBot # 0 => \A b \in Bot : sending'[b] <= cfg'.perBot
    BY <1>t, <2>1, <2>2, <2>3, SendWithin
  <2>5. CASE First.op = "offer"
    BY <2>1, <2>4, <2>5 DEF WithinBudget, MayShrink
  <2>6. CASE First.op = "give"
    <3>1. cfg'.limit # 0 => \A q \in Queue : inFlight'[q] <= cfg'.limit \/ (q = Own /\ MayShrink')
      BY <1>t, <2>1, <2>2, <2>3, <2>6, SlotWithin
    <3> QED
      BY <2>4, <3>1 DEF WithinBudget
  <2> QED
    BY <2>1, <2>5, <2>6
<1>7. CASE Crash
  <2>1. cfg'.limit \in Nat /\ cfg'.perBot \in Nat
    BY <1>t DEF TypeOK, Config
  <2> QED
    BY <1>7, <2>1 DEF Crash, WithinBudget
<1> QED
  BY <1>1, <1>2, <1>3, <1>4, <1>5, <1>6, <1>7 DEF Next, Run, Ended

(* The counts of the inductive invariant are those of the property. *)
LEMMA ExactBooks == TypeOK /\ Exact /\ WithinBudget => BooksHold
<1> SUFFICES ASSUME TypeOK, Exact, WithinBudget PROVE SlotsAccounted
  BY DEF BooksHold
<1>1. \A m \in Msg : Sending(m) <=> m \in Sends
  BY DEF Sending, Sends, Open, Reported
<1>2. \A m \in Msg : Waiting(m) \/ Sending(m) <=> m \in Counted
  BY <1>1 DEF Waiting, Counted, Parked, Offered, Of
<1>3. Counted \subseteq Msg /\ Sends \subseteq Msg
  BY CountedType
<1>4. \A q : {m \in Msg : (Waiting(m) \/ Sending(m)) /\ book[m] = q} = Under(Counted, book, q)
  BY <1>2, <1>3 DEF Under
<1>5. \A b : {m \in Msg : Sending(m) /\ BotOf[m] = b} = Under(Sends, BotOf, b)
  BY <1>1, <1>3 DEF Under
<1> QED
  BY <1>4, <1>5 DEF SlotsAccounted, Exact, SlotsExact, SendsExact

(* The consumer's books are exact and within the budgets, whatever queues   *)
(* come and go, however sends end or are never heard of, for any number of *)
(* messages, queues and bots.                                              *)
THEOREM BooksAreExact == Spec => []BooksHold
<1>1. Init => BooksInv
  BY PlaceInit, ExactInit, RoomInit, TurnInit DEF BooksInv, PlaceInv
<1>2. BooksInv /\ [Next]_vars => BooksInv'
  BY PlaceNext, ExactNext, RoomNext, TurnNext, BudgetNext DEF BooksInv, PlaceInv
<1>3. BooksInv => BooksHold
  BY ExactBooks DEF BooksInv
<1> QED
  BY <1>1, <1>2, <1>3, PTL DEF Spec
=============================================================================
