------------------------- MODULE SendLoopLogProofs -------------------------
(***************************************************************************)
(* Two components.  Of the event log's recorder: that no event vanishes,   *)
(* that its ledger adds up and that its marks are of threads at work, for  *)
(* every number of threads, queues, events and calls and every failure of  *)
(* a write or of a thread that was to start.  And that close() loses       *)
(* nothing a bot's loop was handed, and refuses no send that was handed    *)
(* over before it began, for every number of senders, requests, loops and  *)
(* calls of close, in a web process with the guards of its view.           *)
(***************************************************************************)
EXTENDS WebProcess, EventLog, FiniteSetTheorems, SequenceTheorems, TLAPS

-----------------------------------------------------------------------------
(* The event log: the inductive invariant *)

\* No event is twice in a queue; its wakes are all alike.
NoneTwice(s) == \A i, j \in DOMAIN s : i # j /\ s[i] = s[j] => s[i] = Wake

CallStates == CallerState \cup Flushing
WriteStates == WriterState \cup Flushing

(* The queues made so far are the first ones, each with a writer that      *)
(* started, and the live one's writer has not come to its end.             *)
QueuesShape ==
    /\ live \in Buffer \cup {None} /\ opened \in 0..MaxBuffers /\ stopping \in BOOLEAN
    /\ buf \in [Buffer -> Seq(Item)]
    /\ \A b \in Buffer : Len(buf[b]) <= BufferSize

ThreadsShape ==
    /\ pc \in [LogThread -> CallStates \cup WriteStates]
    /\ \A c \in Callers : pc[c] \in CallStates
    /\ \A b \in Buffer : pc[b] \in WriteStates
    /\ \A b \in Buffer : b > opened => pc[b] = "none"
    /\ live # None => live <= opened /\ pc[live] \notin {"none", "done"}

(* What a call has looked up and what it is putting, where it needs them.  *)
CallsShape ==
    /\ into \in [Callers -> Buffer \cup {None}] /\ from \in [Callers -> Buffer \cup {None}]
    /\ item \in [Callers -> Item \cup {Nothing}]
    /\ \A c \in Callers :
        /\ pc[c] \in {"put", "check", "reput", "detached", "joining", "waking"} => into[c] # None
        /\ pc[c] \in {"rehome", "reput"} => from[c] # None
        /\ pc[c] = "put" => item[c] \in Event
        /\ pc[c] = "reput" => item[c] \in Item
        /\ pc[c] \notin {"put", "reput"} => item[c] = Nothing

(* A batch is in a hand until its flush, a claim until its gap row.        *)
BatchesShape ==
    /\ hand \in [LogThread -> SUBSET Event] /\ woken \in [Buffer -> BOOLEAN]
    /\ snap \in [LogThread -> Nat] /\ claimed \in [LogThread -> Nat]
    /\ \A t \in LogThread :
        /\ hand[t] # {} => pc[t] \in {"collect", "flush"}
        /\ claimed[t] # 0 => pc[t] = "gap"

CountsShape ==
    /\ failures \in [Buffer -> 0..FailureLimit] /\ blocked \in [Buffer -> BOOLEAN]
    /\ dropped \in Nat /\ gaps \in Nat /\ phantom \in Nat
    /\ rows \subseteq Event /\ lost \subseteq Event
    /\ marks \subseteq LogThread /\ adrift \subseteq Event /\ conns \subseteq Buffer
    /\ recorded \in 0..MaxEvents

Shaped == QueuesShape /\ ThreadsShape /\ CallsShape /\ BatchesShape /\ CountsShape

-----------------------------------------------------------------------------
(* The items of a queue *)

(* Who the threads are, and that no event is a wake. *)
LEMMA WhoIsWho == /\ Buffer \subseteq LogThread /\ Callers \subseteq LogThread
                  /\ Buffer \cap Callers = {} /\ LogThread = Buffer \cup Callers
                  /\ None \notin Buffer /\ Buffer \subseteq Nat
                  /\ Wake \in Item /\ Wake \notin Event /\ Nothing \notin Item
                  /\ Event \subseteq Item /\ Item = Event \cup {Wake}
                  /\ Event \subseteq Nat
    BY EventLogAssumption DEF Buffer, Callers, LogThread, None, Wake, Item, Event, Nothing

(* What a queue holds, its wakes left out, are events. *)
LEMMA EventsAreEvents ==
    ASSUME NEW s \in Seq(Item) PROVE Events(s) \subseteq Event /\ Wake \notin Events(s)
    BY DEF Events, Item, Wake

(* An empty queue holds nothing. *)
LEMMA NothingInEmpty == Events(<<>>) = {} /\ NoneTwice(<<>>) /\ <<>> \in Seq(Item)
    BY DEF Events, NoneTwice

(* A queue of one item holds that one. *)
LEMMA OneInOne ==
    ASSUME NEW x \in Item PROVE Events(<<x>>) = {x} \ {Wake}
    BY DEF Events

(* A put adds its item and nothing else. *)
LEMMA AppendAdds ==
    ASSUME NEW s \in Seq(Item), NEW x \in Item
    PROVE  /\ Append(s, x) \in Seq(Item) /\ Len(Append(s, x)) = Len(s) + 1
           /\ Events(Append(s, x)) = Events(s) \cup ({x} \ {Wake})
           /\ NoneTwice(s) /\ x \notin Events(s) => NoneTwice(Append(s, x))
  <1> DEFINE t == Append(s, x)
  <1>1. t \in Seq(Item) /\ Len(t) = Len(s) + 1 /\ Len(s) \in Nat
    OBVIOUS
  <1>2. /\ DOMAIN s = 1..Len(s) /\ DOMAIN t = 1..(Len(s) + 1)
        /\ \A i \in 1..Len(s) : t[i] = s[i]
        /\ t[Len(s) + 1] = x
    OBVIOUS
  <1> HIDE DEF t
  <1>3. Events(t) = Events(s) \cup ({x} \ {Wake})
    <2>1. \A e : e \in Events(t) => e \in Events(s) \cup ({x} \ {Wake})
      BY <1>1, <1>2 DEF Events
    <2>2. \A e \in Events(s) : e \in Events(t)
      BY <1>1, <1>2 DEF Events
    <2>3. \A e \in {x} \ {Wake} : e \in Events(t)
      BY <1>1, <1>2 DEF Events
    <2> QED BY <2>1, <2>2, <2>3
  <1>4. ASSUME NoneTwice(s), x \notin Events(s)
        PROVE  NoneTwice(t)
    <2>1. x # Wake => \A i \in 1..Len(s) : s[i] # x
      BY <1>2, <1>4 DEF Events
    <2> SUFFICES ASSUME NEW i \in 1..(Len(s) + 1), NEW j \in 1..(Len(s) + 1), i # j,
                            t[i] = t[j], i < j
                 PROVE  t[i] = Wake
      BY <1>2, <1>1 DEF NoneTwice
    <2>2. CASE j = Len(s) + 1
      BY <2>1, <2>2, <1>1, <1>2
    <2>3. CASE j # Len(s) + 1
      <3>1. i \in 1..Len(s) /\ j \in 1..Len(s)
        BY <2>3, <1>1
      <3>2. s[i] = t[i] /\ s[j] = t[j]
        BY <3>1, <1>2
      <3> QED BY <3>1, <3>2, <1>2, <1>4 DEF NoneTwice
    <2> QED BY <2>2, <2>3
  <1> QED BY <1>1, <1>3, <1>4 DEF t

(* A get removes the head and nothing else. *)
LEMMA TailRemoves ==
    ASSUME NEW s \in Seq(Item), s # <<>>
    PROVE  /\ Tail(s) \in Seq(Item) /\ Len(Tail(s)) = Len(s) - 1 /\ Head(s) \in Item
           /\ Events(s) = Events(Tail(s)) \cup ({Head(s)} \ {Wake})
           /\ NoneTwice(s) => Head(s) \notin Events(Tail(s)) /\ NoneTwice(Tail(s))
  <1> DEFINE t == Tail(s)  h == Head(s)
  <1>1. t \in Seq(Item) /\ Len(t) = Len(s) - 1 /\ Len(s) \in Nat \ {0} /\ h = s[1] /\ h \in Item
    OBVIOUS
  <1>2. /\ DOMAIN s = 1..Len(s) /\ DOMAIN t = 1..(Len(s) - 1)
        /\ \A i \in 1..(Len(s) - 1) : t[i] = s[i + 1]
    OBVIOUS
  <1> HIDE DEF t, h
  <1>3. Events(s) = Events(t) \cup ({h} \ {Wake})
    <2>1. ASSUME NEW e \in Events(s) PROVE e \in Events(t) \cup ({h} \ {Wake})
      <3>1. PICK i \in 1..Len(s) : e = s[i] /\ e # Wake
        BY <1>2, <2>1 DEF Events
      <3>2. CASE i = 1
        BY <3>1, <3>2, <1>1
      <3>3. CASE i # 1
        <4>1. i - 1 \in 1..(Len(s) - 1) /\ t[i - 1] = s[(i - 1) + 1] /\ (i - 1) + 1 = i
          BY <3>3, <1>1, <1>2
        <4> QED BY <4>1, <3>1, <1>2 DEF Events
      <3> QED BY <3>2, <3>3
    <2>2. ASSUME NEW e \in Events(t) PROVE e \in Events(s)
      <3>1. PICK i \in 1..(Len(s) - 1) : e = t[i] /\ e # Wake
        BY <1>2, <2>2 DEF Events
      <3>2. i + 1 \in 1..Len(s) /\ s[i + 1] = e
        BY <3>1, <1>1, <1>2
      <3> QED BY <3>1, <3>2, <1>2 DEF Events
    <2>3. h # Wake => h \in Events(s)
      BY <1>1, <1>2 DEF Events
    <2> QED BY <2>1, <2>2, <2>3
  <1>4. ASSUME NoneTwice(s) PROVE h \notin Events(t) /\ NoneTwice(t)
    <2>1. \A i \in 1..(Len(s) - 1) : t[i] # h \/ h = Wake
      <3> SUFFICES ASSUME NEW i \in 1..(Len(s) - 1), t[i] = h PROVE h = Wake
        OBVIOUS
      <3>1. i + 1 \in DOMAIN s /\ 1 \in DOMAIN s /\ i + 1 # 1 /\ s[i + 1] = s[1]
        BY <1>1, <1>2
      <3> QED BY <3>1, <1>1, <1>4 DEF NoneTwice
    <2>2. h \notin Events(t)
      BY <2>1, <1>2 DEF Events
    <2>3. NoneTwice(t)
      <3> SUFFICES ASSUME NEW i \in 1..(Len(s) - 1), NEW j \in 1..(Len(s) - 1), i # j, t[i] = t[j]
                   PROVE  t[i] = Wake
        BY <1>2 DEF NoneTwice
      <3>1. i + 1 \in DOMAIN s /\ j + 1 \in DOMAIN s /\ i + 1 # j + 1
        BY <1>1, <1>2
      <3>2. s[i + 1] = t[i] /\ s[j + 1] = t[j]
        BY <1>2
      <3> QED BY <3>1, <3>2, <1>4 DEF NoneTwice
    <2> QED BY <2>2, <2>3
  <1> QED BY <1>1, <1>3, <1>4 DEF t, h

(* What a write lands and what it gives out is what it was given.          *)
LEMMA OutcomeSplits ==
    ASSUME NEW E \in SUBSET Event, NEW inBlock, NEW r \in Outcome(E, inBlock)
    PROVE  r.landed \subseteq E /\ r.out \subseteq E /\ r.landed \cup r.out = E
           /\ r.raised \in BOOLEAN
  <1> DEFINE Splits(q) == /\ q.landed \subseteq E /\ q.out \subseteq E /\ q.landed \cup q.out = E
                          /\ q.raised \in BOOLEAN
  <1>1. Splits(Whole(E)) /\ Splits(Unconfirmed(E))
    BY DEF Whole, Unconfirmed
  <1>2. \A q \in Partly(E) : Splits(q)
    <2>1. SUFFICES ASSUME NEW q \in Partly(E) PROVE Splits(q)
      OBVIOUS
    <2>2. PICK part \in SUBSET E : q = [landed |-> part, out |-> E \ part,
                   raised |-> Refused(part)]
      BY DEF Partly, RowByRow
    <2>3. Refused(part) \in BOOLEAN
      BY DEF Refused
    <2>4. q.landed = part /\ q.out = E \ part /\ q.raised = Refused(part)
      BY <2>2
    <2> QED BY <2>3, <2>4
  <1>3. Splits([landed |-> {}, out |-> E, raised |-> TRUE])
    OBVIOUS
  <1> QED BY <1>1, <1>2, <1>3 DEF Outcome, Recycled

(* A queue with room stays within its bound after a put. *)
LEMMA QueueGrows ==
    ASSUME NEW f \in [Buffer -> Seq(Item)], \A b \in Buffer : Len(f[b]) <= BufferSize,
           NEW b \in Buffer, NEW x \in Item, Len(f[b]) < BufferSize,
           NEW g, g = [f EXCEPT ![b] = Append(@, x)]
    PROVE  /\ g \in [Buffer -> Seq(Item)] /\ \A d \in Buffer : Len(g[d]) <= BufferSize
           /\ Events(g[b]) = Events(f[b]) \cup ({x} \ {Wake})
           /\ \A d \in Buffer : d # b => g[d] = f[d]
  <1>1. g[b] = Append(f[b], x) /\ \A d \in Buffer : d # b => g[d] = f[d]
    OBVIOUS
  <1>2. Append(f[b], x) \in Seq(Item) /\ Len(Append(f[b], x)) = Len(f[b]) + 1 /\ Len(f[b]) \in Nat
    BY AppendAdds
  <1>3. g \in [Buffer -> Seq(Item)]
    BY <1>2
  <1>4. BufferSize \in Nat
    BY EventLogAssumption
  <1>5. \A d \in Buffer : Len(g[d]) <= BufferSize
    BY <1>1, <1>2, <1>4
  <1> QED BY <1>1, <1>3, <1>5, AppendAdds

(* A queue stays within its bound after a get. *)
LEMMA QueueShrinks ==
    ASSUME NEW f \in [Buffer -> Seq(Item)], \A b \in Buffer : Len(f[b]) <= BufferSize,
           NEW b \in Buffer, f[b] # <<>>,
           NEW g, g = [f EXCEPT ![b] = Tail(@)]
    PROVE  /\ g \in [Buffer -> Seq(Item)] /\ \A d \in Buffer : Len(g[d]) <= BufferSize
           /\ Head(f[b]) \in Item
           /\ Events(f[b]) = Events(g[b]) \cup ({Head(f[b])} \ {Wake})
           /\ NoneTwice(f[b]) => Head(f[b]) \notin Events(g[b])
           /\ g[b] = Tail(f[b]) /\ \A d \in Buffer : d # b => g[d] = f[d]
  <1>1. g[b] = Tail(f[b]) /\ \A d \in Buffer : d # b => g[d] = f[d]
    OBVIOUS
  <1>2. Tail(f[b]) \in Seq(Item) /\ Len(Tail(f[b])) = Len(f[b]) - 1 /\ Len(f[b]) \in Nat
    BY TailRemoves
  <1>3. g \in [Buffer -> Seq(Item)]
    BY <1>2
  <1>4. BufferSize \in Nat
    BY EventLogAssumption
  <1>5. \A d \in Buffer : Len(g[d]) <= BufferSize
    BY <1>1, <1>2, <1>4
  <1> QED BY <1>1, <1>3, <1>5, TailRemoves

(* A queue stays within its bound once it is emptied. *)
LEMMA QueueEmpties ==
    ASSUME NEW f \in [Buffer -> Seq(Item)], \A b \in Buffer : Len(f[b]) <= BufferSize,
           NEW b \in Buffer, NEW g, g = [f EXCEPT ![b] = <<>>]
    PROVE  /\ g \in [Buffer -> Seq(Item)] /\ \A d \in Buffer : Len(g[d]) <= BufferSize
           /\ g[b] = <<>> /\ Events(g[b]) = {}
           /\ \A d \in Buffer : d # b => g[d] = f[d]
    BY NothingInEmpty, EventLogAssumption

(* A set of events has a number. *)
LEMMA Counted ==
    ASSUME NEW E \in SUBSET Event PROVE IsFiniteSet(E) /\ Cardinality(E) \in Nat
  <1>0. MaxEvents \in Nat
    BY EventLogAssumption
  <1>1. IsFiniteSet(Event)
    BY <1>0, FS_Interval DEF Event
  <1> QED BY <1>1, FS_Subset, FS_CardinalityType

-----------------------------------------------------------------------------
(* What the operations share *)

(* _buffer(): the queue it returns is the live one, and at most one writer *)
(* starts.                                                                 *)
LEMMA LookUp ==
    ASSUME Shaped, NEW c \in Callers, NEW then \in CallStates, LooksUp(c, then)
    PROVE  /\ live' \in Buffer /\ opened' \in 0..MaxBuffers /\ stopping' \in BOOLEAN
           /\ ThreadsShape'
           /\ into' = [into EXCEPT ![c] = live']
           /\ pc'[c] = then
           /\ \A t \in LogThread \ {c} : pc'[t] = pc[t] \/ (t \in Buffer /\ pc[t] = "none"
                /\ pc'[t] = "collect")
  <1>1. CASE live # None
    <2>1. /\ live' = live /\ opened' = opened /\ stopping' = stopping
          /\ into' = [into EXCEPT ![c] = live] /\ pc' = [pc EXCEPT ![c] = then]
      BY <1>1 DEF LooksUp, Becomes
    <2>2. ThreadsShape'
      BY <1>1, <2>1, WhoIsWho DEF Shaped, QueuesShape, ThreadsShape
    <2> QED BY <1>1, <2>1, <2>2, WhoIsWho DEF Shaped, QueuesShape, ThreadsShape
  <1>2. CASE live = None
    <2> DEFINE new == opened + 1
    <2>1. /\ opened < MaxBuffers /\ live' = new /\ opened' = new /\ stopping' = FALSE
          /\ into' = [into EXCEPT ![c] = new]
          /\ pc' = [pc EXCEPT ![c] = then, ![new] = "collect"]
      BY <1>2 DEF LooksUp, Becomes
    <2>2. opened \in 0..MaxBuffers /\ MaxBuffers \in Nat /\ new > opened /\ new \in Nat
      BY EventLogAssumption DEF Shaped, QueuesShape
    <2>3. new \in Buffer /\ new # None /\ new # c /\ new \in 0..MaxBuffers
      BY <2>1, <2>2, WhoIsWho DEF Buffer, None
    <2> HIDE DEF new
    <2>4. pc[new] = "none" /\ pc \in [LogThread -> CallStates \cup WriteStates]
      BY <2>2, <2>3 DEF Shaped, ThreadsShape
    <2>5. /\ pc'[new] = "collect" /\ pc'[c] = then
          /\ \A t \in LogThread \ {c, new} : pc'[t] = pc[t]
      BY <2>1, <2>3, <2>4, WhoIsWho
    <2>6. pc' \in [LogThread -> CallStates \cup WriteStates]
      BY <2>1, <2>4 DEF WriteStates, WriterState
    <2>7. (\A d \in Callers : pc'[d] \in CallStates) /\ (\A d \in Buffer : pc'[d] \in WriteStates)
      BY <2>3, <2>5, WhoIsWho DEF WriteStates, WriterState, Shaped, ThreadsShape
    <2>8. \A b \in Buffer : b > opened' => pc'[b] = "none"
      <3> SUFFICES ASSUME NEW b \in Buffer, b > new PROVE pc'[b] = "none"
        BY <2>1
      <3>1. b > opened /\ b # new /\ b # c
        BY <2>2, WhoIsWho DEF new
      <3> QED BY <3>1, <2>5, WhoIsWho DEF Shaped, ThreadsShape
    <2>a. live' <= opened' /\ pc'[live'] \notin {"none", "done"}
      <3>1. new <= new
        BY <2>2
      <3> QED BY <2>1, <2>5, <3>1
    <2>9. ThreadsShape'
      BY <2>6, <2>7, <2>8, <2>a DEF ThreadsShape
    <2>b. \A t \in LogThread \ {c} : pc'[t] = pc[t] \/ (t \in Buffer /\ pc[t] = "none"
              /\ pc'[t] = "collect")
      BY <2>3, <2>4, <2>5
    <2> QED BY <2>1, <2>3, <2>5, <2>9, <2>b
  <1> QED BY <1>1, <1>2

(* A thread goes on; the slot keeps its queue, or has none after it.       *)
LEMMA GoesOn ==
    ASSUME Shaped, NEW t \in LogThread, NEW state, pc' = [pc EXCEPT ![t] = state],
           live' \in {live, None}, opened' = opened,
           t \in Callers => state \in CallStates,
           t \in Buffer => /\ state \in WriteStates \ {"none"} /\ pc[t] # "none"
                           /\ state = "done" => live' # t
    PROVE  ThreadsShape'
  <1>1. /\ pc \in [LogThread -> CallStates \cup WriteStates]
             /\ state \in CallStates \cup WriteStates
        /\ live \in Buffer \cup {None} /\ opened \in Nat
    BY WhoIsWho DEF Shaped, ThreadsShape, QueuesShape
  <1>2. pc'[t] = state /\ \A d \in LogThread \ {t} : pc'[d] = pc[d]
    BY <1>1
  <1>3. pc' \in [LogThread -> CallStates \cup WriteStates]
    BY <1>1
  <1>4. (\A c \in Callers : pc'[c] \in CallStates) /\ (\A b \in Buffer : pc'[b] \in WriteStates)
    BY <1>2, WhoIsWho DEF Shaped, ThreadsShape
  <1>5. \A b \in Buffer : b > opened' => pc'[b] = "none"
    BY <1>2, WhoIsWho DEF Shaped, ThreadsShape
  <1>6. live' # None => live' <= opened' /\ pc'[live'] \notin {"none", "done"}
    BY <1>1, <1>2, WhoIsWho DEF Shaped, ThreadsShape
  <1> QED BY <1>3, <1>4, <1>5, <1>6 DEF ThreadsShape

-----------------------------------------------------------------------------
(* The shape of the state, operation by operation *)

LEMMA RecordShapes ==
    ASSUME NEW c \in Callers, Shaped, Record(c) PROVE Shaped'
  <1>0. /\ live' \in Buffer /\ opened' \in 0..MaxBuffers /\ stopping' \in BOOLEAN
        /\ ThreadsShape'
        /\ into' = [into EXCEPT ![c] = live']
        /\ pc'[c] = "put"
        /\ \A t \in LogThread \ {c} :
            pc'[t] = pc[t] \/ (t \in Buffer /\ pc[t] = "none" /\ pc'[t] = "collect")
    BY LookUp DEF Record, CallStates, CallerState
  <1>q. QueuesShape'
    BY <1>0 DEF Shaped, QueuesShape, Record
  <1>t. ThreadsShape'
    BY <1>0
  <1>c. CallsShape'
    <2>1. recorded + 1 \in Event
      BY EventLogAssumption DEF Record, Shaped, CountsShape, Event, QueuesShape
    <2>2. /\ into' \in [Callers -> Buffer \cup {None}]
               /\ from' \in [Callers -> Buffer \cup {None}]
          /\ item' \in [Callers -> Item \cup {Nothing}]
      BY <1>0, <2>1, WhoIsWho DEF Record, NextEvent, Shaped, CallsShape
    <2>3. /\ into'[c] # None /\ from'[c] = from[c]
          /\ item'[c] = recorded + 1
      BY <1>0, <2>1, WhoIsWho DEF Record, NextEvent, Shaped, CallsShape
    <2>4. \A d \in Callers \ {c} : pc'[d] = pc[d] /\ into'[d] = into[d] /\ from'[d] = from[d]
              /\ item'[d] = item[d]
      BY <1>0, WhoIsWho DEF Record, Shaped, CallsShape
    <2> QED BY <1>0, <2>1, <2>2, <2>3, <2>4 DEF Shaped, CallsShape
  <1>b. BatchesShape'
    <2>1. pc[c] = "idle" /\ hand' = hand /\ woken' = woken /\ snap' = snap /\ claimed' = claimed
      BY DEF Record, batch
    <2>2. \A t \in LogThread : hand[t] # {} => pc'[t] \in {"collect", "flush"}
      BY <1>0, <2>1, WhoIsWho DEF Shaped, BatchesShape
    <2>3. \A t \in LogThread : claimed[t] # 0 => pc'[t] = "gap"
      BY <1>0, <2>1, WhoIsWho DEF Shaped, BatchesShape
    <2> QED BY <2>1, <2>2, <2>3 DEF Shaped, BatchesShape
  <1>n. CountsShape'
    <2>1. recorded + 1 \in 0..MaxEvents
      BY EventLogAssumption DEF Record, Shaped, CountsShape
    <2> QED BY <2>1 DEF Record, Shaped, CountsShape, queues, batch, health, ledger, marking,
                 bounds
  <1> QED BY <1>q, <1>t, <1>c, <1>b, <1>n DEF Shaped

LEMMA RecordWithoutThreadShapes ==
    ASSUME NEW c \in Callers, Shaped, RecordWithoutThread(c) PROVE Shaped'
  <1>q. QueuesShape'
    BY WhoIsWho, NothingInEmpty, AppendAdds, TailRemoves DEF Shaped, QueuesShape, CallsShape,
         RecordWithoutThread, CannotStart, Lost, NextEvent, call, queues, batch, health, ledger,
             marking, bounds
  <1>t. ThreadsShape'
    BY WhoIsWho DEF Shaped, ThreadsShape, QueuesShape, CallsShape, CallStates, WriteStates,
         CallerState, WriterState, Flushing, RecordWithoutThread, CannotStart, Lost, NextEvent,
             call, queues, batch, health, ledger, marking, bounds
  <1>c. CallsShape'
    BY WhoIsWho, TailRemoves DEF Shaped, ThreadsShape, QueuesShape, CallsShape,
         RecordWithoutThread, CannotStart, Lost, NextEvent, call, queues, batch, health, ledger,
             marking, bounds
  <1>b. BatchesShape'
    BY WhoIsWho, TailRemoves, EventsAreEvents DEF Shaped, ThreadsShape, QueuesShape,
         BatchesShape, CountsShape, RecordWithoutThread, CannotStart, Lost, NextEvent, call,
             queues, batch, health, ledger, marking, bounds
  <1>n. CountsShape'
    <2>1. recorded + 1 \in 0..MaxEvents /\ recorded + 1 \in Event
      BY EventLogAssumption DEF RecordWithoutThread, Shaped, CountsShape, Event
    <2>2. Cardinality({recorded + 1}) \in Nat
      BY <2>1, Counted
    <2> QED BY <2>1, <2>2 DEF Shaped, CountsShape, RecordWithoutThread, CannotStart, Lost,
                 NextEvent, call, queues, batch, health, ledger, marking, bounds
  <1> QED BY <1>q, <1>t, <1>c, <1>b, <1>n DEF Shaped

LEMMA PutShapes ==
    ASSUME NEW c \in Callers, Shaped, Put(c) PROVE Shaped'
  <1>q. QueuesShape'
    <2>1. into[c] \in Buffer /\ item[c] \in Item
      BY WhoIsWho DEF Put, Shaped, CallsShape
    <2>2. CASE Len(buf[into[c]]) < BufferSize
      <3>1. buf' = [buf EXCEPT ![into[c]] = Append(@, item[c])] /\ live' = live
                /\ opened' = opened /\ stopping' \in BOOLEAN
        BY <2>2 DEF Shaped, QueuesShape, Put, Lost, Becomes
      <3> QED BY <2>1, <2>2, <3>1, QueueGrows DEF Shaped, QueuesShape
    <2>3. CASE ~(Len(buf[into[c]]) < BufferSize)
      BY <2>3 DEF Shaped, QueuesShape, Put, Lost, Becomes
    <2> QED BY <2>2, <2>3
  <1>s. PICK state \in {"check", "idle"} : pc' = [pc EXCEPT ![c] = state]
    BY DEF Put, Lost, Becomes
  <1>t. ThreadsShape'
    BY <1>s, GoesOn, WhoIsWho DEF Put, Lost, Becomes, CallStates, WriteStates, CallerState,
         WriterState, Flushing, queues
  <1>c. CallsShape'
    BY WhoIsWho, TailRemoves DEF Shaped, ThreadsShape, QueuesShape, CallsShape, Put, Lost,
         Becomes, queues, batch, health, ledger, marking, bounds
  <1>b. BatchesShape'
    BY <1>s, WhoIsWho DEF Shaped, QueuesShape, ThreadsShape, CallsShape, BatchesShape,
         CountsShape, Put, Lost, Becomes, queues, batch, health, ledger, marking, bounds
  <1>n. CountsShape'
    <2>1. item[c] \in Event /\ Cardinality({item[c]}) \in Nat
      BY Counted DEF Put, Shaped, CallsShape
    <2> QED BY <2>1 DEF Shaped, CountsShape, Put, Lost, Becomes, queues, batch, health, ledger,
                 marking, bounds
  <1> QED BY <1>q, <1>t, <1>c, <1>b, <1>n DEF Shaped

LEMMA CheckShapes ==
    ASSUME NEW c \in Callers, Shaped, Check(c) PROVE Shaped'
  <1>q. QueuesShape'
    BY WhoIsWho, NothingInEmpty, AppendAdds, TailRemoves DEF Shaped, QueuesShape, CallsShape,
         Check, Orphan, Becomes, queues, batch, health, ledger, marking, bounds
  <1>s. PICK state \in {"rehome", "idle"} : pc' = [pc EXCEPT ![c] = state]
    BY DEF Check, Orphan, Becomes
  <1>t. ThreadsShape'
    BY <1>s, GoesOn, WhoIsWho DEF Check, Orphan, Becomes, CallStates, WriteStates, CallerState,
         WriterState, Flushing, queues
  <1>c. CallsShape'
    BY WhoIsWho, TailRemoves DEF Shaped, ThreadsShape, QueuesShape, CallsShape, Check, Orphan,
         Becomes, queues, batch, health, ledger, marking, bounds
  <1>b. BatchesShape'
    BY <1>s, WhoIsWho DEF Shaped, QueuesShape, ThreadsShape, CallsShape, BatchesShape,
         CountsShape, Check, Orphan, Becomes, queues, batch, health, ledger, marking, bounds
  <1>n. CountsShape'
    BY WhoIsWho, TailRemoves, EventsAreEvents DEF Shaped, QueuesShape, CallsShape, BatchesShape,
         CountsShape, Check, Orphan, Becomes, queues, batch, health, ledger, marking, bounds
  <1> QED BY <1>q, <1>t, <1>c, <1>b, <1>n DEF Shaped

LEMMA RehomeDoneShapes ==
    ASSUME NEW c \in Callers, Shaped, RehomeDone(c) PROVE Shaped'
  <1>q. QueuesShape'
    BY WhoIsWho, NothingInEmpty, AppendAdds, TailRemoves DEF Shaped, QueuesShape, CallsShape,
         RehomeDone, Becomes, queues, batch, health, ledger, marking, bounds
  <1>t. ThreadsShape'
    BY WhoIsWho DEF Shaped, ThreadsShape, QueuesShape, CallsShape, CallStates, WriteStates,
         CallerState, WriterState, Flushing, RehomeDone, Becomes, queues, batch, health, ledger,
             marking, bounds
  <1>c. CallsShape'
    BY WhoIsWho, TailRemoves DEF Shaped, ThreadsShape, QueuesShape, CallsShape, RehomeDone,
         Becomes, queues, batch, health, ledger, marking, bounds
  <1>b. BatchesShape'
    BY WhoIsWho, TailRemoves, EventsAreEvents DEF Shaped, ThreadsShape, QueuesShape,
         BatchesShape, CountsShape, RehomeDone, Becomes, queues, batch, health, ledger, marking,
             bounds
  <1>n. CountsShape'
    BY WhoIsWho, TailRemoves, EventsAreEvents DEF Shaped, QueuesShape, CallsShape, BatchesShape,
         CountsShape, RehomeDone, Becomes, queues, batch, health, ledger, marking, bounds
  <1> QED BY <1>q, <1>t, <1>c, <1>b, <1>n DEF Shaped

LEMMA RehomeTakeShapes ==
    ASSUME NEW c \in Callers, Shaped, RehomeTake(c) PROVE Shaped'
  <1>0. /\ live' \in Buffer /\ opened' \in 0..MaxBuffers /\ stopping' \in BOOLEAN
        /\ ThreadsShape'
        /\ into' = [into EXCEPT ![c] = live']
        /\ pc'[c] = "reput"
        /\ \A t \in LogThread \ {c} :
            pc'[t] = pc[t] \/ (t \in Buffer /\ pc[t] = "none" /\ pc'[t] = "collect")
    BY LookUp DEF RehomeTake, CallStates, CallerState
  <1>h. /\ from[c] \in Buffer /\ buf[from[c]] # <<>> /\ buf' = [buf EXCEPT ![from[c]] = Tail(@)]
        /\ buf[from[c]] \in Seq(Item)
    BY DEF RehomeTake, Shaped, CallsShape, QueuesShape
  <1>q. QueuesShape'
    BY <1>0, <1>h, QueueShrinks DEF Shaped, QueuesShape
  <1>t. ThreadsShape'
    BY <1>0
  <1>c. CallsShape'
    <2>1. Head(buf[from[c]]) \in Item /\ from[c] # None
      BY <1>h, WhoIsWho, TailRemoves DEF RehomeTake, Shaped, CountsShape, Event, QueuesShape
    <2>2. /\ into' \in [Callers -> Buffer \cup {None}]
               /\ from' \in [Callers -> Buffer \cup {None}]
          /\ item' \in [Callers -> Item \cup {Nothing}]
      BY <1>0, <2>1, WhoIsWho DEF RehomeTake, NextEvent, Shaped, CallsShape
    <2>3. /\ into'[c] # None /\ from'[c] = from[c]
          /\ item'[c] = Head(buf[from[c]])
      BY <1>0, <2>1, WhoIsWho DEF RehomeTake, NextEvent, Shaped, CallsShape
    <2>4. \A d \in Callers \ {c} : pc'[d] = pc[d] /\ into'[d] = into[d] /\ from'[d] = from[d]
              /\ item'[d] = item[d]
      BY <1>0, WhoIsWho DEF RehomeTake, Shaped, CallsShape
    <2> QED BY <1>0, <2>1, <2>2, <2>3, <2>4 DEF Shaped, CallsShape
  <1>b. BatchesShape'
    <2>1. pc[c] = "rehome" /\ hand' = hand /\ woken' = woken /\ snap' = snap /\ claimed' = claimed
      BY DEF RehomeTake, batch
    <2>2. \A t \in LogThread : hand[t] # {} => pc'[t] \in {"collect", "flush"}
      BY <1>0, <2>1, WhoIsWho DEF Shaped, BatchesShape
    <2>3. \A t \in LogThread : claimed[t] # 0 => pc'[t] = "gap"
      BY <1>0, <2>1, WhoIsWho DEF Shaped, BatchesShape
    <2> QED BY <2>1, <2>2, <2>3 DEF Shaped, BatchesShape
  <1>n. CountsShape'
    BY WhoIsWho, TailRemoves, EventsAreEvents DEF Shaped, QueuesShape, CallsShape, BatchesShape,
         CountsShape, RehomeTake, LooksUp, Becomes, queues, batch, health, ledger, marking, bounds
  <1> QED BY <1>q, <1>t, <1>c, <1>b, <1>n DEF Shaped

LEMMA RehomeWithoutThreadShapes ==
    ASSUME NEW c \in Callers, Shaped, RehomeWithoutThread(c) PROVE Shaped'
  <1>h. from[c] \in Buffer /\ buf[from[c]] # <<>>
    BY DEF RehomeWithoutThread, Shaped, CallsShape
  <1>q. QueuesShape'
    BY <1>h, QueueShrinks DEF Shaped, QueuesShape, RehomeWithoutThread, CannotStart, Becomes
  <1>t. ThreadsShape'
    BY WhoIsWho DEF Shaped, ThreadsShape, QueuesShape, CallsShape, CallStates, WriteStates,
         CallerState, WriterState, Flushing, RehomeWithoutThread, CannotStart, Becomes, queues,
             batch, health, ledger, marking, bounds
  <1>c. CallsShape'
    BY WhoIsWho, TailRemoves DEF Shaped, ThreadsShape, QueuesShape, CallsShape,
         RehomeWithoutThread, CannotStart, Becomes, queues, batch, health, ledger, marking, bounds
  <1>b. BatchesShape'
    BY WhoIsWho, TailRemoves, EventsAreEvents DEF Shaped, ThreadsShape, QueuesShape,
         BatchesShape, CountsShape, RehomeWithoutThread, CannotStart, Becomes, queues, batch,
             health, ledger, marking, bounds
  <1>n. CountsShape'
    <2>1. /\ Head(buf[from[c]]) \in Item /\ Events(Tail(buf[from[c]])) \subseteq Event
      BY <1>h, TailRemoves, EventsAreEvents DEF Shaped, QueuesShape
    <2>2. Head(buf[from[c]]) # Wake => Head(buf[from[c]]) \in Event
      BY <2>1, WhoIsWho
    <2> QED BY <2>1, <2>2 DEF Shaped, CountsShape, RehomeWithoutThread, CannotStart, Becomes,
                 queues, batch, health, ledger, marking, bounds
  <1> QED BY <1>q, <1>t, <1>c, <1>b, <1>n DEF Shaped

LEMMA RehomePutShapes ==
    ASSUME NEW c \in Callers, Shaped, RehomePut(c) PROVE Shaped'
  <1>q. QueuesShape'
    <2>1. into[c] \in Buffer /\ item[c] \in Item
      BY WhoIsWho DEF RehomePut, Shaped, CallsShape
    <2>2. CASE Len(buf[into[c]]) < BufferSize
      <3>1. buf' = [buf EXCEPT ![into[c]] = Append(@, item[c])] /\ live' = live
                /\ opened' = opened /\ stopping' \in BOOLEAN
        BY <2>2 DEF Shaped, QueuesShape, RehomePut, Becomes, Lost
      <3> QED BY <2>1, <2>2, <3>1, QueueGrows DEF Shaped, QueuesShape
    <2>3. CASE ~(Len(buf[into[c]]) < BufferSize)
      BY <2>3 DEF Shaped, QueuesShape, RehomePut, Becomes, Lost
    <2> QED BY <2>2, <2>3
  <1>t. ThreadsShape'
    BY WhoIsWho DEF Shaped, ThreadsShape, QueuesShape, CallsShape, CallStates, WriteStates,
         CallerState, WriterState, Flushing, RehomePut, Becomes, Lost, queues, batch, health,
             ledger, marking, bounds
  <1>c. CallsShape'
    BY WhoIsWho, TailRemoves DEF Shaped, ThreadsShape, QueuesShape, CallsShape, RehomePut,
         Becomes, Lost, queues, batch, health, ledger, marking, bounds
  <1>b. BatchesShape'
    BY WhoIsWho, TailRemoves, EventsAreEvents DEF Shaped, ThreadsShape, QueuesShape,
         BatchesShape, CountsShape, RehomePut, Becomes, Lost, queues, batch, health, ledger,
             marking, bounds
  <1>n. CountsShape'
    <2>1. item[c] \in Item /\ {item[c]} \ {Wake} \subseteq Event
      BY WhoIsWho DEF RehomePut, Shaped, CallsShape
    <2>2. Cardinality({item[c]} \ {Wake}) \in Nat /\ Events(<<item[c]>>) = {item[c]} \ {Wake}
      BY <2>1, Counted, OneInOne
    <2> QED BY <2>1, <2>2 DEF Shaped, CountsShape, RehomePut, Becomes, Lost, queues, batch,
                 health, ledger, marking, bounds
  <1> QED BY <1>q, <1>t, <1>c, <1>b, <1>n DEF Shaped

LEMMA RecordHereShapes ==
    ASSUME NEW c \in Callers, Shaped, RecordHere(c) PROVE Shaped'
  <1>q. QueuesShape'
    BY WhoIsWho, NothingInEmpty, AppendAdds, TailRemoves DEF Shaped, QueuesShape, CallsShape,
         RecordHere, Delivers, Lost, NextEvent, call, queues, batch, health, ledger, marking,
             bounds
  <1>t. ThreadsShape'
    BY WhoIsWho DEF Shaped, ThreadsShape, QueuesShape, CallsShape, CallStates, WriteStates,
         CallerState, WriterState, Flushing, RecordHere, Delivers, Lost, NextEvent, call,
             queues, batch, health, ledger, marking, bounds
  <1>c. CallsShape'
    BY WhoIsWho, TailRemoves DEF Shaped, ThreadsShape, QueuesShape, CallsShape, RecordHere,
         Delivers, Lost, NextEvent, call, queues, batch, health, ledger, marking, bounds
  <1>b. BatchesShape'
    BY WhoIsWho, TailRemoves, EventsAreEvents DEF Shaped, ThreadsShape, QueuesShape,
         BatchesShape, CountsShape, RecordHere, Delivers, Lost, NextEvent, call, queues, batch,
             health, ledger, marking, bounds
  <1>n. CountsShape'
    <2>1. recorded + 1 \in 0..MaxEvents /\ {recorded + 1} \in SUBSET Event
      BY EventLogAssumption DEF RecordHere, Shaped, CountsShape, Event
    <2>5. PICK E \in SUBSET Event : E = {recorded + 1}
      BY <2>1
    <2>2. PICK inBlock \in BOOLEAN : \E result \in Outcome(E, inBlock) :
             Delivers(E, result) /\ Lost(result.out)
      BY <2>5 DEF RecordHere, NextEvent
    <2>3. PICK result \in Outcome(E, inBlock) :
             Delivers(E, result) /\ Lost(result.out)
      BY <2>2
    <2>4. result.landed \subseteq Event /\ result.out \subseteq Event
              /\ Cardinality(result.out) \in Nat
      BY <2>3, OutcomeSplits, Counted
    <2> QED BY <2>1, <2>3, <2>4 DEF Shaped, CountsShape, RecordHere, Delivers, Lost, queues,
                 batch, health, ledger, marking, bounds
  <1> QED BY <1>q, <1>t, <1>c, <1>b, <1>n DEF Shaped

(* A flush claims drops only of a write that did not raise. *)
LEMMA FlushClaims ==
    ASSUME Shaped, NEW t \in LogThread, NEW result, Cardinality(result.out) \in Nat
    PROVE  /\ Claim(t, result) \in Nat
           /\ Claim(t, result) <= dropped + Cardinality(result.out)
  <1>1. snap[t] \in Nat /\ dropped + Cardinality(result.out) \in Nat
    BY DEF Shaped, BatchesShape, CountsShape
  <1> QED BY <1>1 DEF Claim, Claimable, Least

(* A flush keeps the count of failures under its limit. *)
LEMMA FlushHealth ==
    ASSUME Shaped, NEW t \in LogThread, NEW result, result.raised \in BOOLEAN, Counts(t, result)
    PROVE  failures' \in [Buffer -> 0..FailureLimit] /\ blocked' \in [Buffer -> BOOLEAN]
  <1> DEFINE again == Again(t, result)
  <1>1. /\ failures' = [failures EXCEPT ![t] = IF again THEN failures[t] + 1 ELSE 0]
        /\ blocked' = [blocked EXCEPT ![t] = result.raised /\ ~again]
    BY DEF Counts
  <1>2. FailureLimit \in Nat \ {0} /\ failures \in [Buffer -> 0..FailureLimit]
            /\ blocked \in [Buffer -> BOOLEAN]
    BY EventLogAssumption DEF Shaped, CountsShape
  <1>3. (IF again THEN failures[t] + 1 ELSE 0) \in 0..FailureLimit
    <2>1. CASE again
      BY <1>2, <2>1 DEF Again
    <2> QED BY <1>2, <2>1
  <1>4. (result.raised /\ ~again) \in BOOLEAN
    OBVIOUS
  <1> HIDE DEF again
  <1> QED BY <1>1, <1>2, <1>3, <1>4, Zenon

LEMMA FlushesShapes ==
    ASSUME NEW t \in LogThread, Shaped, Flushes(t) PROVE Shaped'
  <1>0. PICK left \in SUBSET Event : \E result \in Outcome(hand[t] \cup left, FALSE) :
            /\ NoStop(t, left) \/ (t \in Buffer /\ InnerStop(t, left))
            /\ Delivers(hand[t] \cup left, result) /\ Counts(t, result)
    BY DEF Flushes
  <1>1. PICK result \in Outcome(hand[t] \cup left, FALSE) :
            /\ NoStop(t, left) \/ (t \in Buffer /\ InnerStop(t, left))
            /\ Delivers(hand[t] \cup left, result) /\ Counts(t, result)
    BY <1>0
  <1>2. hand[t] \subseteq Event /\ hand[t] \cup left \subseteq Event
    BY DEF Shaped, BatchesShape
  <1>3. /\ result.landed \subseteq Event /\ result.out \subseteq Event
             /\ Cardinality(result.out) \in Nat
        /\ result.raised \in BOOLEAN
    BY <1>2, OutcomeSplits, Counted
  <1>4. PICK claim \in Nat : /\ claim <= dropped + Cardinality(result.out)
                             /\ dropped' = dropped + Cardinality(result.out) - claim
                             /\ claimed' = [claimed EXCEPT ![t] = claim]
                             /\ pc' = [pc EXCEPT ![t] = IF claim = 0 THEN "ack" ELSE "gap"]
    BY <1>1, <1>3, FlushClaims DEF Counts, Becomes
  <1>5. /\ pc[t] = "flush" /\ hand' = [hand EXCEPT ![t] = {}]
             /\ conns' = conns \cup ({t} \cap Buffer)
        /\ opened' = opened /\ into' = into /\ from' = from /\ item' = item /\ woken' = woken
             /\ snap' = snap
        /\ gaps' = gaps /\ phantom' = phantom /\ recorded' = recorded /\ adrift' = adrift
    BY DEF Flushes, call
  <1>q. QueuesShape'
    BY <1>1, <1>5, QueueEmpties, WhoIsWho DEF Shaped, QueuesShape, NoStop, InnerStop
  <1>6. live' \in {live, None}
    BY <1>1 DEF NoStop, InnerStop
  <1>t. ThreadsShape'
    <2> DEFINE state == IF claim = 0 THEN "ack" ELSE "gap"
    <2>1. state \in CallStates /\ state \in WriteStates \ {"none", "done"}
      BY DEF CallStates, WriteStates, WriterState, Flushing
    <2> HIDE DEF state
    <2>2. pc' = [pc EXCEPT ![t] = state]
      BY <1>4 DEF state
    <2> QED BY <1>5, <1>6, <2>1, <2>2, GoesOn
  <1>c. CallsShape'
    <2>1. \A d \in Callers : pc'[d] = pc[d] \/ (pc[d] = "flush" /\ pc'[d] \in {"ack", "gap"})
      BY <1>4, <1>5, WhoIsWho DEF Shaped, ThreadsShape
    <2> QED BY <1>5, <2>1 DEF Shaped, CallsShape
  <1>b. BatchesShape'
    <2>1. \A d \in LogThread : d # t => pc'[d] = pc[d] /\ hand'[d] = hand[d]
              /\ claimed'[d] = claimed[d]
      BY <1>4, <1>5 DEF Shaped, ThreadsShape, BatchesShape
    <2>2. hand'[t] = {} /\ claimed'[t] = claim /\ (claim # 0 => pc'[t] = "gap")
      BY <1>4, <1>5 DEF Shaped, ThreadsShape, BatchesShape
    <2>3. hand' \in [LogThread -> SUBSET Event] /\ claimed' \in [LogThread -> Nat]
      BY <1>4, <1>5 DEF Shaped, BatchesShape
    <2> QED BY <1>5, <2>1, <2>2, <2>3 DEF Shaped, BatchesShape
  <1>n. CountsShape'
    <2>1. dropped' \in Nat
      BY <1>3, <1>4 DEF Shaped, CountsShape
    <2>2. rows' \subseteq Event /\ lost' \subseteq Event
      BY <1>1, <1>3 DEF Counts, Delivers, Shaped, CountsShape
    <2>3. failures' \in [Buffer -> 0..FailureLimit] /\ blocked' \in [Buffer -> BOOLEAN]
      BY <1>1, <1>3, FlushHealth
    <2>4. marks' \subseteq LogThread /\ conns' \subseteq Buffer
      BY <1>1, <1>5, WhoIsWho DEF NoStop, InnerStop, StopMarks, Shaped, CountsShape
    <2> QED BY <1>5, <2>1, <2>2, <2>3, <2>4 DEF Shaped, CountsShape
  <1> QED BY <1>q, <1>t, <1>c, <1>b, <1>n DEF Shaped

LEMMA GapShapes ==
    ASSUME NEW t \in LogThread, NEW lands \in BOOLEAN, Shaped, Gap(t, lands) PROVE Shaped'
  <1>q. QueuesShape'
    BY WhoIsWho, NothingInEmpty, AppendAdds, TailRemoves DEF Shaped, QueuesShape, CallsShape,
         Gap, Becomes, call, queues, batch, health, ledger, marking, bounds
  <1>t. ThreadsShape'
    BY WhoIsWho DEF Shaped, ThreadsShape, QueuesShape, CallsShape, CallStates, WriteStates,
         CallerState, WriterState, Flushing, Gap, Becomes, call, queues, batch, health, ledger,
             marking, bounds
  <1>c. CallsShape'
    BY WhoIsWho, TailRemoves DEF Shaped, ThreadsShape, QueuesShape, CallsShape, Gap, Becomes,
         call, queues, batch, health, ledger, marking, bounds
  <1>b. BatchesShape'
    BY WhoIsWho, TailRemoves, EventsAreEvents DEF Shaped, ThreadsShape, QueuesShape,
         BatchesShape, CountsShape, Gap, Becomes, call, queues, batch, health, ledger, marking,
             bounds
  <1>n. CountsShape'
    <2>1. claimed[t] \in Nat /\ dropped \in Nat /\ gaps \in Nat
      BY DEF Shaped, BatchesShape, CountsShape
    <2>2. dropped' \in Nat /\ gaps' \in Nat
      BY <2>1 DEF Gap
    <2> QED BY <2>2 DEF Shaped, CountsShape, Gap, queues, batch, health, ledger, marking, bounds
  <1> QED BY <1>q, <1>t, <1>c, <1>b, <1>n DEF Shaped

LEMMA CollectShapes ==
    ASSUME NEW b \in Buffer, Shaped, Collect(b) PROVE Shaped'
  <1>q. QueuesShape'
    BY QueueShrinks DEF Shaped, QueuesShape, Collect
  <1>t. ThreadsShape'
    BY WhoIsWho DEF Shaped, ThreadsShape, QueuesShape, CallsShape, CallStates, WriteStates,
         CallerState, WriterState, Flushing, Collect, call, queues, batch, health, ledger,
             marking, bounds
  <1>c. CallsShape'
    BY WhoIsWho, TailRemoves DEF Shaped, ThreadsShape, QueuesShape, CallsShape, Collect, call,
         queues, batch, health, ledger, marking, bounds
  <1>b. BatchesShape'
    <2>1. {Head(buf[b])} \ {Wake} \subseteq Event
      BY TailRemoves, WhoIsWho DEF Shaped, QueuesShape, Collect
    <2> QED BY <2>1, WhoIsWho DEF Shaped, BatchesShape, Collect
  <1>n. CountsShape'
    BY WhoIsWho, TailRemoves, EventsAreEvents DEF Shaped, QueuesShape, CallsShape, BatchesShape,
         CountsShape, Collect, call, queues, batch, health, ledger, marking, bounds
  <1> QED BY <1>q, <1>t, <1>c, <1>b, <1>n DEF Shaped

LEMMA CollectedShapes ==
    ASSUME NEW b \in Buffer, Shaped, Collected(b) PROVE Shaped'
  <1>q. QueuesShape'
    BY WhoIsWho, NothingInEmpty, AppendAdds, TailRemoves DEF Shaped, QueuesShape, CallsShape,
         Collected, Lost, Becomes, call, queues, batch, health, ledger, marking, bounds
  <1>s. PICK state \in {"ack", "flush"} : pc' = [pc EXCEPT ![b] = state]
    BY DEF Collected, Lost, Becomes, call
  <1>t. ThreadsShape'
    BY <1>s, GoesOn, WhoIsWho DEF Collected, Lost, Becomes, call, CallStates, WriteStates,
         CallerState, WriterState, Flushing, queues
  <1>c. CallsShape'
    BY WhoIsWho, TailRemoves DEF Shaped, ThreadsShape, QueuesShape, CallsShape, Collected, Lost,
         Becomes, call, queues, batch, health, ledger, marking, bounds
  <1>b. BatchesShape'
    <2>0. b \in LogThread /\ dropped \in Nat /\ pc[b] = "collect" /\ woken' = woken
              /\ claimed' = claimed
      BY WhoIsWho DEF Shaped, CountsShape, Collected
    <2>1. CASE blocked[b] \/ hand[b] = {}
      BY <1>s, <2>0, <2>1 DEF Shaped, BatchesShape, ThreadsShape, Collected
    <2>2. CASE ~(blocked[b] \/ hand[b] = {})
      <3>1. hand' = hand /\ pc' = [pc EXCEPT ![b] = "flush"]
                /\ snap' = [snap EXCEPT ![b] = dropped]
        BY <2>2 DEF Collected, Becomes
      <3> QED BY <2>0, <3>1 DEF Shaped, BatchesShape, ThreadsShape
    <2> QED BY <2>1, <2>2
  <1>n. CountsShape'
    <2>1. hand[b] \subseteq Event /\ Cardinality(hand[b]) \in Nat
      BY WhoIsWho, Counted DEF Shaped, BatchesShape
    <2> QED BY <2>1 DEF Shaped, CountsShape, Collected, Lost, Becomes, call, queues, batch,
                 health, ledger, marking, bounds
  <1> QED BY <1>q, <1>t, <1>c, <1>b, <1>n DEF Shaped

LEMMA UnblockShapes ==
    ASSUME NEW b \in Buffer, Shaped, Unblock(b) PROVE Shaped'
  <1>q. QueuesShape'
    BY WhoIsWho, NothingInEmpty, AppendAdds, TailRemoves DEF Shaped, QueuesShape, CallsShape,
         Unblock, call, queues, batch, health, ledger, marking, bounds
  <1>t. ThreadsShape'
    BY WhoIsWho DEF Shaped, ThreadsShape, QueuesShape, CallsShape, CallStates, WriteStates,
         CallerState, WriterState, Flushing, Unblock, call, queues, batch, health, ledger,
             marking, bounds
  <1>c. CallsShape'
    BY WhoIsWho, TailRemoves DEF Shaped, ThreadsShape, QueuesShape, CallsShape, Unblock, call,
         queues, batch, health, ledger, marking, bounds
  <1>b. BatchesShape'
    BY WhoIsWho, TailRemoves, EventsAreEvents DEF Shaped, ThreadsShape, QueuesShape,
         BatchesShape, CountsShape, Unblock, call, queues, batch, health, ledger, marking, bounds
  <1>n. CountsShape'
    BY WhoIsWho, TailRemoves, EventsAreEvents DEF Shaped, QueuesShape, CallsShape, BatchesShape,
         CountsShape, Unblock, call, queues, batch, health, ledger, marking, bounds
  <1> QED BY <1>q, <1>t, <1>c, <1>b, <1>n DEF Shaped

LEMMA AckShapes ==
    ASSUME NEW b \in Buffer, Shaped, Ack(b) PROVE Shaped'
  <1>q. QueuesShape'
    BY WhoIsWho, NothingInEmpty, AppendAdds, TailRemoves DEF Shaped, QueuesShape, CallsShape,
         Ack, Leaves, Becomes, call, queues, batch, health, ledger, marking, bounds
  <1>t. ThreadsShape'
    BY WhoIsWho DEF Shaped, ThreadsShape, QueuesShape, CallsShape, CallStates, WriteStates,
         CallerState, WriterState, Flushing, Ack, Leaves, Becomes, call, queues, batch, health,
             ledger, marking, bounds
  <1>c. CallsShape'
    BY WhoIsWho, TailRemoves DEF Shaped, ThreadsShape, QueuesShape, CallsShape, Ack, Leaves,
         Becomes, call, queues, batch, health, ledger, marking, bounds
  <1>b. BatchesShape'
    BY WhoIsWho, TailRemoves, EventsAreEvents DEF Shaped, ThreadsShape, QueuesShape,
         BatchesShape, CountsShape, Ack, Leaves, Becomes, call, queues, batch, health, ledger,
             marking, bounds
  <1>n. CountsShape'
    BY WhoIsWho, TailRemoves, EventsAreEvents DEF Shaped, QueuesShape, CallsShape, BatchesShape,
         CountsShape, Ack, Leaves, Becomes, call, queues, batch, health, ledger, marking, bounds
  <1> QED BY <1>q, <1>t, <1>c, <1>b, <1>n DEF Shaped

LEMMA ExitShapes ==
    ASSUME NEW b \in Buffer, Shaped, Exit(b) PROVE Shaped'
  <1>q. QueuesShape'
    BY QueueEmpties, WhoIsWho DEF Shaped, QueuesShape, Exit, Abandons
  <1>t. ThreadsShape'
    BY WhoIsWho DEF Shaped, ThreadsShape, QueuesShape, CallsShape, CallStates, WriteStates,
         CallerState, WriterState, Flushing, Exit, Abandons, Releases, Delivers, Lost, Becomes,
             call, queues, batch, health, ledger, marking, bounds
  <1>c. CallsShape'
    BY WhoIsWho, TailRemoves DEF Shaped, ThreadsShape, QueuesShape, CallsShape, Exit, Abandons,
         Releases, Delivers, Lost, Becomes, call, queues, batch, health, ledger, marking, bounds
  <1>b. BatchesShape'
    BY WhoIsWho, TailRemoves, EventsAreEvents DEF Shaped, ThreadsShape, QueuesShape,
         BatchesShape, CountsShape, Exit, Abandons, Releases, Delivers, Lost, Becomes, call,
             queues, batch, health, ledger, marking, bounds
  <1>n. CountsShape'
    <2>1. b \in Buffer /\ Events(buf[b]) \subseteq Event
      BY EventsAreEvents DEF Exit, Shaped, CallsShape, QueuesShape
    <2>2. PICK result \in Outcome(Events(buf[b]), FALSE) :
             Delivers(Events(buf[b]), result) /\ Lost(result.out)
      BY DEF Exit, Abandons
    <2>3. result.landed \subseteq Event /\ result.out \subseteq Event
              /\ Cardinality(result.out) \in Nat
      BY <2>1, <2>2, OutcomeSplits, Counted
    <2> QED BY <2>1, <2>2, <2>3 DEF Shaped, CountsShape, Exit, Releases, Delivers, Lost, queues,
                 batch, health, ledger, marking, bounds
  <1> QED BY <1>q, <1>t, <1>c, <1>b, <1>n DEF Shaped

LEMMA StopShapes ==
    ASSUME NEW c \in Callers, Shaped, Stop(c) PROVE Shaped'
  <1>q. QueuesShape'
    BY WhoIsWho, NothingInEmpty, AppendAdds, TailRemoves DEF Shaped, QueuesShape, CallsShape,
         Stop, Becomes, queues, batch, health, ledger, marking, bounds
  <1>t. ThreadsShape'
    BY WhoIsWho DEF Shaped, ThreadsShape, QueuesShape, CallsShape, CallStates, WriteStates,
         CallerState, WriterState, Flushing, Stop, Becomes, queues, batch, health, ledger,
             marking, bounds
  <1>c. CallsShape'
    BY WhoIsWho, TailRemoves DEF Shaped, ThreadsShape, QueuesShape, CallsShape, Stop, Becomes,
         queues, batch, health, ledger, marking, bounds
  <1>b. BatchesShape'
    BY WhoIsWho, TailRemoves, EventsAreEvents DEF Shaped, ThreadsShape, QueuesShape,
         BatchesShape, CountsShape, Stop, Becomes, queues, batch, health, ledger, marking, bounds
  <1>n. CountsShape'
    BY WhoIsWho, TailRemoves, EventsAreEvents DEF Shaped, QueuesShape, CallsShape, BatchesShape,
         CountsShape, Stop, Becomes, queues, batch, health, ledger, marking, bounds
  <1> QED BY <1>q, <1>t, <1>c, <1>b, <1>n DEF Shaped

LEMMA StopWakesShapes ==
    ASSUME NEW c \in Callers, Shaped, StopWakes(c) PROVE Shaped'
  <1>q. QueuesShape'
    <2>1. into[c] \in Buffer /\ Wake \in Item
      BY WhoIsWho DEF StopWakes, Shaped, CallsShape
    <2>2. CASE Len(buf[into[c]]) < BufferSize
      <3>1. buf' = [buf EXCEPT ![into[c]] = Append(@, Wake)] /\ live' = live
                /\ opened' = opened /\ stopping' \in BOOLEAN
        BY <2>2 DEF Shaped, QueuesShape, StopWakes, Becomes, call
      <3> QED BY <2>1, <2>2, <3>1, QueueGrows DEF Shaped, QueuesShape
    <2>3. CASE ~(Len(buf[into[c]]) < BufferSize)
      BY <2>3 DEF Shaped, QueuesShape, StopWakes, Becomes, call
    <2> QED BY <2>2, <2>3
  <1>t. ThreadsShape'
    BY WhoIsWho DEF Shaped, ThreadsShape, QueuesShape, CallsShape, CallStates, WriteStates,
         CallerState, WriterState, Flushing, StopWakes, Becomes, call, queues, batch, health,
             ledger, marking, bounds
  <1>c. CallsShape'
    BY WhoIsWho, TailRemoves DEF Shaped, ThreadsShape, QueuesShape, CallsShape, StopWakes,
         Becomes, call, queues, batch, health, ledger, marking, bounds
  <1>b. BatchesShape'
    BY WhoIsWho, TailRemoves, EventsAreEvents DEF Shaped, ThreadsShape, QueuesShape,
         BatchesShape, CountsShape, StopWakes, Becomes, call, queues, batch, health, ledger,
             marking, bounds
  <1>n. CountsShape'
    BY WhoIsWho, TailRemoves, EventsAreEvents DEF Shaped, QueuesShape, CallsShape, BatchesShape,
         CountsShape, StopWakes, Becomes, call, queues, batch, health, ledger, marking, bounds
  <1> QED BY <1>q, <1>t, <1>c, <1>b, <1>n DEF Shaped

LEMMA StopJoinedShapes ==
    ASSUME NEW c \in Callers, Shaped, StopJoined(c) PROVE Shaped'
  <1>q. QueuesShape'
    BY WhoIsWho, NothingInEmpty, AppendAdds, TailRemoves DEF Shaped, QueuesShape, CallsShape,
         StopJoined, Abandons, Delivers, Lost, Becomes, queues, batch, health, ledger, marking,
             bounds
  <1>t. ThreadsShape'
    BY WhoIsWho DEF Shaped, ThreadsShape, QueuesShape, CallsShape, CallStates, WriteStates,
         CallerState, WriterState, Flushing, StopJoined, Abandons, Delivers, Lost, Becomes,
             queues, batch, health, ledger, marking, bounds
  <1>c. CallsShape'
    BY WhoIsWho, TailRemoves DEF Shaped, ThreadsShape, QueuesShape, CallsShape, StopJoined,
         Abandons, Delivers, Lost, Becomes, queues, batch, health, ledger, marking, bounds
  <1>b. BatchesShape'
    BY WhoIsWho, TailRemoves, EventsAreEvents DEF Shaped, ThreadsShape, QueuesShape,
         BatchesShape, CountsShape, StopJoined, Abandons, Delivers, Lost, Becomes, queues,
             batch, health, ledger, marking, bounds
  <1>n. CountsShape'
    <2>1. into[c] \in Buffer /\ Events(buf[into[c]]) \subseteq Event
      BY EventsAreEvents DEF StopJoined, Shaped, CallsShape, QueuesShape
    <2>2. PICK result \in Outcome(Events(buf[into[c]]), FALSE) :
             Delivers(Events(buf[into[c]]), result) /\ Lost(result.out)
      BY DEF StopJoined, Abandons
    <2>3. result.landed \subseteq Event /\ result.out \subseteq Event
              /\ Cardinality(result.out) \in Nat
      BY <2>1, <2>2, OutcomeSplits, Counted
    <2> QED BY <2>1, <2>2, <2>3 DEF Shaped, CountsShape, StopJoined, Releases, Delivers, Lost,
                 queues, batch, health, ledger, marking, bounds
  <1> QED BY <1>q, <1>t, <1>c, <1>b, <1>n DEF Shaped

LEMMA FlushLooksShapes ==
    ASSUME NEW c \in Callers, Shaped, FlushLooks(c) PROVE Shaped'
  <1>q. QueuesShape'
    BY WhoIsWho, NothingInEmpty, AppendAdds, TailRemoves DEF Shaped, QueuesShape, CallsShape,
         FlushLooks, Becomes, queues, batch, health, ledger, marking, bounds
  <1>t. ThreadsShape'
    BY WhoIsWho DEF Shaped, ThreadsShape, QueuesShape, CallsShape, CallStates, WriteStates,
         CallerState, WriterState, Flushing, FlushLooks, Becomes, queues, batch, health, ledger,
             marking, bounds
  <1>c. CallsShape'
    BY WhoIsWho, TailRemoves DEF Shaped, ThreadsShape, QueuesShape, CallsShape, FlushLooks,
         Becomes, queues, batch, health, ledger, marking, bounds
  <1>b. BatchesShape'
    BY WhoIsWho, TailRemoves, EventsAreEvents DEF Shaped, ThreadsShape, QueuesShape,
         BatchesShape, CountsShape, FlushLooks, Becomes, queues, batch, health, ledger, marking,
             bounds
  <1>n. CountsShape'
    BY WhoIsWho, TailRemoves, EventsAreEvents DEF Shaped, QueuesShape, CallsShape, BatchesShape,
         CountsShape, FlushLooks, Becomes, queues, batch, health, ledger, marking, bounds
  <1> QED BY <1>q, <1>t, <1>c, <1>b, <1>n DEF Shaped

LEMMA FlushPutsShapes ==
    ASSUME NEW c \in Callers, Shaped, FlushPuts(c) PROVE Shaped'
  <1>q. QueuesShape'
    <2>1. into[c] \in Buffer /\ Wake \in Item
      BY WhoIsWho DEF FlushPuts, Shaped, CallsShape
    <2>2. CASE Len(buf[into[c]]) < BufferSize
      <3>1. buf' = [buf EXCEPT ![into[c]] = Append(@, Wake)] /\ live' = live
                /\ opened' = opened /\ stopping' \in BOOLEAN
        BY <2>2 DEF Shaped, QueuesShape, FlushPuts, Becomes
      <3> QED BY <2>1, <2>2, <3>1, QueueGrows DEF Shaped, QueuesShape
    <2>3. CASE ~(Len(buf[into[c]]) < BufferSize)
      BY <2>3 DEF Shaped, QueuesShape, FlushPuts, Becomes
    <2> QED BY <2>2, <2>3
  <1>t. ThreadsShape'
    BY WhoIsWho DEF Shaped, ThreadsShape, QueuesShape, CallsShape, CallStates, WriteStates,
         CallerState, WriterState, Flushing, FlushPuts, Becomes, queues, batch, health, ledger,
             marking, bounds
  <1>c. CallsShape'
    BY WhoIsWho, TailRemoves DEF Shaped, ThreadsShape, QueuesShape, CallsShape, FlushPuts,
         Becomes, queues, batch, health, ledger, marking, bounds
  <1>b. BatchesShape'
    BY WhoIsWho, TailRemoves, EventsAreEvents DEF Shaped, ThreadsShape, QueuesShape,
         BatchesShape, CountsShape, FlushPuts, Becomes, queues, batch, health, ledger, marking,
             bounds
  <1>n. CountsShape'
    BY WhoIsWho, TailRemoves, EventsAreEvents DEF Shaped, QueuesShape, CallsShape, BatchesShape,
         CountsShape, FlushPuts, Becomes, queues, batch, health, ledger, marking, bounds
  <1> QED BY <1>q, <1>t, <1>c, <1>b, <1>n DEF Shaped

LEMMA DrainShapes ==
    ASSUME NEW c \in Callers, Shaped, Drain(c) PROVE Shaped'
  <1>q. QueuesShape'
    BY WhoIsWho, NothingInEmpty, AppendAdds, TailRemoves DEF Shaped, QueuesShape, CallsShape,
         Drain, Becomes, call, queues, batch, health, ledger, marking, bounds
  <1>t. ThreadsShape'
    BY WhoIsWho DEF Shaped, ThreadsShape, QueuesShape, CallsShape, CallStates, WriteStates,
         CallerState, WriterState, Flushing, Drain, Becomes, call, queues, batch, health,
             ledger, marking, bounds
  <1>c. CallsShape'
    BY WhoIsWho, TailRemoves DEF Shaped, ThreadsShape, QueuesShape, CallsShape, Drain, Becomes,
         call, queues, batch, health, ledger, marking, bounds
  <1>b. BatchesShape'
    BY WhoIsWho, TailRemoves, EventsAreEvents DEF Shaped, ThreadsShape, QueuesShape,
         BatchesShape, CountsShape, Drain, Becomes, call, queues, batch, health, ledger,
             marking, bounds
  <1>n. CountsShape'
    BY WhoIsWho, TailRemoves, EventsAreEvents DEF Shaped, QueuesShape, CallsShape, BatchesShape,
         CountsShape, Drain, Becomes, call, queues, batch, health, ledger, marking, bounds
  <1> QED BY <1>q, <1>t, <1>c, <1>b, <1>n DEF Shaped

LEMMA DrainedShapes ==
    ASSUME NEW c \in Callers, Shaped, Drained(c) PROVE Shaped'
  <1>q. QueuesShape'
    BY WhoIsWho, NothingInEmpty, AppendAdds, TailRemoves DEF Shaped, QueuesShape, CallsShape,
         Drained, Becomes, call, queues, batch, health, ledger, marking, bounds
  <1>t. ThreadsShape'
    BY WhoIsWho DEF Shaped, ThreadsShape, QueuesShape, CallsShape, CallStates, WriteStates,
         CallerState, WriterState, Flushing, Drained, Becomes, call, queues, batch, health,
             ledger, marking, bounds
  <1>c. CallsShape'
    BY WhoIsWho, TailRemoves DEF Shaped, ThreadsShape, QueuesShape, CallsShape, Drained,
         Becomes, call, queues, batch, health, ledger, marking, bounds
  <1>b. BatchesShape'
    BY WhoIsWho, TailRemoves, EventsAreEvents DEF Shaped, ThreadsShape, QueuesShape,
         BatchesShape, CountsShape, Drained, Becomes, call, queues, batch, health, ledger,
             marking, bounds
  <1>n. CountsShape'
    BY WhoIsWho, TailRemoves, EventsAreEvents DEF Shaped, QueuesShape, CallsShape, BatchesShape,
         CountsShape, Drained, Becomes, call, queues, batch, health, ledger, marking, bounds
  <1> QED BY <1>q, <1>t, <1>c, <1>b, <1>n DEF Shaped

-----------------------------------------------------------------------------
(* Every event is in one place *)

InQueues == [b \in Buffer |-> Events(buf[b])]
Putting(c) == {item[c]} \ {Wake, Nothing}
InHands == [t \in LogThread |-> hand[t] \cup (IF t \in Callers THEN Putting(t) ELSE {})]
Gone == lost \cup rows

(* The events recorded so far, 1..n, are divided among the queues Q, the   *)
(* hands H and what is gone.                                               *)
Parts(Q, H, g, n) ==
    /\ \A b, d \in Buffer : b # d => Q[b] \cap Q[d] = {}
    /\ \A t, u \in LogThread : t # u => H[t] \cap H[u] = {}
    /\ \A b \in Buffer : \A t \in LogThread : Q[b] \cap H[t] = {}
    /\ \A b \in Buffer : Q[b] \cap g = {}
    /\ \A t \in LogThread : H[t] \cap g = {}
    /\ (\A b \in Buffer : Q[b] \subseteq 1..n) /\ (\A t \in LogThread : H[t] \subseteq 1..n)
         /\ g \subseteq 1..n
    /\ \A e \in 1..n : (\E b \in Buffer : e \in Q[b]) \/ (\E t \in LogThread : e \in H[t])
         \/ e \in g

Placed ==
    /\ Parts(InQueues, InHands, Gone, recorded)
    /\ \A b \in Buffer : NoneTwice(buf[b])

(* An event just numbered is nowhere yet. *)
LEMMA NewBorn ==
    ASSUME NEW Q, NEW H, NEW g, NEW n \in Nat, Parts(Q, H, g, n)
    PROVE  /\ \A b \in Buffer : Q[b] \ {n + 1} = Q[b]
           /\ \A t \in LogThread : H[t] \ {n + 1} = H[t]
           /\ g \ {n + 1} = g /\ 1..(n + 1) = (1..n) \cup {n + 1}
  <1>1. n + 1 \notin 1..n /\ 1..(n + 1) = (1..n) \cup {n + 1}
    OBVIOUS
  <1> QED BY <1>1 DEF Parts

(* What is in one hand is nowhere else. *)
LEMMA FromHand ==
    ASSUME Placed, NEW t \in LogThread, NEW X \in SUBSET InHands[t]
    PROVE  /\ \A b \in Buffer : InQueues[b] \ X = InQueues[b]
           /\ \A u \in LogThread : u # t => InHands[u] \ X = InHands[u]
           /\ Gone \ X = Gone /\ 1..recorded = (1..recorded) \cup X
  <1>1. PICK Q, H, g, n : Q = InQueues /\ H = InHands /\ g = Gone /\ n = recorded
    OBVIOUS
  <1>2. Parts(Q, H, g, n) /\ X \in SUBSET H[t]
    BY <1>1 DEF Placed
  <1>3. /\ \A b \in Buffer : Q[b] \ X = Q[b]
        /\ \A u \in LogThread : u # t => H[u] \ X = H[u]
        /\ g \ X = g /\ 1..n = (1..n) \cup X
    BY <1>2 DEF Parts
  <1> QED BY <1>1, <1>3

(* What is in one queue is nowhere else. *)
LEMMA FromQueue ==
    ASSUME Placed, NEW d \in Buffer, NEW X \in SUBSET Events(buf[d])
    PROVE  /\ \A t \in LogThread : InHands[t] \ X = InHands[t]
           /\ \A b \in Buffer : b # d => InQueues[b] \ X = InQueues[b]
           /\ Gone \ X = Gone /\ 1..recorded = (1..recorded) \cup X
           /\ InQueues[d] = Events(buf[d])
  <1>0. InQueues[d] = Events(buf[d])
    BY DEF InQueues
  <1>1. PICK Q, H, g, n : Q = InQueues /\ H = InHands /\ g = Gone /\ n = recorded
    OBVIOUS
  <1>2. Parts(Q, H, g, n) /\ X \in SUBSET Q[d]
    BY <1>0, <1>1 DEF Placed
  <1>3. /\ \A t \in LogThread : H[t] \ X = H[t]
        /\ \A b \in Buffer : b # d => Q[b] \ X = Q[b]
        /\ g \ X = g /\ 1..n = (1..n) \cup X
    BY <1>2 DEF Parts
  <1> QED BY <1>0, <1>1, <1>3

(* What arrives in one place, from another or newly recorded, has left     *)
(* every other.                                                            *)
LEMMA ToQueue ==
    ASSUME Placed, NEW to \in Buffer, NEW X, 1..recorded' = (1..recorded) \cup X,
           InQueues'[to] = InQueues[to] \cup X,
           \A d \in Buffer : d # to => InQueues'[d] = InQueues[d] \ X,
           \A t \in LogThread : InHands'[t] = InHands[t] \ X,
           Gone' = Gone \ X, \A d \in Buffer : NoneTwice(buf'[d])
    PROVE  Placed'
  <1>1. PICK Q, H, g, n : Q = InQueues /\ H = InHands /\ g = Gone /\ n = recorded
    OBVIOUS
  <1>2. PICK K, I, h, m : K = InQueues' /\ I = InHands' /\ h = Gone' /\ m = recorded'
    OBVIOUS
  <1>3. Parts(Q, H, g, n)
    BY <1>1 DEF Placed
  <1>5. /\ K[to] = Q[to] \cup X /\ \A d \in Buffer : d # to => K[d] = Q[d] \ X
        /\ \A t \in LogThread : I[t] = H[t] \ X
        /\ h = g \ X
    BY <1>1, <1>2
  <1>6. 1..m = (1..n) \cup X
    BY <1>1, <1>2
  <1>4. Parts(K, I, h, m)
    <2>1. \A b, d \in Buffer : b # d => K[b] \cap K[d] = {}
      BY <1>3, <1>5, <1>6 DEF Parts
    <2>2. \A t, u \in LogThread : t # u => I[t] \cap I[u] = {}
      BY <1>3, <1>5, <1>6 DEF Parts
    <2>3. \A b \in Buffer : \A t \in LogThread : K[b] \cap I[t] = {}
      BY <1>3, <1>5, <1>6 DEF Parts
    <2>4. \A b \in Buffer : K[b] \cap h = {}
      BY <1>3, <1>5, <1>6 DEF Parts
    <2>5. \A t \in LogThread : I[t] \cap h = {}
      BY <1>3, <1>5, <1>6 DEF Parts
    <2>6. (\A b \in Buffer : K[b] \subseteq 1..m)
              /\ (\A t \in LogThread : I[t] \subseteq 1..m) /\ h \subseteq 1..m
      <3>1. \A b \in Buffer : K[b] \subseteq Q[b] \cup X
        BY <1>5
      <3>2. \A t \in LogThread : I[t] \subseteq H[t] \cup X
        BY <1>5
      <3>3. h \subseteq g \cup X
        BY <1>5
      <3>4. PICK N : N = 1..n
        OBVIOUS
      <3>5. PICK M : M = 1..m
        OBVIOUS
      <3>6. M = N \cup X
        BY <1>6, <3>4, <3>5
      <3>7. (\A b \in Buffer : Q[b] \subseteq N) /\ (\A t \in LogThread : H[t] \subseteq N)
                /\ g \subseteq N
        BY <1>3, <3>4 DEF Parts
      <3>8. \A b \in Buffer : K[b] \subseteq M
        BY <3>1, <3>6, <3>7
      <3>9. \A t \in LogThread : I[t] \subseteq M
        BY <3>2, <3>6, <3>7
      <3>a. h \subseteq M
        BY <3>3, <3>6, <3>7
      <3> QED BY <3>5, <3>8, <3>9, <3>a
    <2>7. ASSUME NEW e \in 1..m
          PROVE  (\E b \in Buffer : e \in K[b]) \/ (\E t \in LogThread : e \in I[t]) \/ e \in h
      <3>1. CASE e \in X
        BY <1>5, <3>1
      <3>2. CASE e \notin X
        <4>1. e \in 1..n
          BY <1>6, <3>2
        <4>2. CASE \E b \in Buffer : e \in Q[b]
          BY <1>5, <3>2, <4>2
        <4>3. CASE \E t \in LogThread : e \in H[t]
          BY <1>5, <3>2, <4>3
        <4>4. CASE e \in g
          BY <1>5, <3>2, <4>4
        <4> QED BY <4>1, <4>2, <4>3, <4>4, <1>3 DEF Parts
      <3> QED BY <3>1, <3>2
    <2> QED BY <2>1, <2>2, <2>3, <2>4, <2>5, <2>6, <2>7 DEF Parts
  <1> QED BY <1>2, <1>4 DEF Placed

(* The same of what arrives in a hand. *)
LEMMA ToHand ==
    ASSUME Placed, NEW to \in LogThread, NEW X, 1..recorded' = (1..recorded) \cup X,
           InHands'[to] = InHands[to] \cup X,
           \A u \in LogThread : u # to => InHands'[u] = InHands[u] \ X,
           \A b \in Buffer : InQueues'[b] = InQueues[b] \ X,
           Gone' = Gone \ X, \A d \in Buffer : NoneTwice(buf'[d])
    PROVE  Placed'
  <1>1. PICK Q, H, g, n : Q = InQueues /\ H = InHands /\ g = Gone /\ n = recorded
    OBVIOUS
  <1>2. PICK K, I, h, m : K = InQueues' /\ I = InHands' /\ h = Gone' /\ m = recorded'
    OBVIOUS
  <1>3. Parts(Q, H, g, n)
    BY <1>1 DEF Placed
  <1>5. /\ I[to] = H[to] \cup X /\ \A u \in LogThread : u # to => I[u] = H[u] \ X
        /\ \A b \in Buffer : K[b] = Q[b] \ X
        /\ h = g \ X
    BY <1>1, <1>2
  <1>6. 1..m = (1..n) \cup X
    BY <1>1, <1>2
  <1>4. Parts(K, I, h, m)
    <2>1. \A b, d \in Buffer : b # d => K[b] \cap K[d] = {}
      BY <1>3, <1>5, <1>6 DEF Parts
    <2>2. \A t, u \in LogThread : t # u => I[t] \cap I[u] = {}
      BY <1>3, <1>5, <1>6 DEF Parts
    <2>3. \A b \in Buffer : \A t \in LogThread : K[b] \cap I[t] = {}
      BY <1>3, <1>5, <1>6 DEF Parts
    <2>4. \A b \in Buffer : K[b] \cap h = {}
      BY <1>3, <1>5, <1>6 DEF Parts
    <2>5. \A t \in LogThread : I[t] \cap h = {}
      BY <1>3, <1>5, <1>6 DEF Parts
    <2>6. (\A b \in Buffer : K[b] \subseteq 1..m)
              /\ (\A t \in LogThread : I[t] \subseteq 1..m) /\ h \subseteq 1..m
      <3>1. \A b \in Buffer : K[b] \subseteq Q[b] \cup X
        BY <1>5
      <3>2. \A t \in LogThread : I[t] \subseteq H[t] \cup X
        BY <1>5
      <3>3. h \subseteq g \cup X
        BY <1>5
      <3>4. PICK N : N = 1..n
        OBVIOUS
      <3>5. PICK M : M = 1..m
        OBVIOUS
      <3>6. M = N \cup X
        BY <1>6, <3>4, <3>5
      <3>7. (\A b \in Buffer : Q[b] \subseteq N) /\ (\A t \in LogThread : H[t] \subseteq N)
                /\ g \subseteq N
        BY <1>3, <3>4 DEF Parts
      <3>8. \A b \in Buffer : K[b] \subseteq M
        BY <3>1, <3>6, <3>7
      <3>9. \A t \in LogThread : I[t] \subseteq M
        BY <3>2, <3>6, <3>7
      <3>a. h \subseteq M
        BY <3>3, <3>6, <3>7
      <3> QED BY <3>5, <3>8, <3>9, <3>a
    <2>7. ASSUME NEW e \in 1..m
          PROVE  (\E b \in Buffer : e \in K[b]) \/ (\E t \in LogThread : e \in I[t]) \/ e \in h
      <3>1. CASE e \in X
        BY <1>5, <3>1
      <3>2. CASE e \notin X
        <4>1. e \in 1..n
          BY <1>6, <3>2
        <4>2. CASE \E b \in Buffer : e \in Q[b]
          BY <1>5, <3>2, <4>2
        <4>3. CASE \E t \in LogThread : e \in H[t]
          BY <1>5, <3>2, <4>3
        <4>4. CASE e \in g
          BY <1>5, <3>2, <4>4
        <4> QED BY <4>1, <4>2, <4>3, <4>4, <1>3 DEF Parts
      <3> QED BY <3>1, <3>2
    <2> QED BY <2>1, <2>2, <2>3, <2>4, <2>5, <2>6, <2>7 DEF Parts
  <1> QED BY <1>2, <1>4 DEF Placed

(* The same of what is written or counted as lost. *)
LEMMA ToGone ==
    ASSUME Placed, NEW X, 1..recorded' = (1..recorded) \cup X,
           \A t \in LogThread : InHands'[t] = InHands[t] \ X,
           \A b \in Buffer : InQueues'[b] = InQueues[b] \ X,
           Gone' = Gone \cup X, \A d \in Buffer : NoneTwice(buf'[d])
    PROVE  Placed'
  <1>1. PICK Q, H, g, n : Q = InQueues /\ H = InHands /\ g = Gone /\ n = recorded
    OBVIOUS
  <1>2. PICK K, I, h, m : K = InQueues' /\ I = InHands' /\ h = Gone' /\ m = recorded'
    OBVIOUS
  <1>3. Parts(Q, H, g, n)
    BY <1>1 DEF Placed
  <1>5. /\ h = g \cup X
        /\ \A b \in Buffer : K[b] = Q[b] \ X
        /\ \A t \in LogThread : I[t] = H[t] \ X
    BY <1>1, <1>2
  <1>6. 1..m = (1..n) \cup X
    BY <1>1, <1>2
  <1>4. Parts(K, I, h, m)
    <2>1. \A b, d \in Buffer : b # d => K[b] \cap K[d] = {}
      BY <1>3, <1>5, <1>6 DEF Parts
    <2>2. \A t, u \in LogThread : t # u => I[t] \cap I[u] = {}
      BY <1>3, <1>5, <1>6 DEF Parts
    <2>3. \A b \in Buffer : \A t \in LogThread : K[b] \cap I[t] = {}
      BY <1>3, <1>5, <1>6 DEF Parts
    <2>4. \A b \in Buffer : K[b] \cap h = {}
      BY <1>3, <1>5, <1>6 DEF Parts
    <2>5. \A t \in LogThread : I[t] \cap h = {}
      BY <1>3, <1>5, <1>6 DEF Parts
    <2>6. (\A b \in Buffer : K[b] \subseteq 1..m)
              /\ (\A t \in LogThread : I[t] \subseteq 1..m) /\ h \subseteq 1..m
      <3>1. \A b \in Buffer : K[b] \subseteq Q[b] \cup X
        BY <1>5
      <3>2. \A t \in LogThread : I[t] \subseteq H[t] \cup X
        BY <1>5
      <3>3. h \subseteq g \cup X
        BY <1>5
      <3>4. PICK N : N = 1..n
        OBVIOUS
      <3>5. PICK M : M = 1..m
        OBVIOUS
      <3>6. M = N \cup X
        BY <1>6, <3>4, <3>5
      <3>7. (\A b \in Buffer : Q[b] \subseteq N) /\ (\A t \in LogThread : H[t] \subseteq N)
                /\ g \subseteq N
        BY <1>3, <3>4 DEF Parts
      <3>8. \A b \in Buffer : K[b] \subseteq M
        BY <3>1, <3>6, <3>7
      <3>9. \A t \in LogThread : I[t] \subseteq M
        BY <3>2, <3>6, <3>7
      <3>a. h \subseteq M
        BY <3>3, <3>6, <3>7
      <3> QED BY <3>5, <3>8, <3>9, <3>a
    <2>7. ASSUME NEW e \in 1..m
          PROVE  (\E b \in Buffer : e \in K[b]) \/ (\E t \in LogThread : e \in I[t]) \/ e \in h
      <3>1. CASE e \in X
        BY <1>5, <3>1
      <3>2. CASE e \notin X
        <4>1. e \in 1..n
          BY <1>6, <3>2
        <4>2. CASE \E b \in Buffer : e \in Q[b]
          BY <1>5, <3>2, <4>2
        <4>3. CASE \E t \in LogThread : e \in H[t]
          BY <1>5, <3>2, <4>3
        <4>4. CASE e \in g
          BY <1>5, <3>2, <4>4
        <4> QED BY <4>1, <4>2, <4>3, <4>4, <1>3 DEF Parts
      <3> QED BY <3>1, <3>2
    <2> QED BY <2>1, <2>2, <2>3, <2>4, <2>5, <2>6, <2>7 DEF Parts
  <1> QED BY <1>2, <1>4 DEF Placed

(* A step that moves no event leaves each where it was. *)
LEMMA StillPlaced ==
    ASSUME Placed, hand' = hand, item' = item, Gone' = Gone, recorded' = recorded,
           \A b \in Buffer : Events(buf'[b]) = Events(buf[b]) /\ NoneTwice(buf'[b])
    PROVE  Placed'
  <1>1. InQueues' = InQueues
    BY DEF InQueues
  <1>2. InHands' = InHands
    BY DEF InHands, Putting
  <1> QED BY <1>1, <1>2 DEF Placed

(* An item put into a queue, taken from it, or all of them.                *)
LEMMA Appended ==
    ASSUME Shaped, Placed, NEW b \in Buffer, NEW x \in Item, x \notin Events(buf[b]),
           buf' = [buf EXCEPT ![b] = Append(@, x)]
    PROVE  /\ InQueues'[b] = InQueues[b] \cup ({x} \ {Wake})
           /\ \A d \in Buffer : d # b => InQueues'[d] = InQueues[d]
           /\ \A d \in Buffer : NoneTwice(buf'[d])
  <1>1. buf[b] \in Seq(Item) /\ buf \in [Buffer -> Seq(Item)]
    BY DEF Shaped, QueuesShape
  <1>2. buf'[b] = Append(buf[b], x) /\ \A d \in Buffer : d # b => buf'[d] = buf[d]
    BY <1>1
  <1>3. Events(buf'[b]) = Events(buf[b]) \cup ({x} \ {Wake}) /\ NoneTwice(buf'[b])
    BY <1>1, <1>2, AppendAdds DEF Placed
  <1> QED BY <1>2, <1>3 DEF InQueues, Placed

(* The head of a queue, out of it. *)
LEMMA HeadTaken ==
    ASSUME Shaped, Placed, NEW b \in Buffer, buf[b] # <<>>, buf' = [buf EXCEPT ![b] = Tail(@)]
    PROVE  /\ InQueues'[b] = InQueues[b] \ ({Head(buf[b])} \ {Wake})
           /\ {Head(buf[b])} \ {Wake} \subseteq Events(buf[b])
           /\ \A d \in Buffer : d # b => InQueues'[d] = InQueues[d]
           /\ \A d \in Buffer : NoneTwice(buf'[d])
           /\ Head(buf[b]) \in Item
  <1>1. buf[b] \in Seq(Item) /\ buf \in [Buffer -> Seq(Item)]
    BY DEF Shaped, QueuesShape
  <1>2. buf'[b] = Tail(buf[b]) /\ \A d \in Buffer : d # b => buf'[d] = buf[d]
    BY <1>1
  <1>3. /\ Events(buf[b]) = Events(buf'[b]) \cup ({Head(buf[b])} \ {Wake})
        /\ NoneTwice(buf'[b]) /\ Head(buf[b]) \notin Events(buf'[b]) /\ Head(buf[b]) \in Item
    BY <1>1, <1>2, TailRemoves DEF Placed
  <1> QED BY <1>2, <1>3 DEF InQueues, Placed

(* A queue that is drained at once. *)
LEMMA Emptied ==
    ASSUME Shaped, Placed, NEW b \in Buffer, buf' = [buf EXCEPT ![b] = <<>>]
    PROVE  /\ InQueues'[b] = InQueues[b] \ Events(buf[b]) /\ InQueues[b] = Events(buf[b])
           /\ \A d \in Buffer : d # b => InQueues'[d] = InQueues[d]
           /\ \A d \in Buffer : NoneTwice(buf'[d])
  <1>1. buf'[b] = <<>> /\ \A d \in Buffer : d # b => buf'[d] = buf[d]
    BY DEF Shaped, QueuesShape
  <1>2. Events(buf'[b]) = {} /\ NoneTwice(buf'[b])
    BY <1>1, NothingInEmpty
  <1> QED BY <1>1, <1>2 DEF InQueues, Placed

(* What the calling thread holds: nothing, or the event it is putting.     *)
LEMMA CallerHolds ==
    ASSUME Shaped, NEW c \in Callers
    PROVE  /\ c \in LogThread
           /\ pc[c] # "flush" => InHands[c] = Putting(c)
           /\ pc[c] \in {"put", "reput"} => Putting(c) = {item[c]} \ {Wake} /\ item[c] \in Item
           /\ pc[c] \notin {"put", "reput"} => Putting(c) = {}
  <1>1. c \in LogThread /\ pc[c] \in CallStates
    BY WhoIsWho DEF Shaped, ThreadsShape
  <1>2. pc[c] # "flush" => hand[c] = {}
    BY <1>1 DEF Shaped, BatchesShape, CallStates, CallerState, Flushing
  <1> QED BY <1>1, <1>2, WhoIsWho DEF InHands, Putting, Shaped, CallsShape

(* Hands that are not touched. *)
LEMMA HandsSame == ASSUME hand' = hand, item' = item PROVE InHands' = InHands
    BY DEF InHands, Putting

(* A caller that has put its event down holds nothing. *)
LEMMA PutDown ==
    ASSUME Shaped, NEW c \in Callers, pc[c] \in {"put", "reput"}, hand' = hand,
               item' = [item EXCEPT ![c] = Nothing]
    PROVE  /\ InHands[c] = {item[c]} \ {Wake} /\ InHands'[c] = {} /\ item[c] \in Item
           /\ \A u \in LogThread : u # c => InHands'[u] = InHands[u]
  <1>1. InHands[c] = {item[c]} \ {Wake} /\ c \in LogThread /\ hand[c] = {} /\ item[c] \in Item
    BY CallerHolds DEF Shaped, BatchesShape
  <1>2. item'[c] = Nothing /\ \A u \in Callers : u # c => item'[u] = item[u]
    BY DEF Shaped, CallsShape
  <1> QED BY <1>1, <1>2 DEF InHands, Putting

-----------------------------------------------------------------------------
(* One place, operation by operation *)

(* The put of record() and of _rehome(): into the queue, or counted as     *)
(* lost.                                                                   *)
LEMMA PutPlaces ==
    ASSUME NEW c \in Callers, Shaped, Placed, Put(c) \/ RehomePut(c) PROVE Placed'
  <1>0. PICK b \in Buffer : b = into[c]
    BY WhoIsWho DEF Put, RehomePut, Shaped, CallsShape
  <1>1. PICK x, X : x = item[c] /\ X = {x} \ {Wake}
    OBVIOUS
  <1>2. /\ item' = [item EXCEPT ![c] = Nothing] /\ hand' = hand /\ recorded' = recorded
             /\ rows' = rows
        /\ pc[c] \in {"put", "reput"}
    BY DEF Put, RehomePut, batch, bounds
  <1>3. /\ InHands[c] = X /\ InHands'[c] = {} /\ x \in Item /\ c \in LogThread
        /\ \A u \in LogThread : u # c => InHands'[u] = InHands[u]
    BY <1>1, <1>2, PutDown, WhoIsWho
  <1>4. /\ \A d \in Buffer : InQueues[d] \ X = InQueues[d]
        /\ \A u \in LogThread : u # c => InHands[u] \ X = InHands[u]
        /\ Gone \ X = Gone /\ 1..recorded = (1..recorded) \cup X
    <2>1. X \in SUBSET InHands[c] /\ c \in LogThread
      BY <1>3
    <2> QED BY <2>1, FromHand
  <1>5. \A u \in LogThread : InHands'[u] = InHands[u] \ X
    BY <1>3, <1>4
  <1>6. 1..recorded' = (1..recorded) \cup X
    BY <1>2, <1>4
  <1>7. CASE Len(buf[b]) < BufferSize
    <2>1. buf' = [buf EXCEPT ![b] = Append(@, x)] /\ lost' = lost
      BY <1>0, <1>1, <1>7 DEF Put, RehomePut
    <2>2. x \notin Events(buf[b])
      <3>1. Wake \notin Events(buf[b])
        BY DEF Events
      <3> QED BY <1>1, <1>4, <3>1 DEF InQueues
    <2>3. /\ InQueues'[b] = InQueues[b] \cup X
          /\ \A d \in Buffer : d # b => InQueues'[d] = InQueues[d]
          /\ \A d \in Buffer : NoneTwice(buf'[d])
      BY <1>1, <1>3, <2>1, <2>2, Appended
    <2>4. Gone' = Gone \ X /\ \A d \in Buffer : d # b => InQueues'[d] = InQueues[d] \ X
      BY <1>2, <1>4, <2>1, <2>3 DEF Gone
    <2> QED BY <1>5, <1>6, <2>3, <2>4, ToQueue
  <1>8. CASE ~(Len(buf[b]) < BufferSize)
    <2>1. buf' = buf /\ lost' = lost \cup X
      BY <1>0, <1>1, <1>2, <1>3, <1>8, WhoIsWho DEF Put, RehomePut, Lost, Shaped, CallsShape
    <2>2. (\A d \in Buffer : InQueues'[d] = InQueues[d] \ X) /\ Gone' = Gone \cup X
      BY <1>2, <1>4, <2>1 DEF InQueues, Gone
    <2>3. \A d \in Buffer : NoneTwice(buf'[d])
      BY <2>1 DEF Placed
    <2> QED BY <1>5, <1>6, <2>2, <2>3, ToGone
  <1> QED BY <1>7, <1>8

(* record() takes a new event into its hand, or loses it, or writes it     *)
(* where it stands.                                                        *)
LEMMA RecordPlaces ==
    ASSUME NEW c \in Callers, Shaped, Placed, Record(c) \/ RecordWithoutThread(c) \/ RecordHere(c)
    PROVE  Placed'
  <1>0. pc[c] = "idle" /\ recorded' = recorded + 1 /\ recorded \in Nat /\ recorded + 1 \in Event
    BY EventLogAssumption DEF Record, RecordWithoutThread, RecordHere, Shaped, CountsShape, Event
  <1>1. PICK X : X = {recorded + 1}
    OBVIOUS
  <1>2. /\ \A b \in Buffer : InQueues[b] \ X = InQueues[b]
        /\ \A t \in LogThread : InHands[t] \ X = InHands[t]
        /\ Gone \ X = Gone
        /\ 1..recorded' = (1..recorded) \cup X
    <2>1. PICK Q, H, g, n : Q = InQueues /\ H = InHands /\ g = Gone /\ n = recorded
      OBVIOUS
    <2>2. Parts(Q, H, g, n) /\ n \in Nat
      BY <1>0, <2>1 DEF Placed
    <2>3. /\ \A b \in Buffer : Q[b] \ {n + 1} = Q[b]
          /\ \A t \in LogThread : H[t] \ {n + 1} = H[t]
          /\ g \ {n + 1} = g /\ 1..(n + 1) = (1..n) \cup {n + 1}
      BY <2>2, NewBorn
    <2> QED BY <1>0, <1>1, <2>1, <2>3
  <1>3. buf' = buf /\ hand' = hand
    BY DEF Record, RecordWithoutThread, RecordHere, batch, queues
  <1>4. (\A b \in Buffer : InQueues'[b] = InQueues[b] \ X) /\ \A d \in Buffer : NoneTwice(buf'[d])
    BY <1>2, <1>3 DEF InQueues, Placed
  <1>5. CASE Record(c)
    <2>1. item' = [item EXCEPT ![c] = recorded + 1] /\ Gone' = Gone
      BY <1>5 DEF Record, NextEvent, Gone, ledger
    <2>2. InHands[c] = {} /\ c \in LogThread /\ hand[c] = {}
      BY <1>0, CallerHolds DEF Shaped, BatchesShape
    <2>3. item'[c] = recorded + 1 /\ \A u \in Callers : u # c => item'[u] = item[u]
      BY <2>1 DEF Shaped, CallsShape
    <2>4. InHands'[c] = InHands[c] \cup X
      BY <1>0, <1>1, <1>3, <2>2, <2>3, WhoIsWho DEF InHands, Putting
    <2>5. \A u \in LogThread : u # c => InHands'[u] = InHands[u] \ X
      <3>1. \A u \in LogThread : u # c => InHands'[u] = InHands[u]
        BY <1>3, <2>3 DEF InHands, Putting
      <3> QED BY <1>2, <3>1
    <2>6. Gone' = Gone \ X
      BY <1>2, <2>1
    <2> QED BY <1>2, <1>4, <2>2, <2>4, <2>5, <2>6, ToHand
  <1>6. CASE RecordWithoutThread(c) \/ RecordHere(c)
    <2>1. item' = item
      BY <1>6 DEF RecordWithoutThread, RecordHere, call
    <2>2. \A u \in LogThread : InHands'[u] = InHands[u] \ X
      BY <1>2, <1>3, <2>1, HandsSame
    <2>3. Gone' = Gone \cup X
      <3>1. CASE RecordWithoutThread(c)
        BY <1>1, <3>1 DEF RecordWithoutThread, Lost, NextEvent, Gone
      <3>2. CASE RecordHere(c)
        <4>1. PICK E \in SUBSET Event : E = X /\ E = {NextEvent}
          BY <1>0, <1>1 DEF NextEvent
        <4>2. PICK inBlock \in BOOLEAN : \E result \in Outcome(E, inBlock) : Delivers(E,
                       result) /\ Lost(result.out)
          BY <3>2, <4>1 DEF RecordHere
        <4>3. PICK result \in Outcome(E, inBlock) : Delivers(E, result) /\ Lost(result.out)
          BY <4>2
        <4>4. result.landed \cup result.out = E
          BY <4>3, OutcomeSplits
        <4> QED BY <4>1, <4>3, <4>4 DEF Delivers, Lost, Gone
      <3> QED BY <1>6, <3>1, <3>2
    <2> QED BY <1>2, <1>4, <2>2, <2>3, ToGone
  <1> QED BY <1>5, <1>6

(* _rehome() takes an event out of an orphaned queue into its hand, or     *)
(* loses it.                                                               *)
LEMMA RehomePlaces ==
    ASSUME NEW c \in Callers, Shaped, Placed, RehomeTake(c) \/ RehomeWithoutThread(c)
    PROVE  Placed'
  <1>0. PICK b \in Buffer : b = from[c]
    BY WhoIsWho DEF RehomeTake, RehomeWithoutThread, Shaped, CallsShape
  <1>1. /\ buf[b] # <<>> /\ buf' = [buf EXCEPT ![b] = Tail(@)] /\ pc[c] = "rehome"
        /\ hand' = hand /\ rows' = rows /\ recorded' = recorded
    BY <1>0 DEF RehomeTake, RehomeWithoutThread, batch, bounds
  <1>2. PICK x, X : x = Head(buf[b]) /\ X = {x} \ {Wake}
    OBVIOUS
  <1>3. /\ InQueues'[b] = InQueues[b] \ X /\ X \in SUBSET Events(buf[b])
        /\ \A d \in Buffer : d # b => InQueues'[d] = InQueues[d]
        /\ \A d \in Buffer : NoneTwice(buf'[d])
        /\ x \in Item
    BY <1>1, <1>2, HeadTaken
  <1>4. /\ \A t \in LogThread : InHands[t] \ X = InHands[t]
        /\ \A d \in Buffer : d # b => InQueues[d] \ X = InQueues[d]
        /\ Gone \ X = Gone /\ 1..recorded = (1..recorded) \cup X
    BY <1>3, FromQueue
  <1>5. \A d \in Buffer : InQueues'[d] = InQueues[d] \ X
    BY <1>3, <1>4
  <1>6. 1..recorded' = (1..recorded) \cup X
    BY <1>1, <1>4
  <1>7. CASE RehomeTake(c)
    <2>1. item' = [item EXCEPT ![c] = x] /\ Gone' = Gone
      BY <1>0, <1>1, <1>2, <1>7 DEF RehomeTake, Gone, ledger
    <2>2. InHands[c] = {} /\ c \in LogThread /\ hand[c] = {}
      BY <1>1, CallerHolds DEF Shaped, BatchesShape
    <2>3. item'[c] = x /\ \A u \in Callers : u # c => item'[u] = item[u]
      BY <2>1 DEF Shaped, CallsShape
    <2>4. InHands'[c] = InHands[c] \cup X
      BY <1>1, <1>2, <1>3, <2>2, <2>3, WhoIsWho DEF InHands, Putting
    <2>5. \A u \in LogThread : u # c => InHands'[u] = InHands[u] \ X
      <3>1. \A u \in LogThread : u # c => InHands'[u] = InHands[u]
        BY <1>1, <2>3 DEF InHands, Putting
      <3> QED BY <1>4, <3>1
    <2>6. Gone' = Gone \ X
      BY <1>4, <2>1
    <2> QED BY <1>3, <1>5, <1>6, <2>2, <2>4, <2>5, <2>6, ToHand
  <1>8. CASE RehomeWithoutThread(c)
    <2>1. item' = item
      BY <1>8 DEF RehomeWithoutThread
    <2>2. \A u \in LogThread : InHands'[u] = InHands[u] \ X
      BY <1>1, <1>4, <2>1, HandsSame
    <2>3. lost' = lost \cup X
      BY <1>0, <1>2, <1>8 DEF RehomeWithoutThread
    <2>4. Gone' = Gone \cup X
      BY <1>1, <2>3 DEF Gone
    <2> QED BY <1>3, <1>5, <1>6, <2>2, <2>4, ToGone
  <1> QED BY <1>7, <1>8

(* Exit and StopJoined.                                                    *)
LEMMA AbandonPlaces ==
    ASSUME Shaped, Placed, NEW b \in Buffer, Abandons(b), hand' = hand, item' = item,
               recorded' = recorded
    PROVE  Placed'
  <1>1. buf' = [buf EXCEPT ![b] = <<>>]
    BY DEF Abandons
  <1>2. PICK X \in SUBSET Event : X = Events(buf[b])
    BY EventsAreEvents DEF Shaped, QueuesShape
  <1>3. PICK result \in Outcome(X, FALSE) : Delivers(X, result) /\ Lost(result.out)
    BY <1>2 DEF Abandons
  <1>4. Gone' = Gone \cup X
    <2>1. result.landed \cup result.out = X
      BY <1>3, OutcomeSplits
    <2> QED BY <1>3, <2>1 DEF Delivers, Lost, Gone
  <1>5. /\ \A t \in LogThread : InHands[t] \ X = InHands[t]
        /\ \A d \in Buffer : d # b => InQueues[d] \ X = InQueues[d]
        /\ 1..recorded = (1..recorded) \cup X
    <2>1. X \in SUBSET Events(buf[b])
      BY <1>2
    <2> QED BY <2>1, FromQueue
  <1>6. (\A d \in Buffer : InQueues'[d] = InQueues[d] \ X) /\ \A d \in Buffer : NoneTwice(buf'[d])
    BY <1>1, <1>2, <1>5, Emptied
  <1>7. (\A t \in LogThread : InHands'[t] = InHands[t] \ X) /\ 1..recorded' = (1..recorded) \cup X
    BY <1>5, HandsSame
  <1> QED BY <1>4, <1>6, <1>7, ToGone

(* drain_once() takes the queue into the hand of its caller. *)
LEMMA DrainPlaces ==
    ASSUME NEW c \in Callers, Shaped, Placed, Drain(c) PROVE Placed'
  <1>0. PICK b \in Buffer : b = live
    BY WhoIsWho DEF Drain, Shaped, QueuesShape
  <1>1. PICK X : X = Events(buf[b])
    OBVIOUS
  <1>2. /\ buf' = [buf EXCEPT ![b] = <<>>] /\ hand' = [hand EXCEPT ![c] = X] /\ item' = item
        /\ pc[c] = "idle" /\ recorded' = recorded /\ Gone' = Gone
    BY <1>0, <1>1 DEF Drain, Gone, call, ledger
  <1>5. /\ \A t \in LogThread : InHands[t] \ X = InHands[t]
        /\ \A d \in Buffer : d # b => InQueues[d] \ X = InQueues[d]
        /\ Gone \ X = Gone /\ 1..recorded = (1..recorded) \cup X
    <2>1. X \in SUBSET Events(buf[b])
      BY <1>1
    <2> QED BY <2>1, FromQueue
  <1>6. (\A d \in Buffer : InQueues'[d] = InQueues[d] \ X) /\ \A d \in Buffer : NoneTwice(buf'[d])
    BY <1>1, <1>2, <1>5, Emptied
  <1>7. InHands[c] = {} /\ c \in LogThread /\ Putting(c) = {}
    BY <1>2, CallerHolds
  <1>8. hand'[c] = X /\ \A u \in LogThread : u # c => hand'[u] = hand[u]
    BY <1>2, <1>7 DEF Shaped, BatchesShape
  <1>9. InHands'[c] = InHands[c] \cup X /\ \A u \in LogThread : u # c => InHands'[u] = InHands[u]
    BY <1>2, <1>7, <1>8 DEF InHands, Putting
  <1>a. \A u \in LogThread : u # c => InHands'[u] = InHands[u] \ X
    BY <1>5, <1>9
  <1>b. Gone' = Gone \ X /\ 1..recorded' = (1..recorded) \cup X
    BY <1>2, <1>5
  <1> QED BY <1>6, <1>7, <1>9, <1>a, <1>b, ToHand

(* _collect() moves the head of its queue into the hand of the writer. *)
LEMMA CollectPlaces ==
    ASSUME NEW b \in Buffer, Shaped, Placed, Collect(b) PROVE Placed'
  <1>1. PICK x, X : x = Head(buf[b]) /\ X = {x} \ {Wake}
    OBVIOUS
  <1>2. /\ buf[b] # <<>> /\ buf' = [buf EXCEPT ![b] = Tail(@)]
             /\ hand' = [hand EXCEPT ![b] = @ \cup X]
        /\ item' = item /\ recorded' = recorded /\ Gone' = Gone
    BY <1>1 DEF Collect, Gone, call, ledger, bounds
  <1>3. /\ InQueues'[b] = InQueues[b] \ X /\ X \in SUBSET Events(buf[b])
        /\ \A d \in Buffer : d # b => InQueues'[d] = InQueues[d]
        /\ \A d \in Buffer : NoneTwice(buf'[d])
    BY <1>1, <1>2, HeadTaken
  <1>4. /\ \A t \in LogThread : InHands[t] \ X = InHands[t]
        /\ \A d \in Buffer : d # b => InQueues[d] \ X = InQueues[d]
        /\ Gone \ X = Gone /\ 1..recorded = (1..recorded) \cup X
    BY <1>3, FromQueue
  <1>5. \A d \in Buffer : InQueues'[d] = InQueues[d] \ X
    BY <1>3, <1>4
  <1>6. b \in LogThread /\ hand'[b] = hand[b] \cup X /\ \A u \in LogThread : u # b
            => hand'[u] = hand[u]
    BY <1>2, WhoIsWho DEF Shaped, BatchesShape
  <1>7. InHands'[b] = InHands[b] \cup X /\ \A u \in LogThread : u # b => InHands'[u] = InHands[u]
    BY <1>2, <1>6, WhoIsWho DEF InHands, Putting
  <1>8. \A u \in LogThread : u # b => InHands'[u] = InHands[u] \ X
    BY <1>4, <1>7
  <1>9. Gone' = Gone \ X /\ 1..recorded' = (1..recorded) \cup X
    BY <1>2, <1>4
  <1> QED BY <1>3, <1>5, <1>6, <1>7, <1>8, <1>9, ToHand

(* A writer suspended loses its batch, counted; any other goes to its      *)
(* flush.                                                                  *)
LEMMA CollectedPlaces ==
    ASSUME NEW b \in Buffer, Shaped, Placed, Collected(b) PROVE Placed'
  <1>1. buf' = buf /\ item' = item /\ recorded' = recorded /\ rows' = rows
    BY DEF Collected, queues, call, bounds
  <1>2. CASE blocked[b] \/ hand[b] = {}
    <2>1. PICK X : X = hand[b]
      OBVIOUS
    <2>2. hand' = [hand EXCEPT ![b] = {}] /\ lost' = lost \cup X
      BY <1>2, <2>1 DEF Collected, Lost
    <2>3. b \in LogThread /\ hand'[b] = {} /\ \A u \in LogThread : u # b => hand'[u] = hand[u]
      BY <2>2, WhoIsWho DEF Shaped, BatchesShape
    <2>4. InHands'[b] = {} /\ InHands[b] = X /\ \A u \in LogThread : u # b
              => InHands'[u] = InHands[u]
      BY <1>1, <2>1, <2>3, WhoIsWho DEF InHands, Putting
    <2>5. /\ \A d \in Buffer : InQueues[d] \ X = InQueues[d]
          /\ \A u \in LogThread : u # b => InHands[u] \ X = InHands[u]
          /\ 1..recorded = (1..recorded) \cup X
      <3>1. X \in SUBSET InHands[b]
        BY <2>4
      <3> QED BY <2>3, <3>1, FromHand
    <2>6. \A u \in LogThread : InHands'[u] = InHands[u] \ X
      BY <2>4, <2>5
    <2>7. (\A d \in Buffer : InQueues'[d] = InQueues[d] \ X)
              /\ \A d \in Buffer : NoneTwice(buf'[d])
      BY <1>1, <2>5 DEF InQueues, Placed
    <2>8. Gone' = Gone \cup X /\ 1..recorded' = (1..recorded) \cup X
      BY <1>1, <2>2, <2>5 DEF Gone
    <2> QED BY <2>6, <2>7, <2>8, ToGone
  <1>3. CASE ~(blocked[b] \/ hand[b] = {})
    <2>1. hand' = hand /\ lost' = lost
      BY <1>3 DEF Collected
    <2> QED BY <1>1, <2>1, StillPlaced DEF Gone, Placed
  <1> QED BY <1>2, <1>3

(* A flush writes its batch, loses it, or loses a part of it. *)
LEMMA FlushesPlaces ==
    ASSUME NEW t \in LogThread, Shaped, Placed, Flushes(t) PROVE Placed'
  <1>1. PICK left \in SUBSET Event : \E result \in Outcome(hand[t] \cup left, FALSE) :
            /\ NoStop(t, left) \/ (t \in Buffer /\ InnerStop(t, left))
            /\ Delivers(hand[t] \cup left, result) /\ Counts(t, result)
    BY DEF Flushes
  <1>2. PICK X \in SUBSET Event : X = hand[t] \cup left
    BY DEF Shaped, BatchesShape
  <1>3. PICK result \in Outcome(X, FALSE) :
            /\ NoStop(t, left) \/ (t \in Buffer /\ InnerStop(t, left))
            /\ Delivers(X, result) /\ Counts(t, result)
    BY <1>1, <1>2
  <1>4. Gone' = Gone \cup X
    <2>1. result.landed \cup result.out = X
      BY <1>3, OutcomeSplits
    <2> QED BY <1>3, <2>1 DEF Delivers, Counts, Gone
  <1>5. pc[t] = "flush" /\ hand' = [hand EXCEPT ![t] = {}] /\ item' = item /\ recorded' = recorded
    BY DEF Flushes, call
  <1>6. hand'[t] = {} /\ \A u \in LogThread : u # t => hand'[u] = hand[u]
    BY <1>5 DEF Shaped, BatchesShape
  <1>7. InHands[t] = hand[t] /\ InHands'[t] = {} /\ \A u \in LogThread : u # t
            => InHands'[u] = InHands[u]
    <2>1. t \in Callers => Putting(t) = {}
      BY <1>5, CallerHolds
    <2> QED BY <1>5, <1>6, <2>1 DEF InHands, Putting
  <1>8. /\ \A d \in Buffer : InQueues[d] \ hand[t] = InQueues[d]
        /\ \A u \in LogThread : u # t => InHands[u] \ hand[t] = InHands[u]
        /\ 1..recorded = (1..recorded) \cup hand[t]
    <2>1. hand[t] \in SUBSET InHands[t]
      BY <1>7
    <2> QED BY <2>1, FromHand
  <1>9. CASE NoStop(t, left)
    <2>1. X = hand[t] /\ buf' = buf
      BY <1>2, <1>9 DEF NoStop
    <2>2. \A u \in LogThread : InHands'[u] = InHands[u] \ X
      BY <1>7, <1>8, <2>1
    <2>3. (\A d \in Buffer : InQueues'[d] = InQueues[d] \ X)
              /\ \A d \in Buffer : NoneTwice(buf'[d])
      BY <1>8, <2>1 DEF InQueues, Placed
    <2>4. 1..recorded' = (1..recorded) \cup X
      BY <1>5, <1>8, <2>1
    <2> QED BY <1>4, <2>2, <2>3, <2>4, ToGone
  <1>a. CASE t \in Buffer /\ InnerStop(t, left)
    <2>1. buf' = [buf EXCEPT ![t] = <<>>] /\ left = Events(buf[t]) /\ t \in Buffer
      BY <1>a DEF InnerStop
    <2>2. /\ \A u \in LogThread : InHands[u] \ left = InHands[u]
          /\ \A d \in Buffer : d # t => InQueues[d] \ left = InQueues[d]
          /\ 1..recorded = (1..recorded) \cup left
      <3>1. PICK q \in Buffer : q = t
        BY <2>1
      <3>2. left \in SUBSET Events(buf[q])
        BY <2>1, <3>1
      <3>3. /\ \A u \in LogThread : InHands[u] \ left = InHands[u]
            /\ \A d \in Buffer : d # q => InQueues[d] \ left = InQueues[d]
            /\ 1..recorded = (1..recorded) \cup left
        BY <3>2, FromQueue
      <3> QED BY <3>1, <3>3
    <2>3. /\ InQueues'[t] = InQueues[t] \ left /\ InQueues[t] = left
          /\ \A d \in Buffer : d # t => InQueues'[d] = InQueues[d]
          /\ \A d \in Buffer : NoneTwice(buf'[d])
      BY <2>1, Emptied
    <2>4. \A u \in LogThread : InHands'[u] = InHands[u] \ X
      <3> SUFFICES ASSUME NEW u \in LogThread PROVE InHands'[u] = InHands[u] \ X
        OBVIOUS
      <3>1. CASE u = t
        BY <1>2, <1>7, <3>1
      <3>2. CASE u # t
        BY <1>2, <1>7, <1>8, <2>2, <3>2
      <3> QED BY <3>1, <3>2
    <2>5. \A d \in Buffer : InQueues'[d] = InQueues[d] \ X
      <3> SUFFICES ASSUME NEW d \in Buffer PROVE InQueues'[d] = InQueues[d] \ X
        OBVIOUS
      <3>1. CASE d = t
        BY <1>2, <2>3, <3>1
      <3>2. CASE d # t
        BY <1>2, <1>8, <2>2, <2>3, <3>2
      <3> QED BY <3>1, <3>2
    <2>6. 1..recorded' = (1..recorded) \cup X
      <3>1. PICK N : N = 1..recorded
        OBVIOUS
      <3>2. N = N \cup hand[t] /\ N = N \cup left
        BY <1>8, <2>2, <3>1
      <3> QED BY <1>2, <1>5, <3>1, <3>2
    <2> QED BY <1>4, <2>3, <2>4, <2>5, <2>6, ToGone
  <1> QED BY <1>3, <1>9, <1>a

(* A wake is no event. *)
LEMMA WakePlaces ==
    ASSUME NEW c \in Callers, Shaped, Placed, StopWakes(c) \/ FlushPuts(c) PROVE Placed'
  <1>1. PICK b \in Buffer : b = into[c]
    BY WhoIsWho DEF StopWakes, FlushPuts, Shaped, CallsShape
  <1>2. hand' = hand /\ item' = item /\ Gone' = Gone /\ recorded' = recorded
    BY DEF StopWakes, FlushPuts, call, batch, ledger, bounds, Gone
  <1>3. CASE Len(buf[b]) < BufferSize
    <2>1. buf' = [buf EXCEPT ![b] = Append(@, Wake)]
      BY <1>1, <1>3 DEF StopWakes, FlushPuts
    <2>2. Wake \in Item /\ Wake \notin Events(buf[b])
      BY WhoIsWho DEF Events
    <2>3. /\ InQueues'[b] = InQueues[b]
          /\ \A d \in Buffer : d # b => InQueues'[d] = InQueues[d]
          /\ \A d \in Buffer : NoneTwice(buf'[d])
      BY <2>1, <2>2, Appended
    <2>4. \A d \in Buffer : Events(buf'[d]) = Events(buf[d])
      BY <2>3 DEF InQueues
    <2> QED BY <1>2, <2>3, <2>4, StillPlaced
  <1>4. CASE ~(Len(buf[b]) < BufferSize)
    <2>1. buf' = buf
      BY <1>1, <1>4 DEF StopWakes, FlushPuts
    <2> QED BY <1>2, <2>1, StillPlaced DEF Placed
  <1> QED BY <1>3, <1>4

(* Every other step moves no event. *)
LEMMA OtherPlaces ==
    ASSUME Shaped, Placed, buf' = buf, hand' = hand, item' = item, lost' = lost, rows' = rows,
           recorded' = recorded
    PROVE  Placed'
    BY StillPlaced DEF Gone, Placed

-----------------------------------------------------------------------------
(* What a gone writer's queue still holds *)

Watched ==
    \A b \in Buffer :
        pc[b] = "done" /\ Events(buf[b]) \ adrift # {} => \E c \in Callers : WillLook(c, b)

(* Who looks at a queue goes on to, unless nothing in it is missing then;  *)
(* only an event put where somebody looks is missing from a gone writer's. *)
LEMMA KeepsWatch ==
    ASSUME Watched, NEW c,
           \A d \in Callers : d # c => pc'[d] = pc[d] /\ into'[d] = into[d] /\ from'[d] = from[d],
           \A b \in Buffer : pc'[b] = "done" => pc[b] = "done" \/ Events(buf'[b]) = {},
           \A b \in Buffer : pc'[b] = "done" =>
                \/ Events(buf'[b]) \ adrift' \subseteq Events(buf[b]) \ adrift
                \/ \E d \in Callers : WillLook(d, b)',
           c \in Callers => \A b \in Buffer : pc[b] = "done" /\ WillLook(c, b) =>
                                WillLook(c, b)' \/ Events(buf'[b]) \ adrift' = {}
    PROVE  Watched'
  <1> SUFFICES ASSUME NEW b \in Buffer, pc'[b] = "done", Events(buf'[b]) \ adrift' # {}
               PROVE  \E d \in Callers : WillLook(d, b)'
    BY DEF Watched
  <1>1. CASE \E d \in Callers : WillLook(d, b)'
    BY <1>1
  <1>2. CASE Events(buf'[b]) \ adrift' \subseteq Events(buf[b]) \ adrift
    <2>1. pc[b] = "done" /\ Events(buf[b]) \ adrift # {}
      BY <1>2
    <2>2. PICK d \in Callers : WillLook(d, b)
      BY <2>1 DEF Watched
    <2>3. CASE d = c
      BY <2>1, <2>2, <2>3
    <2>4. CASE d # c
      BY <2>2, <2>4 DEF WillLook
    <2> QED BY <2>3, <2>4
  <1> QED BY <1>1, <1>2

(* record() looks up a queue it is about to put into, so it will look. *)
LEMMA RecordWatched ==
    ASSUME NEW c \in Callers, Shaped, Placed, Watched, Record(c) PROVE Watched'
  <1>0. /\ into' = [into EXCEPT ![c] = live'] /\ pc'[c] = "put"
        /\ \A t \in LogThread \ {c} :
            pc'[t] = pc[t] \/ (t \in Buffer /\ pc[t] = "none" /\ pc'[t] = "collect")
    BY LookUp DEF Record, CallStates, CallerState
  <1>1. \A d \in Callers : d # c => pc'[d] = pc[d] /\ into'[d] = into[d] /\ from'[d] = from[d]
    BY <1>0, WhoIsWho DEF Record, Shaped, CallsShape
  <1>2. \A k \in Buffer : pc'[k] = "done" => pc[k] = "done" \/ Events(buf'[k]) = {}
    BY <1>0, WhoIsWho
  <1>3. \A k \in Buffer : pc'[k] = "done" =>
                \/ Events(buf'[k]) \ adrift' \subseteq Events(buf[k]) \ adrift
                \/ \E d \in Callers : WillLook(d, k)'
    BY DEF Record, queues
  <1>4. c \in Callers => \A k \in Buffer : pc[k] = "done" /\ WillLook(c, k) =>
                                WillLook(c, k)' \/ Events(buf'[k]) \ adrift' = {}
    BY WhoIsWho DEF Record, WillLook
  <1> QED BY <1>1, <1>2, <1>3, <1>4, KeepsWatch

(* Who put an event goes on to look whether the queue was orphaned. *)
LEMMA PutWatched ==
    ASSUME NEW c \in Callers, Shaped, Placed, Watched, Put(c) PROVE Watched'
  <1>1. \A d \in Callers : d # c => pc'[d] = pc[d] /\ into'[d] = into[d] /\ from'[d] = from[d]
    BY WhoIsWho DEF Put, Becomes, call, Shaped, ThreadsShape, CallsShape
  <1>2. \A k \in Buffer : pc'[k] = "done" => pc[k] = "done" \/ Events(buf'[k]) = {}
    BY WhoIsWho DEF Put, Becomes, Shaped, ThreadsShape
  <1>3. \A k \in Buffer : pc'[k] = "done" =>
                \/ Events(buf'[k]) \ adrift' \subseteq Events(buf[k]) \ adrift
                \/ \E d \in Callers : WillLook(d, k)'
    <2>1. PICK q \in Buffer : q = into[c]
      BY WhoIsWho DEF Put, Shaped, CallsShape
    <2>2. \A b \in Buffer : b # q => buf'[b] = buf[b]
      BY <2>1 DEF Put, Shaped, QueuesShape
    <2>3. adrift' = adrift
      BY DEF Put
    <2>4. buf' = buf \/ WillLook(c, q)'
      BY <2>1, WhoIsWho DEF Put, WillLook, Becomes, Shaped, ThreadsShape
    <2> QED BY <2>2, <2>3, <2>4
  <1>4. c \in Callers => \A k \in Buffer : pc[k] = "done" /\ WillLook(c, k) =>
                                WillLook(c, k)' \/ Events(buf'[k]) \ adrift' = {}
    BY WhoIsWho DEF Put, WillLook
  <1> QED BY <1>1, <1>2, <1>3, <1>4, KeepsWatch

(* Who finds the queue orphaned goes on to empty it. *)
LEMMA CheckWatched ==
    ASSUME NEW c \in Callers, Shaped, Placed, Watched, Check(c) PROVE Watched'
  <1>1. \A d \in Callers : d # c => pc'[d] = pc[d] /\ into'[d] = into[d] /\ from'[d] = from[d]
    BY WhoIsWho DEF Check, Becomes, call, Shaped, ThreadsShape, CallsShape
  <1>2. \A k \in Buffer : pc'[k] = "done" => pc[k] = "done" \/ Events(buf'[k]) = {}
    BY WhoIsWho DEF Check, Becomes, Shaped, ThreadsShape
  <1>3. \A k \in Buffer : pc'[k] = "done" =>
                \/ Events(buf'[k]) \ adrift' \subseteq Events(buf[k]) \ adrift
                \/ \E d \in Callers : WillLook(d, k)'
    BY DEF Check, queues
  <1>4. c \in Callers => \A k \in Buffer : pc[k] = "done" /\ WillLook(c, k) =>
                                WillLook(c, k)' \/ Events(buf'[k]) \ adrift' = {}
    <2> SUFFICES ASSUME NEW b \in Buffer, pc[b] = "done", WillLook(c, b) PROVE WillLook(c, b)'
      OBVIOUS
    <2>1. into[c] = b /\ pc[c] = "check"
      BY DEF Check, WillLook
    <2>2. live # b
      BY WhoIsWho DEF Shaped, ThreadsShape
    <2>3. from' = [from EXCEPT ![c] = b] /\ pc' = [pc EXCEPT ![c] = "rehome"]
      BY <2>1, <2>2 DEF Check, Orphan, Becomes
    <2> QED BY <2>3, WhoIsWho DEF WillLook, Shaped, ThreadsShape, CallsShape
  <1> QED BY <1>1, <1>2, <1>3, <1>4, KeepsWatch

(* _rehome() ends with the queue empty. *)
LEMMA RehomeDoneWatched ==
    ASSUME NEW c \in Callers, Shaped, Placed, Watched, RehomeDone(c) PROVE Watched'
  <1>1. \A d \in Callers : d # c => pc'[d] = pc[d] /\ into'[d] = into[d] /\ from'[d] = from[d]
    BY WhoIsWho DEF RehomeDone, Becomes, call, Shaped, ThreadsShape, CallsShape
  <1>2. \A k \in Buffer : pc'[k] = "done" => pc[k] = "done" \/ Events(buf'[k]) = {}
    BY WhoIsWho DEF RehomeDone, Becomes, Shaped, ThreadsShape
  <1>3. \A k \in Buffer : pc'[k] = "done" =>
                \/ Events(buf'[k]) \ adrift' \subseteq Events(buf[k]) \ adrift
                \/ \E d \in Callers : WillLook(d, k)'
    BY DEF RehomeDone, queues
  <1>4. c \in Callers => \A k \in Buffer : pc[k] = "done" /\ WillLook(c, k) =>
                                WillLook(c, k)' \/ Events(buf'[k]) \ adrift' = {}
    BY NothingInEmpty, WhoIsWho DEF RehomeDone, WillLook, queues
  <1> QED BY <1>1, <1>2, <1>3, <1>4, KeepsWatch

(* _rehome() comes back to the queue it takes from. *)
LEMMA RehomeTakeWatched ==
    ASSUME NEW c \in Callers, Shaped, Placed, Watched, RehomeTake(c) PROVE Watched'
  <1>0. /\ into' = [into EXCEPT ![c] = live'] /\ pc'[c] = "reput"
        /\ \A t \in LogThread \ {c} :
            pc'[t] = pc[t] \/ (t \in Buffer /\ pc[t] = "none" /\ pc'[t] = "collect")
    BY LookUp DEF RehomeTake, CallStates, CallerState
  <1>a. PICK q \in Buffer : q = from[c]
    BY WhoIsWho DEF RehomeTake, Shaped, CallsShape
  <1>b. buf[q] # <<>> /\ buf' = [buf EXCEPT ![q] = Tail(@)] /\ adrift' = adrift
    BY <1>a DEF RehomeTake
  <1>1. \A d \in Callers : d # c => pc'[d] = pc[d] /\ into'[d] = into[d] /\ from'[d] = from[d]
    BY <1>0, WhoIsWho DEF RehomeTake, Shaped, CallsShape
  <1>2. \A k \in Buffer : pc'[k] = "done" => pc[k] = "done" \/ Events(buf'[k]) = {}
    BY <1>0, WhoIsWho
  <1>3. \A k \in Buffer : pc'[k] = "done" =>
                \/ Events(buf'[k]) \ adrift' \subseteq Events(buf[k]) \ adrift
                \/ \E d \in Callers : WillLook(d, k)'
    BY <1>b, HeadTaken DEF InQueues
  <1>4. c \in Callers => \A k \in Buffer : pc[k] = "done" /\ WillLook(c, k) =>
                                WillLook(c, k)' \/ Events(buf'[k]) \ adrift' = {}
    BY <1>0 DEF RehomeTake, WillLook
  <1> QED BY <1>1, <1>2, <1>3, <1>4, KeepsWatch

(* The same when it has to count the event as lost. *)
LEMMA RehomeWithoutThreadWatched ==
    ASSUME NEW c \in Callers, Shaped, Placed, Watched, RehomeWithoutThread(c) PROVE Watched'
  <1>a. PICK q \in Buffer : q = from[c]
    BY WhoIsWho DEF RehomeWithoutThread, Shaped, CallsShape
  <1>b. buf[q] # <<>> /\ buf' = [buf EXCEPT ![q] = Tail(@)] /\ adrift \subseteq adrift'
    BY <1>a DEF RehomeWithoutThread
  <1>1. \A d \in Callers : d # c => pc'[d] = pc[d] /\ into'[d] = into[d] /\ from'[d] = from[d]
    BY WhoIsWho DEF RehomeWithoutThread, Becomes, call, Shaped, ThreadsShape, CallsShape
  <1>2. \A k \in Buffer : pc'[k] = "done" => pc[k] = "done" \/ Events(buf'[k]) = {}
    BY WhoIsWho DEF RehomeWithoutThread, Becomes, Shaped, ThreadsShape
  <1>3. \A k \in Buffer : pc'[k] = "done" =>
                \/ Events(buf'[k]) \ adrift' \subseteq Events(buf[k]) \ adrift
                \/ \E d \in Callers : WillLook(d, k)'
    BY <1>b, HeadTaken DEF InQueues
  <1>4. c \in Callers => \A k \in Buffer : pc[k] = "done" /\ WillLook(c, k) =>
                                WillLook(c, k)' \/ Events(buf'[k]) \ adrift' = {}
    <2>1. Events(buf'[q]) \subseteq adrift'
      <3>1. buf'[q] = Tail(buf[q]) /\ adrift' = adrift \cup Events(Tail(buf[q]))
        BY <1>a, <1>b DEF RehomeWithoutThread, Shaped, QueuesShape
      <3> QED BY <3>1
    <2> QED BY <1>a, <2>1 DEF RehomeWithoutThread, WillLook
  <1> QED BY <1>1, <1>2, <1>3, <1>4, KeepsWatch

(* _rehome() does not look again after its own put: that event may be      *)
(* adrift.                                                                 *)
LEMMA RehomePutWatched ==
    ASSUME NEW c \in Callers, Shaped, Placed, Watched, RehomePut(c) PROVE Watched'
  <1>1. \A d \in Callers : d # c => pc'[d] = pc[d] /\ into'[d] = into[d] /\ from'[d] = from[d]
    BY WhoIsWho DEF RehomePut, Becomes, call, Shaped, ThreadsShape, CallsShape
  <1>2. \A k \in Buffer : pc'[k] = "done" => pc[k] = "done" \/ Events(buf'[k]) = {}
    BY WhoIsWho DEF RehomePut, Becomes, Shaped, ThreadsShape
  <1>3. \A k \in Buffer : pc'[k] = "done" =>
                \/ Events(buf'[k]) \ adrift' \subseteq Events(buf[k]) \ adrift
                \/ \E d \in Callers : WillLook(d, k)'
    <2>1. PICK q \in Buffer : q = into[c]
      BY WhoIsWho DEF RehomePut, Shaped, CallsShape
    <2>2. CASE Len(buf[q]) < BufferSize
      <3>1. item[c] \in Item /\ buf[q] \in Seq(Item) /\ buf \in [Buffer -> Seq(Item)]
        BY DEF RehomePut, Shaped, CallsShape, QueuesShape
      <3>2. buf' = [buf EXCEPT ![q] = Append(@, item[c])]
                /\ adrift' = adrift \cup Events(<<item[c]>>)
        BY <2>1, <2>2 DEF RehomePut
      <3>3. buf'[q] = Append(buf[q], item[c]) /\ \A b \in Buffer : b # q => buf'[b] = buf[b]
        BY <3>1, <3>2
      <3>4. Events(buf'[q]) = Events(buf[q]) \cup ({item[c]} \ {Wake})
                /\ Events(<<item[c]>>) = {item[c]} \ {Wake}
        BY <3>1, <3>3, AppendAdds, OneInOne
      <3> QED BY <3>2, <3>3, <3>4
    <2>3. CASE ~(Len(buf[q]) < BufferSize)
      BY <2>1, <2>3 DEF RehomePut
    <2> QED BY <2>2, <2>3
  <1>4. c \in Callers => \A k \in Buffer : pc[k] = "done" /\ WillLook(c, k) =>
                                WillLook(c, k)' \/ Events(buf'[k]) \ adrift' = {}
    BY WhoIsWho DEF RehomePut, WillLook, Becomes, Shaped, ThreadsShape
  <1> QED BY <1>1, <1>2, <1>3, <1>4, KeepsWatch

LEMMA FlushesWatched ==
    ASSUME NEW t \in LogThread, Shaped, Placed, Watched, Flushes(t) PROVE Watched'
  <1>0. PICK state \in {"ack", "gap"} : pc' = [pc EXCEPT ![t] = state]
    BY DEF Flushes, Counts, Becomes
  <1>1. \A d \in Callers : d # t => pc'[d] = pc[d] /\ into'[d] = into[d] /\ from'[d] = from[d]
    BY <1>0, WhoIsWho DEF Flushes, call, Shaped, ThreadsShape
  <1>2. \A k \in Buffer : pc'[k] = "done" => pc[k] = "done" \/ Events(buf'[k]) = {}
    BY <1>0, WhoIsWho DEF Shaped, ThreadsShape
  <1>3. \A k \in Buffer : pc'[k] = "done" =>
                \/ Events(buf'[k]) \ adrift' \subseteq Events(buf[k]) \ adrift
                \/ \E d \in Callers : WillLook(d, k)'
    <2>1. adrift' = adrift /\ (buf' = buf \/ (t \in Buffer /\ buf' = [buf EXCEPT ![t] = <<>>]))
      BY DEF Flushes, NoStop, InnerStop
    <2> QED BY <2>1, Emptied DEF InQueues
  <1>4. t \in Callers => \A k \in Buffer : pc[k] = "done" /\ WillLook(t, k) =>
                                WillLook(t, k)' \/ Events(buf'[k]) \ adrift' = {}
    BY WhoIsWho DEF Flushes, WillLook
  <1> QED BY <1>1, <1>2, <1>3, <1>4, KeepsWatch

LEMMA GapWatched ==
    ASSUME NEW t \in LogThread, NEW lands \in BOOLEAN, Shaped, Placed, Watched, Gap(t,
               lands) PROVE Watched'
  <1>1. \A d \in Callers : d # t => pc'[d] = pc[d] /\ into'[d] = into[d] /\ from'[d] = from[d]
    BY WhoIsWho DEF Gap, Becomes, call, Shaped, ThreadsShape, CallsShape
  <1>2. \A k \in Buffer : pc'[k] = "done" => pc[k] = "done" \/ Events(buf'[k]) = {}
    BY WhoIsWho DEF Gap, Becomes, Shaped, ThreadsShape
  <1>3. \A k \in Buffer : pc'[k] = "done" =>
                \/ Events(buf'[k]) \ adrift' \subseteq Events(buf[k]) \ adrift
                \/ \E d \in Callers : WillLook(d, k)'
    BY DEF Gap, queues
  <1>4. t \in Callers => \A k \in Buffer : pc[k] = "done" /\ WillLook(t, k) =>
                                WillLook(t, k)' \/ Events(buf'[k]) \ adrift' = {}
    BY WhoIsWho DEF Gap, WillLook
  <1> QED BY <1>1, <1>2, <1>3, <1>4, KeepsWatch

LEMMA CollectWatched ==
    ASSUME NEW b \in Buffer, Shaped, Placed, Watched, Collect(b) PROVE Watched'
  <1>1. \A d \in Callers : d # b => pc'[d] = pc[d] /\ into'[d] = into[d] /\ from'[d] = from[d]
    BY WhoIsWho DEF Collect, Becomes, call, Shaped, ThreadsShape, CallsShape
  <1>2. \A k \in Buffer : pc'[k] = "done" => pc[k] = "done" \/ Events(buf'[k]) = {}
    BY WhoIsWho DEF Collect, Becomes, Shaped, ThreadsShape
  <1>3. \A k \in Buffer : pc'[k] = "done" =>
                \/ Events(buf'[k]) \ adrift' \subseteq Events(buf[k]) \ adrift
                \/ \E d \in Callers : WillLook(d, k)'
    <2>1. adrift' = adrift /\ buf[b] # <<>> /\ buf' = [buf EXCEPT ![b] = Tail(@)]
      BY DEF Collect
    <2> QED BY <2>1, HeadTaken DEF InQueues
  <1>4. b \in Callers => \A k \in Buffer : pc[k] = "done" /\ WillLook(b, k) =>
                                WillLook(b, k)' \/ Events(buf'[k]) \ adrift' = {}
    BY WhoIsWho DEF Collect, WillLook
  <1> QED BY <1>1, <1>2, <1>3, <1>4, KeepsWatch

LEMMA CollectedWatched ==
    ASSUME NEW b \in Buffer, Shaped, Placed, Watched, Collected(b) PROVE Watched'
  <1>0. PICK state \in {"ack", "flush"} : pc' = [pc EXCEPT ![b] = state]
    BY DEF Collected, Becomes
  <1>1. \A d \in Callers : d # b => pc'[d] = pc[d] /\ into'[d] = into[d] /\ from'[d] = from[d]
    BY <1>0, WhoIsWho DEF Collected, call, Shaped, ThreadsShape
  <1>2. \A k \in Buffer : pc'[k] = "done" => pc[k] = "done" \/ Events(buf'[k]) = {}
    BY <1>0, WhoIsWho DEF Shaped, ThreadsShape
  <1>3. \A k \in Buffer : pc'[k] = "done" =>
                \/ Events(buf'[k]) \ adrift' \subseteq Events(buf[k]) \ adrift
                \/ \E d \in Callers : WillLook(d, k)'
    BY DEF Collected, queues
  <1>4. b \in Callers => \A k \in Buffer : pc[k] = "done" /\ WillLook(b, k) =>
                                WillLook(b, k)' \/ Events(buf'[k]) \ adrift' = {}
    BY WhoIsWho DEF Collected, WillLook
  <1> QED BY <1>1, <1>2, <1>3, <1>4, KeepsWatch

LEMMA UnblockWatched ==
    ASSUME NEW b \in Buffer, Shaped, Placed, Watched, Unblock(b) PROVE Watched'
  <1>1. \A d \in Callers : d # b => pc'[d] = pc[d] /\ into'[d] = into[d] /\ from'[d] = from[d]
    BY WhoIsWho DEF Unblock, Becomes, call, Shaped, ThreadsShape, CallsShape
  <1>2. \A k \in Buffer : pc'[k] = "done" => pc[k] = "done" \/ Events(buf'[k]) = {}
    BY WhoIsWho DEF Unblock, Becomes, Shaped, ThreadsShape
  <1>3. \A k \in Buffer : pc'[k] = "done" =>
                \/ Events(buf'[k]) \ adrift' \subseteq Events(buf[k]) \ adrift
                \/ \E d \in Callers : WillLook(d, k)'
    BY DEF Unblock, queues
  <1>4. b \in Callers => \A k \in Buffer : pc[k] = "done" /\ WillLook(b, k) =>
                                WillLook(b, k)' \/ Events(buf'[k]) \ adrift' = {}
    BY WhoIsWho DEF Unblock, WillLook
  <1> QED BY <1>1, <1>2, <1>3, <1>4, KeepsWatch

LEMMA AckWatched ==
    ASSUME NEW b \in Buffer, Shaped, Placed, Watched, Ack(b) PROVE Watched'
  <1>1. \A d \in Callers : d # b => pc'[d] = pc[d] /\ into'[d] = into[d] /\ from'[d] = from[d]
    BY WhoIsWho DEF Ack, Becomes, call, Shaped, ThreadsShape, CallsShape
  <1>2. \A k \in Buffer : pc'[k] = "done" => pc[k] = "done" \/ Events(buf'[k]) = {}
    BY WhoIsWho DEF Ack, Becomes, Shaped, ThreadsShape
  <1>3. \A k \in Buffer : pc'[k] = "done" =>
                \/ Events(buf'[k]) \ adrift' \subseteq Events(buf[k]) \ adrift
                \/ \E d \in Callers : WillLook(d, k)'
    BY DEF Ack, queues
  <1>4. b \in Callers => \A k \in Buffer : pc[k] = "done" /\ WillLook(b, k) =>
                                WillLook(b, k)' \/ Events(buf'[k]) \ adrift' = {}
    BY WhoIsWho DEF Ack, WillLook
  <1> QED BY <1>1, <1>2, <1>3, <1>4, KeepsWatch

(* A writer empties its queue at its end. *)
LEMMA ExitWatched ==
    ASSUME NEW b \in Buffer, Shaped, Placed, Watched, Exit(b) PROVE Watched'
  <1>0. buf' = [buf EXCEPT ![b] = <<>>]
    BY DEF Exit, Abandons
  <1>1. \A d \in Callers : d # b => pc'[d] = pc[d] /\ into'[d] = into[d] /\ from'[d] = from[d]
    BY WhoIsWho DEF Exit, Becomes, call, Shaped, ThreadsShape, CallsShape
  <1>2. \A k \in Buffer : pc'[k] = "done" => pc[k] = "done" \/ Events(buf'[k]) = {}
    <2>1. Events(buf'[b]) = {}
      BY <1>0, NothingInEmpty DEF Shaped, QueuesShape
    <2> QED BY <2>1, WhoIsWho DEF Exit, Becomes, Shaped, ThreadsShape
  <1>3. \A k \in Buffer : pc'[k] = "done" =>
                \/ Events(buf'[k]) \ adrift' \subseteq Events(buf[k]) \ adrift
                \/ \E d \in Callers : WillLook(d, k)'
    BY <1>0, Emptied DEF Exit, InQueues
  <1>4. b \in Callers => \A k \in Buffer : pc[k] = "done" /\ WillLook(b, k) =>
                                WillLook(b, k)' \/ Events(buf'[k]) \ adrift' = {}
    BY WhoIsWho DEF Exit, WillLook
  <1> QED BY <1>1, <1>2, <1>3, <1>4, KeepsWatch

LEMMA StopWatched ==
    ASSUME NEW c \in Callers, Shaped, Placed, Watched, Stop(c) PROVE Watched'
  <1>1. \A d \in Callers : d # c => pc'[d] = pc[d] /\ into'[d] = into[d] /\ from'[d] = from[d]
    BY WhoIsWho DEF Stop, Becomes, call, Shaped, ThreadsShape, CallsShape
  <1>2. \A k \in Buffer : pc'[k] = "done" => pc[k] = "done" \/ Events(buf'[k]) = {}
    BY WhoIsWho DEF Stop, Becomes, Shaped, ThreadsShape
  <1>3. \A k \in Buffer : pc'[k] = "done" =>
                \/ Events(buf'[k]) \ adrift' \subseteq Events(buf[k]) \ adrift
                \/ \E d \in Callers : WillLook(d, k)'
    BY DEF Stop, queues
  <1>4. c \in Callers => \A k \in Buffer : pc[k] = "done" /\ WillLook(c, k) =>
                                WillLook(c, k)' \/ Events(buf'[k]) \ adrift' = {}
    BY WhoIsWho DEF Stop, WillLook
  <1> QED BY <1>1, <1>2, <1>3, <1>4, KeepsWatch

(* A wake adds no event to any queue. *)
LEMMA WakesOnly ==
    ASSUME NEW c \in Callers, Shaped, Placed, StopWakes(c) \/ FlushPuts(c)
    PROVE  \A d \in Buffer : Events(buf'[d]) = Events(buf[d])
  <1>1. PICK b \in Buffer : b = into[c]
    BY WhoIsWho DEF StopWakes, FlushPuts, Shaped, CallsShape
  <1>2. CASE Len(buf[b]) < BufferSize
    <2>1. buf' = [buf EXCEPT ![b] = Append(@, Wake)]
      BY <1>1, <1>2 DEF StopWakes, FlushPuts
    <2>2. Wake \in Item /\ Wake \notin Events(buf[b])
      BY WhoIsWho DEF Events
    <2>3. InQueues'[b] = InQueues[b] /\ \A d \in Buffer : d # b => InQueues'[d] = InQueues[d]
      BY <2>1, <2>2, Appended
    <2> QED BY <2>3 DEF InQueues
  <1>3. CASE ~(Len(buf[b]) < BufferSize)
    BY <1>1, <1>3 DEF StopWakes, FlushPuts
  <1> QED BY <1>2, <1>3

LEMMA StopWakesWatched ==
    ASSUME NEW c \in Callers, Shaped, Placed, Watched, StopWakes(c) PROVE Watched'
  <1>w. \A d \in Buffer : Events(buf'[d]) = Events(buf[d])
    BY WakesOnly
  <1>1. \A d \in Callers : d # c => pc'[d] = pc[d] /\ into'[d] = into[d] /\ from'[d] = from[d]
    BY WhoIsWho DEF StopWakes, Becomes, call, Shaped, ThreadsShape, CallsShape
  <1>2. \A k \in Buffer : pc'[k] = "done" => pc[k] = "done" \/ Events(buf'[k]) = {}
    BY <1>w, WhoIsWho DEF StopWakes, Becomes, Shaped, ThreadsShape
  <1>3. \A k \in Buffer : pc'[k] = "done" =>
                \/ Events(buf'[k]) \ adrift' \subseteq Events(buf[k]) \ adrift
                \/ \E d \in Callers : WillLook(d, k)'
    BY <1>w DEF StopWakes
  <1>4. c \in Callers => \A k \in Buffer : pc[k] = "done" /\ WillLook(c, k) =>
                                WillLook(c, k)' \/ Events(buf'[k]) \ adrift' = {}
    BY WhoIsWho DEF StopWakes, WillLook, Becomes, call, Shaped, ThreadsShape
  <1> QED BY <1>1, <1>2, <1>3, <1>4, KeepsWatch

(* stop() empties the queue of the writer it joined. *)
LEMMA StopJoinedWatched ==
    ASSUME NEW c \in Callers, Shaped, Placed, Watched, StopJoined(c) PROVE Watched'
  <1>a. PICK q \in Buffer : q = into[c]
    BY WhoIsWho DEF StopJoined, Shaped, CallsShape
  <1>0. buf' = [buf EXCEPT ![q] = <<>>]
    BY <1>a DEF StopJoined, Abandons
  <1>1. \A d \in Callers : d # c => pc'[d] = pc[d] /\ into'[d] = into[d] /\ from'[d] = from[d]
    BY WhoIsWho DEF StopJoined, Becomes, call, Shaped, ThreadsShape, CallsShape
  <1>2. \A k \in Buffer : pc'[k] = "done" => pc[k] = "done" \/ Events(buf'[k]) = {}
    BY WhoIsWho DEF StopJoined, Becomes, Shaped, ThreadsShape
  <1>3. \A k \in Buffer : pc'[k] = "done" =>
                \/ Events(buf'[k]) \ adrift' \subseteq Events(buf[k]) \ adrift
                \/ \E d \in Callers : WillLook(d, k)'
    BY <1>0, Emptied DEF StopJoined, InQueues
  <1>4. c \in Callers => \A k \in Buffer : pc[k] = "done" /\ WillLook(c, k) =>
                                WillLook(c, k)' \/ Events(buf'[k]) \ adrift' = {}
    BY <1>0, <1>a, Emptied DEF StopJoined, WillLook, InQueues
  <1> QED BY <1>1, <1>2, <1>3, <1>4, KeepsWatch

LEMMA FlushLooksWatched ==
    ASSUME NEW c \in Callers, Shaped, Placed, Watched, FlushLooks(c) PROVE Watched'
  <1>1. \A d \in Callers : d # c => pc'[d] = pc[d] /\ into'[d] = into[d] /\ from'[d] = from[d]
    BY WhoIsWho DEF FlushLooks, Becomes, call, Shaped, ThreadsShape, CallsShape
  <1>2. \A k \in Buffer : pc'[k] = "done" => pc[k] = "done" \/ Events(buf'[k]) = {}
    BY WhoIsWho DEF FlushLooks, Becomes, Shaped, ThreadsShape
  <1>3. \A k \in Buffer : pc'[k] = "done" =>
                \/ Events(buf'[k]) \ adrift' \subseteq Events(buf[k]) \ adrift
                \/ \E d \in Callers : WillLook(d, k)'
    BY DEF FlushLooks, queues
  <1>4. c \in Callers => \A k \in Buffer : pc[k] = "done" /\ WillLook(c, k) =>
                                WillLook(c, k)' \/ Events(buf'[k]) \ adrift' = {}
    BY WhoIsWho DEF FlushLooks, WillLook
  <1> QED BY <1>1, <1>2, <1>3, <1>4, KeepsWatch

LEMMA FlushPutsWatched ==
    ASSUME NEW c \in Callers, Shaped, Placed, Watched, FlushPuts(c) PROVE Watched'
  <1>w. \A d \in Buffer : Events(buf'[d]) = Events(buf[d])
    BY WakesOnly
  <1>1. \A d \in Callers : d # c => pc'[d] = pc[d] /\ into'[d] = into[d] /\ from'[d] = from[d]
    BY WhoIsWho DEF FlushPuts, Becomes, call, Shaped, ThreadsShape, CallsShape
  <1>2. \A k \in Buffer : pc'[k] = "done" => pc[k] = "done" \/ Events(buf'[k]) = {}
    BY <1>w, WhoIsWho DEF FlushPuts, Becomes, Shaped, ThreadsShape
  <1>3. \A k \in Buffer : pc'[k] = "done" =>
                \/ Events(buf'[k]) \ adrift' \subseteq Events(buf[k]) \ adrift
                \/ \E d \in Callers : WillLook(d, k)'
    BY <1>w DEF FlushPuts
  <1>4. c \in Callers => \A k \in Buffer : pc[k] = "done" /\ WillLook(c, k) =>
                                WillLook(c, k)' \/ Events(buf'[k]) \ adrift' = {}
    BY WhoIsWho DEF FlushPuts, WillLook
  <1> QED BY <1>1, <1>2, <1>3, <1>4, KeepsWatch

LEMMA DrainWatched ==
    ASSUME NEW c \in Callers, Shaped, Placed, Watched, Drain(c) PROVE Watched'
  <1>a. PICK q \in Buffer : q = live
    BY WhoIsWho DEF Drain, Shaped, QueuesShape
  <1>0. buf' = [buf EXCEPT ![q] = <<>>]
    BY <1>a DEF Drain
  <1>1. \A d \in Callers : d # c => pc'[d] = pc[d] /\ into'[d] = into[d] /\ from'[d] = from[d]
    BY WhoIsWho DEF Drain, Becomes, call, Shaped, ThreadsShape, CallsShape
  <1>2. \A k \in Buffer : pc'[k] = "done" => pc[k] = "done" \/ Events(buf'[k]) = {}
    BY WhoIsWho DEF Drain, Becomes, Shaped, ThreadsShape
  <1>3. \A k \in Buffer : pc'[k] = "done" =>
                \/ Events(buf'[k]) \ adrift' \subseteq Events(buf[k]) \ adrift
                \/ \E d \in Callers : WillLook(d, k)'
    BY <1>0, Emptied DEF Drain, InQueues
  <1>4. c \in Callers => \A k \in Buffer : pc[k] = "done" /\ WillLook(c, k) =>
                                WillLook(c, k)' \/ Events(buf'[k]) \ adrift' = {}
    BY WhoIsWho DEF Drain, WillLook
  <1> QED BY <1>1, <1>2, <1>3, <1>4, KeepsWatch

LEMMA DrainedWatched ==
    ASSUME NEW c \in Callers, Shaped, Placed, Watched, Drained(c) PROVE Watched'
  <1>1. \A d \in Callers : d # c => pc'[d] = pc[d] /\ into'[d] = into[d] /\ from'[d] = from[d]
    BY WhoIsWho DEF Drained, Becomes, call, Shaped, ThreadsShape, CallsShape
  <1>2. \A k \in Buffer : pc'[k] = "done" => pc[k] = "done" \/ Events(buf'[k]) = {}
    BY WhoIsWho DEF Drained, Becomes, Shaped, ThreadsShape
  <1>3. \A k \in Buffer : pc'[k] = "done" =>
                \/ Events(buf'[k]) \ adrift' \subseteq Events(buf[k]) \ adrift
                \/ \E d \in Callers : WillLook(d, k)'
    BY DEF Drained, queues
  <1>4. c \in Callers => \A k \in Buffer : pc[k] = "done" /\ WillLook(c, k) =>
                                WillLook(c, k)' \/ Events(buf'[k]) \ adrift' = {}
    BY WhoIsWho DEF Drained, WillLook
  <1> QED BY <1>1, <1>2, <1>3, <1>4, KeepsWatch

-----------------------------------------------------------------------------
(* Marks and connections *)

Marked ==
    /\ \A c \in Callers : c \in marks => pc[c] \in {"gap", "ack"}
    /\ \A b \in Buffer : b \in marks => pc[b] \notin {"none", "done"}
    /\ conns \subseteq marks

-----------------------------------------------------------------------------
(* The ledger *)

ClaimsOf(c) == UNION {{t} \X (1..c[t]) : t \in LogThread}

(* The threads are finitely many. *)
LEMMA ThreadsFinite == IsFiniteSet(LogThread)
  <1>1. IsFiniteSet(Buffer)
    BY EventLogAssumption, FS_Interval DEF Buffer
  <1>2. IsFiniteSet(Callers)
    BY EventLogAssumption DEF Callers
  <1> QED BY <1>1, <1>2, FS_Union DEF LogThread

(* The claims of one thread are as many as it claimed. *)
LEMMA OneClaim ==
    ASSUME NEW t, NEW k \in Nat
    PROVE  IsFiniteSet({t} \X (1..k)) /\ Cardinality({t} \X (1..k)) = k
  <1>1. IsFiniteSet({t}) /\ Cardinality({t}) = 1
    BY FS_Singleton
  <1>2. IsFiniteSet(1..k) /\ Cardinality(1..k) = k
    BY FS_Interval
  <1>3. Cardinality({t} \X (1..k)) = 1 * k /\ IsFiniteSet({t} \X (1..k))
    <2>1. PICK A, B : A = {t} /\ B = 1..k
      OBVIOUS
    <2>2. IsFiniteSet(A) /\ IsFiniteSet(B) /\ Cardinality(A) = 1 /\ Cardinality(B) = k
      BY <1>1, <1>2, <2>1
    <2>3. IsFiniteSet(A \X B) /\ Cardinality(A \X B) = Cardinality(A) * Cardinality(B)
      BY <2>2, FS_Product
    <2>4. Cardinality(A) * Cardinality(B) = 1 * k
      BY <2>2
    <2>5. A \X B = {t} \X (1..k)
      BY <2>1
    <2> QED BY <2>3, <2>4, <2>5
  <1>4. 1 * k = k
    OBVIOUS
  <1> QED BY <1>3, <1>4

(* All claims together are finitely many. *)
LEMMA ClaimsFinite ==
    ASSUME NEW c \in [LogThread -> Nat]
    PROVE  IsFiniteSet(ClaimsOf(c)) /\ Cardinality(ClaimsOf(c)) \in Nat
  <1> DEFINE S == {{t} \X (1..c[t]) : t \in LogThread}
             f == [t \in LogThread |-> {t} \X (1..c[t])]
  <1>1. f \in Surjection(LogThread, S)
    BY DEF Surjection
  <1>2. IsFiniteSet(S)
    BY <1>1, ThreadsFinite, FS_Surjection
  <1>3. \A T \in S : IsFiniteSet(T)
    <2> SUFFICES ASSUME NEW t \in LogThread PROVE IsFiniteSet({t} \X (1..c[t]))
      OBVIOUS
    <2>1. PICK k \in Nat : k = c[t]
      OBVIOUS
    <2>2. IsFiniteSet({t} \X (1..k))
      BY OneClaim
    <2> QED BY <2>1, <2>2
  <1>5. ClaimsOf(c) = UNION S
    BY DEF ClaimsOf
  <1> HIDE DEF S
  <1>4. IsFiniteSet(ClaimsOf(c))
    BY <1>2, <1>3, <1>5, FS_UNION
  <1> QED BY <1>4, FS_CardinalityType

(* One claim more, or one less.                                            *)
LEMMA ClaimRaised ==
    ASSUME NEW c \in [LogThread -> Nat], NEW t \in LogThread, c[t] = 0, NEW k \in Nat,
           NEW d, d = [c EXCEPT ![t] = k]
    PROVE  Cardinality(ClaimsOf(d)) = Cardinality(ClaimsOf(c)) + k
  <1> DEFINE P == {t} \X (1..k)
  <1>1. d \in [LogThread -> Nat] /\ d[t] = k /\ \A u \in LogThread : u # t => d[u] = c[u]
    OBVIOUS
  <1>2. \A x : x \in ClaimsOf(c) <=> \E u \in LogThread : x \in {u} \X (1..c[u])
    BY DEF ClaimsOf
  <1>3. \A x : x \in ClaimsOf(d) <=> \E u \in LogThread : x \in {u} \X (1..d[u])
    BY DEF ClaimsOf
  <1>4. 1..c[t] = {}
    OBVIOUS
  <1>5. ClaimsOf(d) = ClaimsOf(c) \cup P
    <2>1. ASSUME NEW x \in ClaimsOf(d) PROVE x \in ClaimsOf(c) \cup P
      <3>1. PICK u \in LogThread : x \in {u} \X (1..d[u])
        BY <1>3, <2>1
      <3>2. CASE u = t
        BY <1>1, <3>1, <3>2
      <3>3. CASE u # t
        BY <1>1, <1>2, <3>1, <3>3
      <3> QED BY <3>2, <3>3
    <2>2. ASSUME NEW x \in ClaimsOf(c) PROVE x \in ClaimsOf(d)
      <3>1. PICK u \in LogThread : x \in {u} \X (1..c[u])
        BY <1>2, <2>2
      <3>2. u # t
        BY <1>4, <3>1
      <3> QED BY <1>1, <1>3, <3>1, <3>2
    <2>3. ASSUME NEW x \in P PROVE x \in ClaimsOf(d)
      BY <1>1, <1>3, <2>3
    <2> QED BY <2>1, <2>2, <2>3
  <1>6. ClaimsOf(c) \cap P = {}
    <2> SUFFICES ASSUME NEW x \in ClaimsOf(c), x \in P PROVE FALSE
      OBVIOUS
    <2>1. PICK u \in LogThread : x \in {u} \X (1..c[u])
      BY <1>2
    <2>2. u = t
      BY <2>1
    <2> QED BY <1>4, <2>1, <2>2
  <1>7. IsFiniteSet(ClaimsOf(c)) /\ Cardinality(ClaimsOf(c)) \in Nat
    BY ClaimsFinite
  <1>8. IsFiniteSet(P) /\ Cardinality(P) = k
    BY OneClaim
  <1> HIDE DEF P
  <1>9. Cardinality(ClaimsOf(c) \cup P) = Cardinality(ClaimsOf(c)) + Cardinality(P) - Cardinality(ClaimsOf(c) \cap P)
    BY <1>7, <1>8, FS_Union
  <1>a. Cardinality({}) = 0
    BY FS_EmptySet
  <1>b. Cardinality(ClaimsOf(c) \cap P) = 0
    BY <1>6, <1>a
  <1>c. Cardinality(ClaimsOf(d)) = Cardinality(ClaimsOf(c) \cup P)
    BY <1>5
  <1> QED BY <1>7, <1>8, <1>9, <1>b, <1>c

(* Events newly lost add their number. *)
LEMMA LostGrows ==
    ASSUME NEW A \in SUBSET Event, NEW E \in SUBSET Event, A \cap E = {}
    PROVE  /\ Cardinality(A \cup E) = Cardinality(A) + Cardinality(E)
           /\ Cardinality(A) \in Nat /\ Cardinality(E) \in Nat
  <1>1. /\ IsFiniteSet(A) /\ IsFiniteSet(E)
        /\ Cardinality(A) \in Nat /\ Cardinality(E) \in Nat
    BY Counted
  <1>2. Cardinality(A \cup E) = Cardinality(A) + Cardinality(E) - Cardinality(A \cap E)
    BY <1>1, FS_Union
  <1> QED BY <1>1, <1>2, FS_EmptySet

Summed == dropped + gaps + Cardinality(Claims) = Cardinality(lost) + phantom

(* What the ledger relates are numbers. *)
LEMMA NumbersAre ==
    ASSUME Shaped
    PROVE  /\ dropped \in Nat /\ gaps \in Nat /\ phantom \in Nat
           /\ Cardinality(lost) \in Nat /\ Cardinality(Claims) \in Nat
                /\ Claims = ClaimsOf(claimed)
           /\ claimed \in [LogThread -> Nat]
  <1>1. claimed \in [LogThread -> Nat] /\ lost \in SUBSET Event
    BY DEF Shaped, BatchesShape, CountsShape
  <1>2. Claims = ClaimsOf(claimed)
    BY DEF Claims, ClaimsOf
  <1> QED BY <1>1, <1>2, ClaimsFinite, Counted DEF Shaped, CountsShape

(* What is lost now was not before: it is counted once.                    *)
LEMMA LosesMore ==
    ASSUME Shaped, Summed, NEW E \in SUBSET Event, E \cap lost = {}, lost' = lost \cup E,
           dropped' = dropped + Cardinality(E), gaps' = gaps, phantom' = phantom,
               claimed' = claimed
    PROVE  Summed'
  <1>1. Cardinality(lost') = Cardinality(lost) + Cardinality(E) /\ Cardinality(E) \in Nat
    BY LostGrows DEF Shaped, CountsShape
  <1>2. Claims' = Claims
    BY DEF Claims
  <1> QED BY <1>1, <1>2, NumbersAre DEF Summed

(* A step that touches no count keeps the sum. *)
LEMMA StillSummed ==
    ASSUME Summed, lost' = lost, dropped' = dropped, gaps' = gaps, phantom' = phantom,
               claimed' = claimed
    PROVE  Summed'
    BY DEF Summed, Claims

(* An event in a queue or a hand is not lost. *)
LEMMA NotLostYet ==
    ASSUME Placed
    PROVE  /\ \A t \in LogThread : InHands[t] \cap lost = {}
           /\ \A b \in Buffer : Events(buf[b]) \cap lost = {}
    BY DEF Placed, Parts, InQueues, Gone

(* record() with nowhere to put its event counts it, once. *)
LEMMA RecordSums ==
    ASSUME NEW c \in Callers, Shaped, Placed, Summed, RecordWithoutThread(c) \/ RecordHere(c)
    PROVE  Summed'
  <1>1. recorded \in Nat /\ recorded + 1 \in Event
    BY EventLogAssumption DEF RecordWithoutThread, RecordHere, Shaped, CountsShape, Event
  <1>2. recorded + 1 \notin lost
    <2>1. lost \subseteq 1..recorded
      BY DEF Placed, Parts, Gone
    <2>2. recorded + 1 \notin 1..recorded
      BY <1>1
    <2> QED BY <2>1, <2>2
  <1>3. gaps' = gaps /\ phantom' = phantom /\ claimed' = claimed
    BY DEF RecordWithoutThread, RecordHere, batch
  <1>4. PICK X \in SUBSET Event : X = {NextEvent} /\ X \cap lost = {}
    <2>1. {NextEvent} \in SUBSET Event /\ {NextEvent} \cap lost = {}
      BY <1>1, <1>2 DEF NextEvent
    <2> QED BY <2>1
  <1>5. CASE RecordWithoutThread(c)
    <2>1. lost' = lost \cup X /\ dropped' = dropped + Cardinality(X)
      BY <1>4, <1>5 DEF RecordWithoutThread, Lost
    <2> QED BY <1>3, <1>4, <2>1, LosesMore
  <1>6. CASE RecordHere(c)
    <2>1. PICK inBlock \in BOOLEAN : \E result \in Outcome(X, inBlock) : Delivers(X, result)
                   /\ Lost(result.out)
      BY <1>4, <1>6 DEF RecordHere
    <2>2. PICK result \in Outcome(X, inBlock) : Delivers(X, result) /\ Lost(result.out)
      BY <2>1
    <2>3. PICK E \in SUBSET Event : E = result.out /\ E \cap lost = {}
      BY <1>4, <2>2, OutcomeSplits
    <2> QED BY <1>3, <2>2, <2>3, LosesMore DEF Lost
  <1> QED BY <1>5, <1>6

(* A put into a full queue counts its event, once. *)
LEMMA PutSums ==
    ASSUME NEW c \in Callers, Shaped, Placed, Summed, Put(c) \/ RehomePut(c)
    PROVE  Summed'
  <1>0. PICK b \in Buffer : b = into[c]
    BY WhoIsWho DEF Put, RehomePut, Shaped, CallsShape
  <1>1. /\ gaps' = gaps /\ phantom' = phantom /\ claimed' = claimed /\ pc[c] \in {"put", "reput"}
        /\ item' = [item EXCEPT ![c] = Nothing] /\ hand' = hand
    BY DEF Put, RehomePut, batch
  <1>2. PICK X : X = {item[c]} \ {Wake}
    OBVIOUS
  <1>3. InHands[c] = X /\ item[c] \in Item /\ c \in LogThread
    BY <1>1, <1>2, PutDown, WhoIsWho
  <1>4. X \in SUBSET Event /\ X \cap lost = {}
    BY <1>2, <1>3, WhoIsWho, NotLostYet
  <1>5. CASE Len(buf[b]) < BufferSize
    BY <1>0, <1>1, <1>5, StillSummed DEF Put, RehomePut
  <1>6. CASE ~(Len(buf[b]) < BufferSize)
    <2>1. lost' = lost \cup X /\ dropped' = dropped + Cardinality(X)
      <3>1. CASE Put(c)
        <4>1. X = {item[c]}
          BY <1>2, <3>1, WhoIsWho DEF Put, Shaped, CallsShape
        <4> QED BY <1>0, <1>6, <3>1, <4>1 DEF Put, Lost
      <3>2. CASE RehomePut(c)
        BY <1>0, <1>2, <1>6, <3>2 DEF RehomePut, Lost
      <3> QED BY <3>1, <3>2
    <2> QED BY <1>1, <1>4, <2>1, LosesMore
  <1> QED BY <1>5, <1>6

(* _rehome() without a queue to go to counts its event; a wake counted so  *)
(* is a phantom.                                                           *)
LEMMA RehomeSums ==
    ASSUME NEW c \in Callers, Shaped, Placed, Summed, RehomeWithoutThread(c) PROVE Summed'
  <1>0. PICK b \in Buffer : b = from[c]
    BY WhoIsWho DEF RehomeWithoutThread, Shaped, CallsShape
  <1>1. PICK x : x = Head(buf[b])
    OBVIOUS
  <1>2. /\ buf[b] # <<>> /\ buf' = [buf EXCEPT ![b] = Tail(@)]
        /\ gaps' = gaps /\ claimed' = claimed /\ dropped' = dropped + 1
    BY <1>0 DEF RehomeWithoutThread, batch
  <1>3. CASE x # Wake
    <2>1. lost' = lost \cup {x} /\ phantom' = phantom
      BY <1>0, <1>1, <1>3 DEF RehomeWithoutThread
    <2>2. x \in Events(buf[b]) /\ x \in Item
      BY <1>1, <1>2, <1>3, HeadTaken
    <2>3. PICK E \in SUBSET Event : E = {x} /\ E \cap lost = {}
      <3>1. x \in Event /\ x \notin lost
        BY <1>3, <2>2, NotLostYet, WhoIsWho
      <3>2. {x} \in SUBSET Event /\ {x} \cap lost = {}
        BY <3>1
      <3> QED BY <3>2
    <2>4. Cardinality(E) = 1
      BY <2>3, FS_Singleton
    <2> QED BY <1>2, <2>1, <2>3, <2>4, LosesMore
  <1>4. CASE x = Wake
    <2>1. lost' = lost /\ phantom' = phantom + 1
      BY <1>0, <1>1, <1>4 DEF RehomeWithoutThread
    <2>2. Cardinality(Claims') = Cardinality(Claims) /\ Cardinality(lost') = Cardinality(lost)
      BY <1>2, <2>1 DEF Claims
    <2>3. /\ dropped \in Nat /\ gaps \in Nat /\ phantom \in Nat
          /\ Cardinality(lost) \in Nat /\ Cardinality(Claims) \in Nat
      BY NumbersAre
    <2> QED BY <1>2, <2>1, <2>2, <2>3 DEF Summed
  <1> QED BY <1>3, <1>4

(* A suspended writer counts its batch. *)
LEMMA CollectedSums ==
    ASSUME NEW b \in Buffer, Shaped, Placed, Summed, Collected(b) PROVE Summed'
  <1>1. gaps' = gaps /\ phantom' = phantom /\ claimed' = claimed
    BY DEF Collected
  <1>2. PICK X \in SUBSET Event : X = hand[b] /\ X \cap lost = {}
    <2>1. b \in LogThread /\ hand[b] \subseteq InHands[b] /\ hand[b] \subseteq Event
      BY WhoIsWho DEF InHands, Shaped, BatchesShape
    <2> QED BY <2>1, NotLostYet
  <1>3. CASE blocked[b] \/ hand[b] = {}
    BY <1>1, <1>2, <1>3, LosesMore DEF Collected, Lost
  <1>4. CASE ~(blocked[b] \/ hand[b] = {})
    BY <1>1, <1>4, StillSummed DEF Collected
  <1> QED BY <1>3, <1>4

(* A queue that is given up is written or counted. *)
LEMMA AbandonSums ==
    ASSUME Shaped, Placed, Summed, NEW b \in Buffer, Abandons(b), gaps' = gaps,
               phantom' = phantom,
           claimed' = claimed
    PROVE  Summed'
  <1>1. PICK X \in SUBSET Event : X = Events(buf[b]) /\ X \cap lost = {}
    BY NotLostYet, EventsAreEvents DEF Shaped, QueuesShape
  <1>2. PICK result \in Outcome(X, FALSE) : Delivers(X, result) /\ Lost(result.out)
    BY <1>1 DEF Abandons
  <1>3. PICK E \in SUBSET Event : E = result.out /\ E \cap lost = {}
    <2>1. result.out \subseteq X
      BY <1>2, OutcomeSplits
    <2> QED BY <1>1, <2>1
  <1>4. lost' = lost \cup E /\ dropped' = dropped + Cardinality(E)
    BY <1>2, <1>3 DEF Lost
  <1> QED BY <1>3, <1>4, LosesMore

(* A flush counts what it lost and takes what it claims off the count. *)
LEMMA FlushesSums ==
    ASSUME NEW t \in LogThread, Shaped, Placed, Summed, Flushes(t) PROVE Summed'
  <1>1. PICK left \in SUBSET Event : \E result \in Outcome(hand[t] \cup left, FALSE) :
            /\ NoStop(t, left) \/ (t \in Buffer /\ InnerStop(t, left))
            /\ Delivers(hand[t] \cup left, result) /\ Counts(t, result)
    BY DEF Flushes
  <1>2. PICK X \in SUBSET Event : X = hand[t] \cup left
    BY DEF Shaped, BatchesShape
  <1>3. PICK result \in Outcome(X, FALSE) :
            /\ NoStop(t, left) \/ (t \in Buffer /\ InnerStop(t, left))
            /\ Counts(t, result)
    BY <1>1, <1>2
  <1>4. X \cap lost = {}
    <2>1. hand[t] \cap lost = {}
      BY NotLostYet DEF InHands
    <2>2. left \cap lost = {}
      BY <1>3, NotLostYet DEF NoStop, InnerStop
    <2> QED BY <1>2, <2>1, <2>2
  <1>5. PICK E \in SUBSET Event : E = result.out /\ E \cap lost = {}
    <2>1. result.out \subseteq X
      BY <1>3, OutcomeSplits
    <2> QED BY <1>4, <2>1
  <1>6. /\ Cardinality(lost') = Cardinality(lost) + Cardinality(E) /\ Cardinality(E) \in Nat
    <2>1. lost' = lost \cup E /\ lost \in SUBSET Event /\ lost \cap E = {}
      BY <1>3, <1>5 DEF Counts, Shaped, CountsShape
    <2> QED BY <2>1, LostGrows
  <1>7. PICK claim \in Nat : claim = Claim(t, result)
    BY <1>5, <1>6, FlushClaims
  <1>8. /\ dropped' = dropped + Cardinality(E) - claim /\ claimed' = [claimed EXCEPT ![t] = claim]
        /\ gaps' = gaps /\ phantom' = phantom /\ pc[t] = "flush"
    BY <1>3, <1>5, <1>7 DEF Counts, Flushes
  <1>9. claimed[t] = 0
    BY <1>8 DEF Shaped, BatchesShape
  <1>a. Cardinality(ClaimsOf(claimed')) = Cardinality(ClaimsOf(claimed)) + claim
    BY <1>8, <1>9, ClaimRaised, NumbersAre
  <1>b. Cardinality(Claims') = Cardinality(Claims) + claim
    BY <1>a DEF Claims, ClaimsOf
  <1> QED BY <1>6, <1>8, <1>b, NumbersAre DEF Summed

(* A gap row lands with the claim, or the claim goes back to the count. *)
LEMMA GapSums ==
    ASSUME NEW t \in LogThread, NEW lands \in BOOLEAN, Shaped, Summed, Gap(t, lands) PROVE Summed'
  <1>1. PICK k \in Nat : k = claimed[t]
    BY DEF Shaped, BatchesShape
  <1>2. /\ claimed' = [claimed EXCEPT ![t] = 0] /\ lost' = lost /\ phantom' = phantom
        /\ gaps' = (IF lands THEN gaps + k ELSE gaps)
        /\ dropped' = (IF lands THEN dropped ELSE dropped + k)
    BY <1>1 DEF Gap
  <1>3. PICK d : d = claimed'
    OBVIOUS
  <1>4. d \in [LogThread -> Nat] /\ d[t] = 0 /\ claimed = [d EXCEPT ![t] = k]
    BY <1>1, <1>2, <1>3, NumbersAre
  <1>5. Cardinality(ClaimsOf(claimed)) = Cardinality(ClaimsOf(d)) + k
    BY <1>4, ClaimRaised
  <1>6. Cardinality(Claims) = Cardinality(Claims') + k /\ Cardinality(Claims') \in Nat
    BY <1>3, <1>4, <1>5, ClaimsFinite DEF Claims, ClaimsOf
  <1>7. gaps' + dropped' = gaps + dropped + k
    BY <1>2, NumbersAre
  <1>8. gaps' \in Nat /\ dropped' \in Nat
    BY <1>2, NumbersAre
  <1> QED BY <1>2, <1>6, <1>7, <1>8, NumbersAre DEF Summed

-----------------------------------------------------------------------------
(* Marks and connections, operation by operation *)

LEMMA RecordMarking ==
    ASSUME NEW c \in Callers, Shaped, Marked, Record(c) PROVE Marked'
  <1>0. /\ pc'[c] = "put" /\ marks' = marks /\ conns' = conns
        /\ \A t \in LogThread \ {c} :
            pc'[t] = pc[t] \/ (t \in Buffer /\ pc[t] = "none" /\ pc'[t] = "collect")
    BY LookUp DEF Record, CallStates, CallerState, marking
  <1> QED BY <1>0, WhoIsWho DEF Record, Shaped, ThreadsShape, CountsShape, Marked

LEMMA RecordWithoutThreadMarking ==
    ASSUME NEW c \in Callers, Shaped, Marked, RecordWithoutThread(c) PROVE Marked'
  <1> QED BY WhoIsWho DEF Shaped, ThreadsShape, CountsShape, Marked, RecordWithoutThread,
               CannotStart, Lost, NextEvent, call, marking

LEMMA PutMarking ==
    ASSUME NEW c \in Callers, Shaped, Marked, Put(c) PROVE Marked'
  <1> QED BY WhoIsWho DEF Shaped, ThreadsShape, CountsShape, Marked, Put, Lost, Becomes, marking

LEMMA CheckMarking ==
    ASSUME NEW c \in Callers, Shaped, Marked, Check(c) PROVE Marked'
  <1> QED BY WhoIsWho DEF Shaped, ThreadsShape, CountsShape, Marked, Check, Orphan, Becomes,
               marking

LEMMA RehomeDoneMarking ==
    ASSUME NEW c \in Callers, Shaped, Marked, RehomeDone(c) PROVE Marked'
  <1> QED BY WhoIsWho DEF Shaped, ThreadsShape, CountsShape, Marked, RehomeDone, Becomes, marking

LEMMA RehomeTakeMarking ==
    ASSUME NEW c \in Callers, Shaped, Marked, RehomeTake(c) PROVE Marked'
  <1>0. /\ pc'[c] = "reput" /\ marks' = marks /\ conns' = conns
        /\ \A t \in LogThread \ {c} :
            pc'[t] = pc[t] \/ (t \in Buffer /\ pc[t] = "none" /\ pc'[t] = "collect")
    BY LookUp DEF RehomeTake, CallStates, CallerState, marking
  <1> QED BY <1>0, WhoIsWho DEF RehomeTake, Shaped, ThreadsShape, CountsShape, Marked

LEMMA RehomeWithoutThreadMarking ==
    ASSUME NEW c \in Callers, Shaped, Marked, RehomeWithoutThread(c) PROVE Marked'
  <1> QED BY WhoIsWho DEF Shaped, ThreadsShape, CountsShape, Marked, RehomeWithoutThread,
               CannotStart, Becomes, marking

LEMMA RehomePutMarking ==
    ASSUME NEW c \in Callers, Shaped, Marked, RehomePut(c) PROVE Marked'
  <1> QED BY WhoIsWho DEF Shaped, ThreadsShape, CountsShape, Marked, RehomePut, Becomes, Lost,
               marking

LEMMA RecordHereMarking ==
    ASSUME NEW c \in Callers, Shaped, Marked, RecordHere(c) PROVE Marked'
  <1> QED BY WhoIsWho DEF Shaped, ThreadsShape, CountsShape, Marked, RecordHere, Delivers, Lost,
               NextEvent, call, marking

LEMMA FlushesMarking ==
    ASSUME NEW t \in LogThread, Shaped, Marked, Flushes(t) PROVE Marked'
  <1>0. PICK state \in {"ack", "gap"} : pc' = [pc EXCEPT ![t] = state]
    BY DEF Flushes, Counts, Becomes
  <1>1. marks' = marks \cup {t} /\ conns' = conns \cup ({t} \cap Buffer)
    BY DEF Flushes, NoStop, InnerStop, StopMarks
  <1> QED BY <1>0, <1>1, WhoIsWho DEF Shaped, ThreadsShape, CountsShape, Marked

LEMMA GapMarking ==
    ASSUME NEW t \in LogThread, NEW lands \in BOOLEAN, Shaped, Marked, Gap(t, lands) PROVE Marked'
  <1> QED BY WhoIsWho DEF Shaped, ThreadsShape, CountsShape, Marked, Gap, Becomes, call, marking

LEMMA CollectMarking ==
    ASSUME NEW b \in Buffer, Shaped, Marked, Collect(b) PROVE Marked'
  <1> QED BY WhoIsWho DEF Shaped, ThreadsShape, CountsShape, Marked, Collect, call, marking

LEMMA CollectedMarking ==
    ASSUME NEW b \in Buffer, Shaped, Marked, Collected(b) PROVE Marked'
  <1> QED BY WhoIsWho DEF Shaped, ThreadsShape, CountsShape, Marked, Collected, Lost, Becomes,
               call, marking

LEMMA UnblockMarking ==
    ASSUME NEW b \in Buffer, Shaped, Marked, Unblock(b) PROVE Marked'
  <1> QED BY WhoIsWho DEF Shaped, ThreadsShape, CountsShape, Marked, Unblock, call, marking

LEMMA AckMarking ==
    ASSUME NEW b \in Buffer, Shaped, Marked, Ack(b) PROVE Marked'
  <1> QED BY WhoIsWho DEF Shaped, ThreadsShape, CountsShape, Marked, Ack, Leaves, Becomes, call,
               marking

LEMMA ExitMarking ==
    ASSUME NEW b \in Buffer, Shaped, Marked, Exit(b) PROVE Marked'
  <1>0. /\ pc' = [pc EXCEPT ![b] = "done"] /\ marks' = marks \ {b} /\ conns' \subseteq conns
        /\ b \in conns => b \notin conns'
    BY DEF Exit, Releases, Becomes, Marked
  <1> QED BY <1>0, WhoIsWho DEF Shaped, ThreadsShape, CountsShape, Marked

LEMMA StopMarking ==
    ASSUME NEW c \in Callers, Shaped, Marked, Stop(c) PROVE Marked'
  <1> QED BY WhoIsWho DEF Shaped, ThreadsShape, CountsShape, Marked, Stop, Becomes, marking

LEMMA StopWakesMarking ==
    ASSUME NEW c \in Callers, Shaped, Marked, StopWakes(c) PROVE Marked'
  <1> QED BY WhoIsWho DEF Shaped, ThreadsShape, CountsShape, Marked, StopWakes, Becomes, call,
               marking

LEMMA StopJoinedMarking ==
    ASSUME NEW c \in Callers, Shaped, Marked, StopJoined(c) PROVE Marked'
  <1> QED BY WhoIsWho DEF Shaped, ThreadsShape, CountsShape, Marked, StopJoined, Abandons,
               Delivers, Lost, Becomes, marking

LEMMA FlushLooksMarking ==
    ASSUME NEW c \in Callers, Shaped, Marked, FlushLooks(c) PROVE Marked'
  <1> QED BY WhoIsWho DEF Shaped, ThreadsShape, CountsShape, Marked, FlushLooks, Becomes, marking

LEMMA FlushPutsMarking ==
    ASSUME NEW c \in Callers, Shaped, Marked, FlushPuts(c) PROVE Marked'
  <1> QED BY WhoIsWho DEF Shaped, ThreadsShape, CountsShape, Marked, FlushPuts, Becomes, marking

LEMMA DrainMarking ==
    ASSUME NEW c \in Callers, Shaped, Marked, Drain(c) PROVE Marked'
  <1> QED BY WhoIsWho DEF Shaped, ThreadsShape, CountsShape, Marked, Drain, Becomes, call, marking

LEMMA DrainedMarking ==
    ASSUME NEW c \in Callers, Shaped, Marked, Drained(c) PROVE Marked'
  <1> QED BY WhoIsWho DEF Shaped, ThreadsShape, CountsShape, Marked, Drained, Becomes, call,
               marking

-----------------------------------------------------------------------------
(* The invariant *)

LogInv == Shaped /\ Placed /\ Watched /\ Summed /\ Marked

(* What holds at the start. *)
LEMMA LogStarts == LogInit => LogInv
  <1> SUFFICES ASSUME LogInit PROVE LogInv
    OBVIOUS
  <1>1. QueuesShape
    <2>1. BufferSize \in Nat /\ MaxBuffers \in Nat
      BY EventLogAssumption
    <2>2. live = None /\ opened = 0 /\ stopping = FALSE /\ buf = [b \in Buffer |-> <<>>]
      BY DEF LogInit
    <2>3. buf \in [Buffer -> Seq(Item)] /\ \A b \in Buffer : buf[b] = <<>>
      BY <2>2, NothingInEmpty
    <2>4. Len(<<>>) = 0
      OBVIOUS
    <2>5. \A b \in Buffer : Len(buf[b]) <= BufferSize
      <3> SUFFICES ASSUME NEW b \in Buffer PROVE Len(buf[b]) <= BufferSize
        OBVIOUS
      <3>1. Len(buf[b]) = 0
        BY <2>3, <2>4
      <3> QED BY <2>1, <3>1
    <2>6. opened \in 0..MaxBuffers
      BY <2>1, <2>2
    <2> QED BY <2>2, <2>3, <2>5, <2>6 DEF QueuesShape
  <1>2. ThreadsShape
    BY WhoIsWho DEF LogInit, ThreadsShape, CallStates, WriteStates, CallerState, WriterState,
         Flushing
  <1>3. CallsShape
    BY WhoIsWho DEF LogInit, CallsShape
  <1>4. BatchesShape
    BY DEF LogInit, BatchesShape
  <1>5. CountsShape
    <2>1. FailureLimit \in Nat /\ MaxEvents \in Nat
      BY EventLogAssumption
    <2> QED BY <2>1 DEF LogInit, CountsShape
  <1>6. Placed
    <2>1. \A b \in Buffer : InQueues[b] = {} /\ NoneTwice(buf[b])
      BY NothingInEmpty DEF LogInit, InQueues
    <2>2. \A t \in LogThread : InHands[t] = {}
      BY DEF LogInit, InHands, Putting
    <2>3. Gone = {} /\ 1..recorded = {}
      BY DEF LogInit, Gone
    <2> QED BY <2>1, <2>2, <2>3 DEF Placed, Parts
  <1>7. Watched
    BY WhoIsWho DEF LogInit, Watched
  <1>8. Summed
    <2>1. \A t \in LogThread : 1..claimed[t] = {}
      BY DEF LogInit
    <2>2. Claims = {}
      BY <2>1 DEF Claims
    <2> QED BY <2>2, FS_EmptySet DEF LogInit, Summed
  <1>9. Marked
    BY DEF LogInit, Marked
  <1> QED BY <1>1, <1>2, <1>3, <1>4, <1>5, <1>6, <1>7, <1>8, <1>9 DEF LogInv, Shaped

(* A step that touches neither queues nor calls keeps the watch. *)
LEMMA SameWatched ==
    ASSUME Watched, buf' = buf, pc' = pc, into' = into, from' = from, adrift' = adrift
    PROVE  Watched'
    BY DEF Watched, WillLook

LEMMA RecordKeeps ==
    ASSUME NEW c \in Callers, LogInv, Record(c) PROVE LogInv'
  <1>1. Shaped'
    BY RecordShapes DEF LogInv
  <1>2. Placed'
    BY RecordPlaces DEF LogInv
  <1>3. Watched'
    BY RecordWatched DEF LogInv
  <1>4. Summed'
    BY StillSummed DEF LogInv, Record, queues, call, batch, ledger, bounds
  <1>5. Marked'
    BY RecordMarking DEF LogInv
  <1> QED BY <1>1, <1>2, <1>3, <1>4, <1>5 DEF LogInv

LEMMA RecordWithoutThreadKeeps ==
    ASSUME NEW c \in Callers, LogInv, RecordWithoutThread(c) PROVE LogInv'
  <1>1. Shaped'
    BY RecordWithoutThreadShapes DEF LogInv
  <1>2. Placed'
    BY RecordPlaces DEF LogInv
  <1>3. Watched'
    BY SameWatched DEF LogInv, RecordWithoutThread, queues, call
  <1>4. Summed'
    BY RecordSums DEF LogInv
  <1>5. Marked'
    BY RecordWithoutThreadMarking DEF LogInv
  <1> QED BY <1>1, <1>2, <1>3, <1>4, <1>5 DEF LogInv

LEMMA PutKeeps ==
    ASSUME NEW c \in Callers, LogInv, Put(c) PROVE LogInv'
  <1>1. Shaped'
    BY PutShapes DEF LogInv
  <1>2. Placed'
    BY PutPlaces DEF LogInv
  <1>3. Watched'
    BY PutWatched DEF LogInv
  <1>4. Summed'
    BY PutSums DEF LogInv
  <1>5. Marked'
    BY PutMarking DEF LogInv
  <1> QED BY <1>1, <1>2, <1>3, <1>4, <1>5 DEF LogInv

LEMMA CheckKeeps ==
    ASSUME NEW c \in Callers, LogInv, Check(c) PROVE LogInv'
  <1>1. Shaped'
    BY CheckShapes DEF LogInv
  <1>2. Placed'
    BY OtherPlaces DEF LogInv, Check, queues, call, batch, ledger, bounds
  <1>3. Watched'
    BY CheckWatched DEF LogInv
  <1>4. Summed'
    BY StillSummed DEF LogInv, Check, queues, call, batch, ledger, bounds
  <1>5. Marked'
    BY CheckMarking DEF LogInv
  <1> QED BY <1>1, <1>2, <1>3, <1>4, <1>5 DEF LogInv

LEMMA RehomeDoneKeeps ==
    ASSUME NEW c \in Callers, LogInv, RehomeDone(c) PROVE LogInv'
  <1>1. Shaped'
    BY RehomeDoneShapes DEF LogInv
  <1>2. Placed'
    BY OtherPlaces DEF LogInv, RehomeDone, queues, call, batch, ledger, bounds
  <1>3. Watched'
    BY RehomeDoneWatched DEF LogInv
  <1>4. Summed'
    BY StillSummed DEF LogInv, RehomeDone, queues, call, batch, ledger, bounds
  <1>5. Marked'
    BY RehomeDoneMarking DEF LogInv
  <1> QED BY <1>1, <1>2, <1>3, <1>4, <1>5 DEF LogInv

LEMMA RehomeTakeKeeps ==
    ASSUME NEW c \in Callers, LogInv, RehomeTake(c) PROVE LogInv'
  <1>1. Shaped'
    BY RehomeTakeShapes DEF LogInv
  <1>2. Placed'
    BY RehomePlaces DEF LogInv
  <1>3. Watched'
    BY RehomeTakeWatched DEF LogInv
  <1>4. Summed'
    BY StillSummed DEF LogInv, RehomeTake, queues, call, batch, ledger, bounds
  <1>5. Marked'
    BY RehomeTakeMarking DEF LogInv
  <1> QED BY <1>1, <1>2, <1>3, <1>4, <1>5 DEF LogInv

LEMMA RehomeWithoutThreadKeeps ==
    ASSUME NEW c \in Callers, LogInv, RehomeWithoutThread(c) PROVE LogInv'
  <1>1. Shaped'
    BY RehomeWithoutThreadShapes DEF LogInv
  <1>2. Placed'
    BY RehomePlaces DEF LogInv
  <1>3. Watched'
    BY RehomeWithoutThreadWatched DEF LogInv
  <1>4. Summed'
    BY RehomeSums DEF LogInv
  <1>5. Marked'
    BY RehomeWithoutThreadMarking DEF LogInv
  <1> QED BY <1>1, <1>2, <1>3, <1>4, <1>5 DEF LogInv

LEMMA RehomePutKeeps ==
    ASSUME NEW c \in Callers, LogInv, RehomePut(c) PROVE LogInv'
  <1>1. Shaped'
    BY RehomePutShapes DEF LogInv
  <1>2. Placed'
    BY PutPlaces DEF LogInv
  <1>3. Watched'
    BY RehomePutWatched DEF LogInv
  <1>4. Summed'
    BY PutSums DEF LogInv
  <1>5. Marked'
    BY RehomePutMarking DEF LogInv
  <1> QED BY <1>1, <1>2, <1>3, <1>4, <1>5 DEF LogInv

LEMMA RecordHereKeeps ==
    ASSUME NEW c \in Callers, LogInv, RecordHere(c) PROVE LogInv'
  <1>1. Shaped'
    BY RecordHereShapes DEF LogInv
  <1>2. Placed'
    BY RecordPlaces DEF LogInv
  <1>3. Watched'
    BY SameWatched DEF LogInv, RecordHere, queues, call
  <1>4. Summed'
    BY RecordSums DEF LogInv
  <1>5. Marked'
    BY RecordHereMarking DEF LogInv
  <1> QED BY <1>1, <1>2, <1>3, <1>4, <1>5 DEF LogInv

LEMMA FlushesKeeps ==
    ASSUME NEW t \in LogThread, LogInv, Flushes(t) PROVE LogInv'
  <1>1. Shaped'
    BY FlushesShapes DEF LogInv
  <1>2. Placed'
    BY FlushesPlaces DEF LogInv
  <1>3. Watched'
    BY FlushesWatched DEF LogInv
  <1>4. Summed'
    BY FlushesSums DEF LogInv
  <1>5. Marked'
    BY FlushesMarking DEF LogInv
  <1> QED BY <1>1, <1>2, <1>3, <1>4, <1>5 DEF LogInv

LEMMA GapKeeps ==
    ASSUME NEW t \in LogThread, NEW lands \in BOOLEAN, LogInv, Gap(t, lands) PROVE LogInv'
  <1>1. Shaped'
    BY GapShapes DEF LogInv
  <1>2. Placed'
    BY OtherPlaces DEF LogInv, Gap, queues, call, batch, ledger, bounds
  <1>3. Watched'
    BY GapWatched DEF LogInv
  <1>4. Summed'
    BY GapSums DEF LogInv
  <1>5. Marked'
    BY GapMarking DEF LogInv
  <1> QED BY <1>1, <1>2, <1>3, <1>4, <1>5 DEF LogInv

LEMMA CollectKeeps ==
    ASSUME NEW b \in Buffer, LogInv, Collect(b) PROVE LogInv'
  <1>1. Shaped'
    BY CollectShapes DEF LogInv
  <1>2. Placed'
    BY CollectPlaces DEF LogInv
  <1>3. Watched'
    BY CollectWatched DEF LogInv
  <1>4. Summed'
    BY StillSummed DEF LogInv, Collect, queues, call, batch, ledger, bounds
  <1>5. Marked'
    BY CollectMarking DEF LogInv
  <1> QED BY <1>1, <1>2, <1>3, <1>4, <1>5 DEF LogInv

LEMMA CollectedKeeps ==
    ASSUME NEW b \in Buffer, LogInv, Collected(b) PROVE LogInv'
  <1>1. Shaped'
    BY CollectedShapes DEF LogInv
  <1>2. Placed'
    BY CollectedPlaces DEF LogInv
  <1>3. Watched'
    BY CollectedWatched DEF LogInv
  <1>4. Summed'
    BY CollectedSums DEF LogInv
  <1>5. Marked'
    BY CollectedMarking DEF LogInv
  <1> QED BY <1>1, <1>2, <1>3, <1>4, <1>5 DEF LogInv

LEMMA UnblockKeeps ==
    ASSUME NEW b \in Buffer, LogInv, Unblock(b) PROVE LogInv'
  <1>1. Shaped'
    BY UnblockShapes DEF LogInv
  <1>2. Placed'
    BY OtherPlaces DEF LogInv, Unblock, queues, call, batch, ledger, bounds
  <1>3. Watched'
    BY UnblockWatched DEF LogInv
  <1>4. Summed'
    BY StillSummed DEF LogInv, Unblock, queues, call, batch, ledger, bounds
  <1>5. Marked'
    BY UnblockMarking DEF LogInv
  <1> QED BY <1>1, <1>2, <1>3, <1>4, <1>5 DEF LogInv

LEMMA AckKeeps ==
    ASSUME NEW b \in Buffer, LogInv, Ack(b) PROVE LogInv'
  <1>1. Shaped'
    BY AckShapes DEF LogInv
  <1>2. Placed'
    BY OtherPlaces DEF LogInv, Ack, queues, call, batch, ledger, bounds
  <1>3. Watched'
    BY AckWatched DEF LogInv
  <1>4. Summed'
    BY StillSummed DEF LogInv, Ack, queues, call, batch, ledger, bounds
  <1>5. Marked'
    BY AckMarking DEF LogInv
  <1> QED BY <1>1, <1>2, <1>3, <1>4, <1>5 DEF LogInv

LEMMA ExitKeeps ==
    ASSUME NEW b \in Buffer, LogInv, Exit(b) PROVE LogInv'
  <1>1. Shaped'
    BY ExitShapes DEF LogInv
  <1>2. Placed'
    BY AbandonPlaces DEF LogInv, Exit, call, batch
  <1>3. Watched'
    BY ExitWatched DEF LogInv
  <1>4. Summed'
    BY AbandonSums DEF LogInv, Exit, batch
  <1>5. Marked'
    BY ExitMarking DEF LogInv
  <1> QED BY <1>1, <1>2, <1>3, <1>4, <1>5 DEF LogInv

LEMMA StopKeeps ==
    ASSUME NEW c \in Callers, LogInv, Stop(c) PROVE LogInv'
  <1>1. Shaped'
    BY StopShapes DEF LogInv
  <1>2. Placed'
    BY OtherPlaces DEF LogInv, Stop, queues, call, batch, ledger, bounds
  <1>3. Watched'
    BY StopWatched DEF LogInv
  <1>4. Summed'
    BY StillSummed DEF LogInv, Stop, queues, call, batch, ledger, bounds
  <1>5. Marked'
    BY StopMarking DEF LogInv
  <1> QED BY <1>1, <1>2, <1>3, <1>4, <1>5 DEF LogInv

LEMMA StopWakesKeeps ==
    ASSUME NEW c \in Callers, LogInv, StopWakes(c) PROVE LogInv'
  <1>1. Shaped'
    BY StopWakesShapes DEF LogInv
  <1>2. Placed'
    BY WakePlaces DEF LogInv
  <1>3. Watched'
    BY StopWakesWatched DEF LogInv
  <1>4. Summed'
    BY StillSummed DEF LogInv, StopWakes, queues, call, batch, ledger, bounds
  <1>5. Marked'
    BY StopWakesMarking DEF LogInv
  <1> QED BY <1>1, <1>2, <1>3, <1>4, <1>5 DEF LogInv

LEMMA StopJoinedKeeps ==
    ASSUME NEW c \in Callers, LogInv, StopJoined(c) PROVE LogInv'
  <1>0. into[c] \in Buffer
    BY WhoIsWho DEF StopJoined, LogInv, Shaped, CallsShape
  <1>1. Shaped'
    BY StopJoinedShapes DEF LogInv
  <1>2. Placed'
    BY <1>0, AbandonPlaces DEF LogInv, StopJoined, batch
  <1>3. Watched'
    BY StopJoinedWatched DEF LogInv
  <1>4. Summed'
    BY <1>0, AbandonSums DEF LogInv, StopJoined, batch
  <1>5. Marked'
    BY StopJoinedMarking DEF LogInv
  <1> QED BY <1>1, <1>2, <1>3, <1>4, <1>5 DEF LogInv

LEMMA FlushLooksKeeps ==
    ASSUME NEW c \in Callers, LogInv, FlushLooks(c) PROVE LogInv'
  <1>1. Shaped'
    BY FlushLooksShapes DEF LogInv
  <1>2. Placed'
    BY OtherPlaces DEF LogInv, FlushLooks, queues, call, batch, ledger, bounds
  <1>3. Watched'
    BY FlushLooksWatched DEF LogInv
  <1>4. Summed'
    BY StillSummed DEF LogInv, FlushLooks, queues, call, batch, ledger, bounds
  <1>5. Marked'
    BY FlushLooksMarking DEF LogInv
  <1> QED BY <1>1, <1>2, <1>3, <1>4, <1>5 DEF LogInv

LEMMA FlushPutsKeeps ==
    ASSUME NEW c \in Callers, LogInv, FlushPuts(c) PROVE LogInv'
  <1>1. Shaped'
    BY FlushPutsShapes DEF LogInv
  <1>2. Placed'
    BY WakePlaces DEF LogInv
  <1>3. Watched'
    BY FlushPutsWatched DEF LogInv
  <1>4. Summed'
    BY StillSummed DEF LogInv, FlushPuts, queues, call, batch, ledger, bounds
  <1>5. Marked'
    BY FlushPutsMarking DEF LogInv
  <1> QED BY <1>1, <1>2, <1>3, <1>4, <1>5 DEF LogInv

LEMMA DrainKeeps ==
    ASSUME NEW c \in Callers, LogInv, Drain(c) PROVE LogInv'
  <1>1. Shaped'
    BY DrainShapes DEF LogInv
  <1>2. Placed'
    BY DrainPlaces DEF LogInv
  <1>3. Watched'
    BY DrainWatched DEF LogInv
  <1>4. Summed'
    BY StillSummed DEF LogInv, Drain, queues, call, batch, ledger, bounds
  <1>5. Marked'
    BY DrainMarking DEF LogInv
  <1> QED BY <1>1, <1>2, <1>3, <1>4, <1>5 DEF LogInv

LEMMA DrainedKeeps ==
    ASSUME NEW c \in Callers, LogInv, Drained(c) PROVE LogInv'
  <1>1. Shaped'
    BY DrainedShapes DEF LogInv
  <1>2. Placed'
    BY OtherPlaces DEF LogInv, Drained, queues, call, batch, ledger, bounds
  <1>3. Watched'
    BY DrainedWatched DEF LogInv
  <1>4. Summed'
    BY StillSummed DEF LogInv, Drained, queues, call, batch, ledger, bounds
  <1>5. Marked'
    BY DrainedMarking DEF LogInv
  <1> QED BY <1>1, <1>2, <1>3, <1>4, <1>5 DEF LogInv

(* Every step keeps the invariant. *)
LEMMA LogInvariance == LogInv /\ [LogNext]_logVars => LogInv'
  <1> SUFFICES ASSUME LogInv, [LogNext]_logVars PROVE LogInv'
    OBVIOUS
  <1>1. ASSUME NEW t \in LogThread, FlushStep(t) PROVE LogInv'
    BY <1>1, FlushesKeeps, GapKeeps DEF FlushStep
  <1>2. ASSUME NEW b \in Buffer, WriterStep(b) \/ Unblock(b) PROVE LogInv'
    BY <1>2, CollectKeeps, CollectedKeeps, AckKeeps, ExitKeeps, UnblockKeeps DEF WriterStep
  <1>3. ASSUME NEW c \in Callers, CallerStep(c) PROVE LogInv'
    <2>1. CASE Put(c) \/ Check(c)
      BY <2>1, PutKeeps, CheckKeeps
    <2>2. CASE RehomeDone(c) \/ RehomeTake(c) \/ RehomePut(c)
      BY <2>2, RehomeDoneKeeps, RehomeTakeKeeps, RehomePutKeeps
    <2>3. CASE StopWakes(c) \/ StopJoined(c)
      BY <2>3, StopWakesKeeps, StopJoinedKeeps
    <2>4. CASE FlushPuts(c) \/ Drained(c)
      BY <2>4, FlushPutsKeeps, DrainedKeeps
    <2> QED BY <1>3, <2>1, <2>2, <2>3, <2>4 DEF CallerStep
  <1>4. ASSUME NEW c \in Callers, Record(c) \/ RecordWithoutThread(c) \/ RecordHere(c)
                   \/ RehomeWithoutThread(c)
        PROVE  LogInv'
    BY <1>4, RecordKeeps, RecordWithoutThreadKeeps, RecordHereKeeps, RehomeWithoutThreadKeeps
  <1>5. ASSUME NEW c \in Callers, Stop(c) \/ FlushLooks(c) \/ Drain(c) PROVE LogInv'
    BY <1>5, StopKeeps, FlushLooksKeeps, DrainKeeps
  <1>6. ASSUME UNCHANGED logVars PROVE LogInv'
    <2>1. Shaped'
      BY <1>6 DEF LogInv, Shaped, QueuesShape, ThreadsShape, CallsShape, BatchesShape,
           CountsShape,
                  logVars, queues, call, batch, health, ledger, marking, bounds
    <2>2. Placed'
      BY <1>6, OtherPlaces DEF LogInv, logVars, queues, call, batch, ledger, bounds
    <2>3. Watched'
      BY <1>6, SameWatched DEF LogInv, logVars, queues, call
    <2>4. Summed'
      BY <1>6, StillSummed DEF LogInv, logVars, batch, ledger
    <2>5. Marked'
      BY <1>6 DEF LogInv, Marked, logVars, marking
    <2> QED BY <2>1, <2>2, <2>3, <2>4, <2>5 DEF LogInv
  <1>7. Producers \subseteq Callers /\ Operators \subseteq Callers
    BY DEF Callers
  <1> QED BY <1>1, <1>2, <1>3, <1>4, <1>5, <1>6, <1>7 DEF LogNext

(* The invariant holds in every state. *)
LEMMA LogInvHolds == LogSpec => []LogInv
  <1> QED BY LogStarts, LogInvariance, PTL DEF LogSpec

-----------------------------------------------------------------------------
(* What it gives *)

(* A set whose elements are all the same has one at most. *)
LEMMA OfOne ==
    ASSUME NEW S, \A x, y \in S : x = y
    PROVE  Cardinality(S) \in {0, 1} /\ (Cardinality(S) = 0 <=> S = {})
  <1>1. CASE S = {}
    BY <1>1, FS_EmptySet
  <1>2. CASE S # {}
    <2>1. PICK x : x \in S
      BY <1>2
    <2>2. S = {x}
      BY <2>1
    <2>3. Cardinality({x}) = 1
      BY FS_Singleton
    <2> QED BY <1>2, <2>2, <2>3
  <1> QED BY <1>1, <1>2

(* A recorded event is in one queue, or in one hand, or written or lost,   *)
(* and a row of it means it is in no queue.                                *)
LEMMA InOnePlace ==
    ASSUME LogInv, NEW e \in 1..recorded
    PROVE  /\ Places(e) <= 1 /\ (Places(e) = 0 => e \in rows)
           /\ InQueue(e) # {} => e \notin rows
  <1>1. e # Wake /\ e # Nothing
    BY DEF Wake, Nothing
  <1>2. \A b \in Buffer : b \in InQueue(e) <=> e \in InQueues[b]
    BY DEF InQueue, InQueues
  <1>3. \A t \in LogThread : t \in InHand(e) <=> e \in InHands[t]
    BY <1>1 DEF InHand, InHands, Putting
  <1>4. InQueue(e) \subseteq Buffer /\ InHand(e) \subseteq LogThread
    BY DEF InQueue, InHand
  <1>5. Parts(InQueues, InHands, Gone, recorded)
    BY DEF LogInv, Placed
  <1>6. \A b, d \in InQueue(e) : b = d
    BY <1>2, <1>4, <1>5 DEF Parts
  <1>7. \A t, u \in InHand(e) : t = u
    BY <1>3, <1>4, <1>5 DEF Parts
  <1>8. InQueue(e) # {} => InHand(e) = {} /\ e \notin Gone
    BY <1>2, <1>3, <1>4, <1>5 DEF Parts
  <1>9. InHand(e) # {} => e \notin Gone
    BY <1>3, <1>4, <1>5 DEF Parts
  <1>a. InQueue(e) # {} \/ InHand(e) # {} \/ e \in Gone
    BY <1>2, <1>3, <1>5 DEF Parts
  <1>b. Cardinality(InQueue(e)) \in {0, 1} /\ (Cardinality(InQueue(e)) = 0 <=> InQueue(e) = {})
    BY <1>6, OfOne
  <1>c. Cardinality(InHand(e)) \in {0, 1} /\ (Cardinality(InHand(e)) = 0 <=> InHand(e) = {})
    BY <1>7, OfOne
  <1> QED BY <1>8, <1>9, <1>a, <1>b, <1>c DEF Places, Gone

(* The invariant implies the properties. *)
LEMMA InvTells == LogInv => LogTypeOK /\ NothingVanishes /\ GapsAddUp /\ MarksTell
  <1> SUFFICES ASSUME LogInv PROVE LogTypeOK /\ NothingVanishes /\ GapsAddUp /\ MarksTell
    OBVIOUS
  <1>1. LogTypeOK
    BY DEF LogTypeOK, LogInv, Shaped, QueuesShape, ThreadsShape, CallsShape, BatchesShape,
         CountsShape,
           CallStates, WriteStates
  <1>2. NothingVanishes
    BY InOnePlace DEF NothingVanishes, LogInv, Watched
  <1>3. GapsAddUp
    BY NumbersAre DEF GapsAddUp, LogInv, Summed
  <1>4. MarksTell
    <2>1. marks \subseteq LogThread /\ conns \subseteq Buffer /\ conns \subseteq marks
      BY DEF LogInv, Marked, Shaped, CountsShape
    <2>2. \A c \in Callers : c \in marks => pc[c] \in {"gap", "ack"}
      BY DEF LogInv, Marked
    <2>3. \A b \in Buffer : b \in marks => pc[b] \notin {"none", "done"}
      BY DEF LogInv, Marked
    <2>4. \A b \in Buffer : pc[b] \in WriteStates
      BY DEF LogInv, Shaped, ThreadsShape
    <2>5. \A t \in marks : pc[t] \notin {"idle", "done", "none"}
      <3> SUFFICES ASSUME NEW t \in marks PROVE pc[t] \notin {"idle", "done", "none"}
        OBVIOUS
      <3>1. CASE t \in Callers
        BY <2>2, <3>1
      <3>2. CASE t \in Buffer
        BY <2>3, <2>4, <3>2 DEF WriteStates, WriterState, Flushing
      <3> QED BY <2>1, <3>1, <3>2, WhoIsWho
    <2>6. \A b \in conns : pc[b] # "done"
      BY <2>1, <2>3
    <2> QED BY <2>5, <2>6 DEF MarksTell
  <1> QED BY <1>1, <1>2, <1>3, <1>4

(* The queues, threads, calls, batches, counts and marks of the recorder   *)
(* keep their types and bounds, for any number of recording threads,       *)
(* operators, queues, events and faults.                                   *)
THEOREM LogTyped == LogSpec => []LogTypeOK
  <1> QED BY LogInvHolds, InvTells, PTL

(* No event vanishes: one that record() was called with                    *)
(* (eventlog/recorder.py) is in exactly one queue or hand, or was written, *)
(* or is counted as lost; and a queue whose writer has ended holds nothing *)
(* but what _rehome() put without looking again, unless a thread is still  *)
(* going to look at it.                                                    *)
THEOREM EventsVanishNowhere == LogSpec => []NothingVanishes
  <1> QED BY LogInvHolds, InvTells, PTL

(* The ledger adds up (eventlog/bookkeeping.py): the drops not told yet,   *)
(* those the gap rows tell of and those a thread has claimed for one are   *)
(* the events lost and the wakes counted with them, whatever flushes,      *)
(* drains, stops and failed writes come between.                           *)
THEOREM LedgerAddsUp == LogSpec => []GapsAddUp
  <1> QED BY LogInvHolds, InvTells, PTL

(* A mark of ThreadMarks is of a thread at work, and a writer that is gone *)
(* left no connection open, a stop() called by its own receiver included.  *)
(* It is what WriterEnds says of every state.                              *)
THEOREM MarksAlwaysTell == LogSpec => []MarksTell
  <1> QED BY LogInvHolds, InvTells, PTL

-----------------------------------------------------------------------------
(* The bot's loop: the inductive invariant *)

\* Where a thread holds the lock of its loop.
Locking == {"locked", "driving", "inline"}
\* Where a send is on its loop, or is about to be.
OnLoop == {"queued", "task"} \cup Locking

(* Every loop but the last is closed; the last one is until it is closed,  *)
(* and is forgotten after that.  A closed loop is not driven.              *)
Loops ==
    /\ shut = IF cur = 0 \/ cpc = "forgetting" THEN made ELSE made - 1
    /\ cpc \in {"locking", "turning", "finishing", "forgetting"} => cur # 0
    /\ main \in {"before", "holding"} => cpc = "idle"
    /\ \A l \in Loop : Running(l) => ~Closed(l)

(* A send knows a loop that was built, and one that is on its loop or goes *)
(* there under the lock finds it open.                                     *)
SendHolds(s) ==
    /\ send[s] \notin {"new", "refused"} => sloop[s] \in 1..made
    /\ send[s] \in OnLoop => ~Closed(sloop[s])
    /\ send[s] \in Locking => lock[sloop[s]] = s

UpdateHolds(u) ==
    /\ uloop[u] <= made /\ (upd[u] \in Locking \cup {"waiting"} => uloop[u] # 0)
    /\ upd[u] \in Locking => ~Closed(uloop[u]) /\ lock[uloop[u]] = u

(* The two flags on the way through close(): while it is closing and no    *)
(* longer draining, no send is queued nor on its way to be.                *)
Marks ==
    /\ cpc \in {"turning", "finishing"} => lock[cur] = "closer"
    /\ closing => cpc \notin {"idle", "draining"}
    /\ cpc \notin {"idle", "draining", "ending"} => closing
    /\ cpc \notin {"idle", "finishing", "forgetting", "ending"} => draining
    /\ cpc \in {"finishing", "forgetting"} => ~draining
    /\ closing /\ ~draining => \A s \in Send : send[s] \notin Locking \cup {"queued"}

IInv == /\ TypeOK /\ Loops /\ Marks
        /\ (\A s \in Send : SendHolds(s)) /\ (\A u \in Upd : UpdateHolds(u))

-----------------------------------------------------------------------------
(* Types *)

USE DEF loops, thread, flags, sends, updates, closer

LEMMA StartsTyped == Init => TypeOK
<1> SUFFICES ASSUME Init PROVE TypeOK
  OBVIOUS
<1> USE SendLoopAssumption DEF Init
<1>1. LoopTyped
  <2>1. held \in BOOLEAN /\ ready \in BOOLEAN /\ stop \in BOOLEAN
    BY Zenon
  <2>2. made \in 0..MaxLoops /\ cur \in {0, made} /\ shut \in 0..made /\ rloop \in 0..MaxLoops
    OBVIOUS
  <2> QED
    BY <2>1, <2>2 DEF LoopTyped
<1>2. HeldTyped
  BY DEF HeldTyped, Thread
<1>3. SendTyped
  BY DEF SendTyped, SendState, Undecided
<1>4. UpdateTyped
  BY DEF UpdateTyped, UpdState
<1>5. CloseTyped
  <2>1. closing \in BOOLEAN /\ draining \in BOOLEAN /\ slow \in BOOLEAN
    BY Zenon
  <2>2. closes \in 0..MaxCloses
    OBVIOUS
  <2> QED
    BY <2>1, <2>2 DEF CloseTyped
<1> QED
  BY <1>1, <1>2, <1>3, <1>4, <1>5 DEF TypeOK

(* The last loop, built where there is none. *)
LEMMA LoopReached ==
    ASSUME LoopTyped, Reached
    PROVE  /\ made' \in 0..MaxLoops /\ made <= made' /\ cur' = made' /\ cur' = TheLoop
           /\ TheLoop \in Loop /\ (cur = 0 => made' = made + 1) /\ (cur # 0 => made' = made)
  BY SendLoopAssumption DEF LoopTyped, Reached, TheLoop, Loop

(* A loop's lock or driver replaced. *)
LEMMA HeldMoves ==
    ASSUME HeldTyped, NEW l, NEW t \in Thread \cup {NoOne}
    PROVE  /\ Takes(l, t) => lock' \in [Loop -> Thread \cup {NoOne}]
           /\ Drives(l, t) => driver' \in [Loop -> Thread \cup {NoOne}]
  BY DEF HeldTyped, Takes, Drives

LEMMA Typed ==
    ASSUME TypeOK, [Next]_vars
    PROVE  TypeOK'
<1> USE SendLoopAssumption DEF TypeOK
<1>1. ASSUME MainHolds PROVE TypeOK'
  <2>1. LoopTyped'
    BY <1>1, LoopReached DEF MainHolds, Drives, LoopTyped, Loop
  <2>2. HeldTyped'
    BY <1>1, HeldMoves, LoopReached DEF MainHolds, HeldTyped, Thread, Loop
  <2> QED
    BY <1>1, <2>1, <2>2 DEF MainHolds, SendTyped, UpdateTyped, CloseTyped
<1>2. ASSUME MainEnds PROVE TypeOK'
  <2>1. LoopTyped'
    BY <1>2 DEF MainEnds, Drives, LoopTyped
  <2>2. HeldTyped'
    BY <1>2, HeldMoves DEF MainEnds, HeldTyped, Thread
  <2> QED
    BY <1>2, <2>1, <2>2 DEF MainEnds, SendTyped, UpdateTyped, CloseTyped
<1>3. ASSUME RunnerStarts PROVE TypeOK'
  <2>1. LoopTyped'
    BY <1>3 DEF RunnerStarts, Drives, LoopTyped
  <2>2. HeldTyped'
    BY <1>3, HeldMoves DEF RunnerStarts, HeldTyped, Thread
  <2> QED
    BY <1>3, <2>1, <2>2 DEF RunnerStarts, SendTyped, UpdateTyped, CloseTyped
<1>4. ASSUME RunnerStops PROVE TypeOK'
  <2>1. LoopTyped'
    BY <1>4 DEF RunnerStops, Drives, LoopTyped
  <2>2. HeldTyped'
    BY <1>4, HeldMoves DEF RunnerStops, HeldTyped, Thread
  <2> QED
    BY <1>4, <2>1, <2>2 DEF RunnerStops, SendTyped, UpdateTyped, CloseTyped
<1>5. ASSUME NEW s \in Send, SendStarts(s) PROVE TypeOK'
  <2>1. LoopTyped'
    BY <1>5, LoopReached DEF SendStarts, Moves, LoopTyped, Loop
  <2>2. SendTyped'
    BY <1>5, LoopReached DEF SendStarts, Moves, SendTyped, LoopTyped, SendState, Undecided, Over, Loop
  <2> QED
    BY <1>5, <2>1, <2>2 DEF SendStarts, HeldTyped, UpdateTyped, CloseTyped
<1>6. ASSUME NEW s \in Send, SendFromHandler(s) PROVE TypeOK'
  <2>1. SendTyped'
    BY <1>6 DEF SendFromHandler, Moves, SendTyped, UpdateTyped, SendState, Undecided, Over
  <2> QED
    BY <1>6, <2>1 DEF SendFromHandler, LoopTyped, HeldTyped, UpdateTyped, CloseTyped
<1>7. ASSUME NEW s \in Send, SendLocks(s) PROVE TypeOK'
  <2>1. HeldTyped'
    BY <1>7, HeldMoves DEF SendLocks, Moves, HeldTyped, Thread
  <2>2. SendTyped'
    BY <1>7 DEF SendLocks, Moves, Takes, SendTyped, SendState, Undecided, Over
  <2> QED
    BY <1>7, <2>1, <2>2 DEF SendLocks, LoopTyped, UpdateTyped, CloseTyped
<1>8. ASSUME NEW s \in Send, SendDecides(s) PROVE TypeOK'
  <2>1. HeldTyped'
    BY <1>8, HeldMoves DEF SendDecides, Moves, HeldTyped, Thread
  <2>2. SendTyped'
    BY <1>8 DEF SendDecides, Moves, Takes, SendTyped, SendState, Undecided, Over
  <2> QED
    BY <1>8, <2>1, <2>2 DEF SendDecides, LoopTyped, UpdateTyped, CloseTyped
<1>9. ASSUME NEW s \in Send, SendDrives(s) PROVE TypeOK'
  <2>1. HeldTyped'
    BY <1>9, HeldMoves DEF SendDrives, Moves, HeldTyped, Thread
  <2>2. SendTyped'
    BY <1>9 DEF SendDrives, Moves, Takes, Drives, SendTyped, SendState, Undecided, Over
  <2> QED
    BY <1>9, <2>1, <2>2 DEF SendDrives, LoopTyped, UpdateTyped, CloseTyped
<1>10. ASSUME NEW s \in Send, HandOffStarts(s) PROVE TypeOK'
  <2>1. SendTyped'
    BY <1>10 DEF HandOffStarts, Moves, SendTyped, SendState, Undecided, Over
  <2> QED
    BY <1>10, <2>1 DEF HandOffStarts, LoopTyped, HeldTyped, UpdateTyped, CloseTyped
<1>11. ASSUME NEW s \in Send, SendEnds(s) PROVE TypeOK'
  <2>1. HeldTyped'
    BY <1>11, HeldMoves DEF SendEnds, Moves, HeldTyped, Thread
  <2>2. SendTyped'
    BY <1>11 DEF SendEnds, Moves, Takes, Drives, SendTyped, SendState, Undecided, Over
  <2> QED
    BY <1>11, <2>1, <2>2 DEF SendEnds, LoopTyped, UpdateTyped, CloseTyped
<1>12. ASSUME NEW u \in Upd, UpdateEnsures(u) PROVE TypeOK'
  <2>1. LoopTyped'
    <3>1. CASE UNCHANGED <<loops, runner, rloop, held, ready>>
      BY <1>12, <3>1 DEF UpdateEnsures, LoopTyped
    <3>2. CASE Reached /\ ready' = FALSE /\ UNCHANGED shut
      <4>1. /\ made' \in 0..MaxLoops /\ cur' = made' /\ shut' \in 0..made'
            /\ TheLoop \in 0..MaxLoops
        BY <3>2, LoopReached DEF LoopTyped, Loop
      <4>2. /\ held' \in BOOLEAN
            /\ (runner' = runner /\ rloop' = rloop) \/ (runner' = "starting" /\ rloop' = TheLoop)
        BY <1>12, <3>2 DEF UpdateEnsures, LoopTyped
      <4> QED
        BY <1>12, <3>2, <4>1, <4>2 DEF UpdateEnsures, LoopTyped
    <3> QED
      BY <1>12, <3>1, <3>2 DEF UpdateEnsures
  <2>2. UpdateTyped'
    BY <1>12, LoopReached DEF UpdateEnsures, Goes, UpdateTyped, LoopTyped, UpdState, Returned, Loop
  <2> QED
    BY <1>12, <2>1, <2>2 DEF UpdateEnsures, HeldTyped, SendTyped, CloseTyped
<1>13. ASSUME NEW u \in Upd, UpdateEnsured(u) PROVE TypeOK'
  <2>1. UpdateTyped'
    BY <1>13 DEF UpdateEnsured, Goes, UpdateTyped, LoopTyped, UpdState, Returned
  <2> QED
    BY <1>13, <2>1 DEF UpdateEnsured, LoopTyped, HeldTyped, SendTyped, CloseTyped
<1>14. ASSUME NEW u \in Upd, UpdateCaptures(u) PROVE TypeOK'
  <2>1. LoopTyped'
    BY <1>14, LoopReached DEF UpdateCaptures, LoopTyped, Loop
  <2>2. UpdateTyped'
    BY <1>14, LoopReached DEF UpdateCaptures, UpdateTyped, LoopTyped, UpdState, Returned, Loop
  <2> QED
    BY <1>14, <2>1, <2>2 DEF UpdateCaptures, HeldTyped, SendTyped, CloseTyped
<1>15. ASSUME NEW u \in Upd, UpdateLocks(u) PROVE TypeOK'
  <2>1. HeldTyped'
    BY <1>15, HeldMoves DEF UpdateLocks, Goes, HeldTyped, Thread
  <2>2. UpdateTyped'
    BY <1>15 DEF UpdateLocks, Goes, Takes, UpdateTyped, UpdState, Returned
  <2> QED
    BY <1>15, <2>1, <2>2 DEF UpdateLocks, LoopTyped, SendTyped, CloseTyped
<1>16. ASSUME NEW u \in Upd, UpdateDecides(u) PROVE TypeOK'
  <2>1. HeldTyped'
    BY <1>16, HeldMoves DEF UpdateDecides, Goes, HeldTyped, Thread
  <2>2. UpdateTyped'
    BY <1>16 DEF UpdateDecides, Goes, Takes, UpdateTyped, UpdState, Returned
  <2> QED
    BY <1>16, <2>1, <2>2 DEF UpdateDecides, LoopTyped, SendTyped, CloseTyped
<1>17. ASSUME NEW u \in Upd, UpdateDrives(u) PROVE TypeOK'
  <2>1. HeldTyped'
    BY <1>17, HeldMoves DEF UpdateDrives, Goes, HeldTyped, Thread
  <2>2. UpdateTyped'
    BY <1>17 DEF UpdateDrives, Goes, Takes, Drives, UpdateTyped, UpdState, Returned
  <2> QED
    BY <1>17, <2>1, <2>2 DEF UpdateDrives, LoopTyped, SendTyped, CloseTyped
<1>18. ASSUME NEW u \in Upd, UpdateEnds(u) PROVE TypeOK'
  <2>1. HeldTyped'
    BY <1>18, HeldMoves DEF UpdateEnds, Goes, HeldTyped, Thread
  <2>2. UpdateTyped'
    BY <1>18 DEF UpdateEnds, Goes, Takes, Drives, UpdateTyped, UpdState, Returned
  <2> QED
    BY <1>18, <2>1, <2>2 DEF UpdateEnds, LoopTyped, SendTyped, CloseTyped
<1>19. ASSUME NEW u \in Upd, UpdateAbandoned(u) PROVE TypeOK'
  <2>1. UpdateTyped'
    BY <1>19 DEF UpdateAbandoned, Goes, UpdateTyped, UpdState, Returned
  <2> QED
    BY <1>19, <2>1 DEF UpdateAbandoned, LoopTyped, HeldTyped, SendTyped, CloseTyped
<1>20. ASSUME CloseStarts PROVE TypeOK'
  <2>1. CloseTyped'
    BY <1>20 DEF CloseStarts, CloseTyped
  <2> QED
    BY <1>20, <2>1 DEF CloseStarts, LoopTyped, HeldTyped, SendTyped, UpdateTyped
<1>21. ASSUME CloseMarks PROVE TypeOK'
  <2>1. CloseTyped'
    BY <1>21 DEF CloseMarks, CloseTyped
  <2> QED
    BY <1>21, <2>1 DEF CloseMarks, LoopTyped, HeldTyped, SendTyped, UpdateTyped
<1>22. ASSUME TakeRunner PROVE TypeOK'
  <2>1. LoopTyped'
    BY <1>22 DEF TakeRunner, LoopTyped
  <2>2. CloseTyped'
    BY <1>22 DEF TakeRunner, CloseTyped
  <2> QED
    BY <1>22, <2>1, <2>2 DEF TakeRunner, HeldTyped, SendTyped, UpdateTyped
<1>23. ASSUME Snapshot PROVE TypeOK'
  <2>1. CloseTyped'
    BY <1>23 DEF Snapshot, Awaited, CloseTyped
  <2> QED
    BY <1>23, <2>1 DEF Snapshot, LoopTyped, HeldTyped, SendTyped, UpdateTyped
<1>24. ASSUME EndUpdates PROVE TypeOK'
  <2>1. UpdateTyped'
    BY <1>24 DEF EndUpdates, UpdateTyped, UpdState, Returned
  <2>2. CloseTyped'
    BY <1>24 DEF EndUpdates, CloseTyped
  <2> QED
    BY <1>24, <2>1, <2>2 DEF EndUpdates, LoopTyped, HeldTyped, SendTyped
<1>25. ASSUME AskStop PROVE TypeOK'
  <2>1. LoopTyped'
    BY <1>25 DEF AskStop, Alive, LoopTyped
  <2>2. CloseTyped'
    BY <1>25 DEF AskStop, Alive, CloseTyped
  <2> QED
    BY <1>25, <2>1, <2>2 DEF AskStop, HeldTyped, SendTyped, UpdateTyped
<1>26. ASSUME Join PROVE TypeOK'
  <2>1. LoopTyped'
    BY <1>26 DEF Join, LoopTyped
  <2>2. CloseTyped'
    BY <1>26 DEF Join, CloseTyped
  <2> QED
    BY <1>26, <2>1, <2>2 DEF Join, HeldTyped, SendTyped, UpdateTyped
<1>27. ASSUME CloseChecks PROVE TypeOK'
  <2>1. CloseTyped'
    BY <1>27 DEF CloseChecks, CloseTyped
  <2> QED
    BY <1>27, <2>1 DEF CloseChecks, LoopTyped, HeldTyped, SendTyped, UpdateTyped
<1>28. ASSUME DrainTurns PROVE TypeOK'
  <2>1. HeldTyped'
    BY <1>28, HeldMoves DEF DrainTurns, HeldTyped, Thread
  <2>2. CloseTyped'
    BY <1>28 DEF DrainTurns, Takes, Drives, CloseTyped
  <2> QED
    BY <1>28, <2>1, <2>2 DEF DrainTurns, LoopTyped, SendTyped, UpdateTyped
<1>29. ASSUME CloseRaises PROVE TypeOK'
  <2>1. CloseTyped'
    BY <1>29 DEF CloseRaises, CloseTyped
  <2> QED
    BY <1>29, <2>1 DEF CloseRaises, LoopTyped, HeldTyped, SendTyped, UpdateTyped
<1>30. ASSUME TurnEnds PROVE TypeOK'
  <2>1. CloseTyped'
    BY <1>30 DEF TurnEnds, CloseTyped
  <2> QED
    BY <1>30, <2>1 DEF TurnEnds, LoopTyped, HeldTyped, SendTyped, UpdateTyped
<1>31. ASSUME TearDown PROVE TypeOK'
  <2>1. LoopTyped'
    BY <1>31 DEF TearDown, Takes, Drives, Registered, LoopTyped
  <2>2. HeldTyped'
    BY <1>31, HeldMoves DEF TearDown, Registered, HeldTyped, Thread
  <2>3. SendTyped'
    BY <1>31 DEF TearDown, Takes, Drives, Registered, SendTyped, SendState, Undecided, Over
  <2>4. CloseTyped'
    BY <1>31 DEF TearDown, Takes, Drives, Registered, CloseTyped
  <2> QED
    BY <1>31, <2>1, <2>2, <2>3, <2>4 DEF TearDown, UpdateTyped
<1>32. ASSUME Forget PROVE TypeOK'
  <2>1. LoopTyped'
    BY <1>32 DEF Forget, LoopTyped
  <2>2. CloseTyped'
    BY <1>32 DEF Forget, CloseTyped
  <2> QED
    BY <1>32, <2>1, <2>2 DEF Forget, HeldTyped, SendTyped, UpdateTyped
<1>33. ASSUME CloseUnmarks PROVE TypeOK'
  <2>1. CloseTyped'
    BY <1>33 DEF CloseUnmarks, CloseTyped
  <2> QED
    BY <1>33, <2>1 DEF CloseUnmarks, LoopTyped, HeldTyped, SendTyped, UpdateTyped
<1>34. ASSUME CloseEnds PROVE TypeOK'
  <2>1. CloseTyped'
    BY <1>34 DEF CloseEnds, CloseTyped
  <2> QED
    BY <1>34, <2>1 DEF CloseEnds, LoopTyped, HeldTyped, SendTyped, UpdateTyped
<1>35. CASE UNCHANGED vars
  BY <1>35 DEF vars, LoopTyped, HeldTyped, SendTyped, UpdateTyped, CloseTyped
<1> QED
  BY <1>1, <1>2, <1>3, <1>4, <1>5, <1>6, <1>7, <1>8, <1>9, <1>10, <1>11, <1>12, <1>13, <1>14, <1>15, <1>16, <1>17, <1>18, <1>19, <1>20, <1>21, <1>22, <1>23, <1>24, <1>25, <1>26, <1>27, <1>28, <1>29, <1>30, <1>31, <1>32, <1>33, <1>34, <1>35, Zenon
     DEF Next, Threads, Sending, Updating, Closing

-----------------------------------------------------------------------------
(* What a step of one thread leaves to the others *)

(* No loop is closed, and the locks others hold stay theirs. *)
Keeps(t) ==
    /\ made <= made' /\ shut' = shut
    /\ \A l \in Loop, x \in Thread \ {t} : lock[l] = x => lock'[l] = x

LEMMA LocksKept ==
    ASSUME TypeOK, NEW t
    PROVE  /\ UNCHANGED lock => \A l \in Loop, x \in Thread \ {t} : lock[l] = x => lock'[l] = x
           /\ \A k, v : Takes(k, v) /\ lock[k] \in {NoOne, t} =>
                 \A l \in Loop, x \in Thread \ {t} : lock[l] = x => lock'[l] = x
  BY SendLoopAssumption DEF TypeOK, HeldTyped, Takes, Thread

LEMMA SendsKept ==
    ASSUME TypeOK, NEW t, Keeps(t), NEW s \in Send \ {t}, SendHolds(s),
           send'[s] = send[s], sloop'[s] = sloop[s], made' \in 0..MaxLoops
    PROVE  SendHolds(s)'
<1> USE SendLoopAssumption DEF TypeOK, LoopTyped
<1>1. send[s] \notin {"new", "refused"} => sloop[s] \in 1..made'
  BY DEF SendHolds, Keeps
<1>2. send[s] \in OnLoop => ~(sloop[s] <= shut')
  BY DEF SendHolds, Keeps, Closed
<1>3. send[s] \in Locking => lock'[sloop[s]] = s
  <2> HAVE send[s] \in Locking
  <2>1. send[s] \notin {"new", "refused"}
    BY DEF Locking
  <2> QED
    BY <2>1 DEF SendHolds, Keeps, Loop, Thread
<1> QED
  BY <1>1, <1>2, <1>3 DEF SendHolds, Closed

LEMMA UpdatesKept ==
    ASSUME TypeOK, NEW t, Keeps(t), NEW u \in Upd \ {t}, UpdateHolds(u),
           upd'[u] = upd[u], uloop'[u] = uloop[u], made' \in 0..MaxLoops
    PROVE  UpdateHolds(u)'
<1> USE SendLoopAssumption DEF TypeOK, LoopTyped, UpdateTyped
<1>1. uloop[u] <= made' /\ (upd[u] \in Locking \cup {"waiting"} => uloop[u] # 0)
  BY DEF UpdateHolds, Keeps
<1>2. ASSUME upd[u] \in Locking
      PROVE  ~(uloop[u] <= shut') /\ lock'[uloop[u]] = u
  BY <1>2 DEF UpdateHolds, Keeps, Closed, Loop, Thread
<1> QED
  BY <1>1, <1>2 DEF UpdateHolds, Closed

(* A step that may build a loop, and drives none that is closed. *)
LEMMA LoopsKept ==
    ASSUME TypeOK, Loops, cpc' = cpc, shut' = shut,
           main' = main \/ cpc = "idle",
           Reached \/ (made' = made /\ cur' = cur),
           \A l \in Loop : driver'[l] # NoOne => Running(l) \/ l > shut
    PROVE  Loops'
<1> USE SendLoopAssumption DEF TypeOK, LoopTyped, CloseTyped
<1>1. made' \in 0..MaxLoops /\ (made' # made => cur = 0 /\ made' = made + 1 /\ cur' = made')
      /\ (cur # 0 => cur' = cur) /\ (made' = made => cur' = cur)
  <2>1. CASE Reached
    BY <2>1, LoopReached DEF TheLoop
  <2>2. CASE made' = made /\ cur' = cur
    BY <2>2
  <2> QED
    BY <2>1, <2>2
<1>2. shut' = IF cur' = 0 \/ cpc' = "forgetting" THEN made' ELSE made' - 1
  <2>1. CASE made' = made
    BY <1>1, <2>1 DEF Loops
  <2>2. CASE made' # made
    <3>1. shut = made /\ cpc # "forgetting" /\ cur' # 0 /\ made' - 1 = made
      BY <1>1, <2>2 DEF Loops
    <3> QED
      BY <3>1
  <2> QED
    BY <2>1, <2>2
<1>3. cpc' \in {"locking", "turning", "finishing", "forgetting"} => cur' # 0
  BY <1>1 DEF Loops
<1>4. main' \in {"before", "holding"} => cpc' = "idle"
  BY DEF Loops
<1>5. \A l \in Loop : driver'[l] # NoOne => ~(l <= shut')
  BY DEF Loops, Closed, Loop
<1> QED
  <2>1. \A l \in Loop : Running(l)' => ~Closed(l)'
    BY <1>5 DEF Running, Closed
  <2> QED
    BY <1>2, <1>3, <1>4, <2>1, Zenon DEF Loops

LEMMA MarksKept ==
    ASSUME TypeOK, Loops, Marks, NEW t, t # "closer", Keeps(t),
           cpc' = cpc, closing' = closing, draining' = draining, cur # 0 => cur' = cur,
           \A s \in Send : send'[s] \in Locking \cup {"queued"} =>
               send[s] \in Locking \cup {"queued"} \/ ~closing
    PROVE  Marks'
<1> USE SendLoopAssumption DEF TypeOK, LoopTyped, CloseTyped
<1>1. cpc' \in {"turning", "finishing"} => lock'[cur'] = "closer"
  BY DEF Marks, Loops, Keeps, Loop, Thread
<1>2. closing' /\ ~draining' => \A s \in Send : send'[s] \notin Locking \cup {"queued"}
  BY DEF Marks
<1> QED
  BY <1>1, <1>2 DEF Marks

-----------------------------------------------------------------------------
(* The steps *)

(* A step of one sender, or of a thread that is none, gathered. *)
LEMMA SenderStep ==
    ASSUME IInv, [Next]_vars, NEW t, t # "closer", t \notin Upd, Keeps(t),
           UNCHANGED <<cpc, closing, draining, upd, uloop>>, main' = main \/ cpc = "idle",
           Reached \/ (made' = made /\ cur' = cur),
           \A l \in Loop : driver'[l] # NoOne => Running(l) \/ l > shut,
           \A r \in Send \ {t} : send'[r] = send[r] /\ sloop'[r] = sloop[r],
           t \in Send => SendHolds(t)'
               /\ (send'[t] \in Locking \cup {"queued"} =>
                      send[t] \in Locking \cup {"queued"} \/ ~closing)
    PROVE  IInv'
<1>1. TypeOK'
  BY Typed DEF IInv
<1>2. made' \in 0..MaxLoops /\ (cur # 0 => cur' = cur)
  BY <1>1, LoopReached DEF TypeOK, LoopTyped, IInv, TheLoop
<1>3. Loops'
  BY LoopsKept DEF IInv, Keeps
<1>4. Marks'
  <2>1. \A r \in Send : send'[r] \in Locking \cup {"queued"} =>
            send[r] \in Locking \cup {"queued"} \/ ~closing
    OBVIOUS
  <2> QED
    BY <1>2, <2>1, MarksKept DEF IInv
<1>5. ASSUME NEW r \in Send PROVE SendHolds(r)'
  BY <1>2, SendsKept DEF IInv
<1>6. ASSUME NEW u \in Upd PROVE UpdateHolds(u)'
  BY <1>2, UpdatesKept DEF IInv
<1> QED
  BY <1>1, <1>3, <1>4, <1>5, <1>6 DEF IInv

(* The same of a request. *)
LEMMA RequestStep ==
    ASSUME IInv, [Next]_vars, NEW u \in Upd, Keeps(u),
           UNCHANGED <<cpc, closing, draining, main, send, sloop>>,
           Reached \/ (made' = made /\ cur' = cur),
           \A l \in Loop : driver'[l] # NoOne => Running(l) \/ l > shut,
           \A r \in Upd \ {u} : upd'[r] = upd[r] /\ uloop'[r] = uloop[r],
           UpdateHolds(u)'
    PROVE  IInv'
<1>1. TypeOK'
  BY Typed DEF IInv
<1>2. made' \in 0..MaxLoops /\ (cur # 0 => cur' = cur) /\ u # "closer" /\ u \notin Send
  BY <1>1, LoopReached, SendLoopAssumption DEF TypeOK, LoopTyped, IInv, TheLoop
<1>3. Loops'
  BY LoopsKept DEF IInv, Keeps
<1>4. Marks'
  BY <1>2, MarksKept DEF IInv
<1>5. ASSUME NEW r \in Send PROVE SendHolds(r)'
  BY <1>2, SendsKept DEF IInv
<1>6. ASSUME NEW r \in Upd PROVE UpdateHolds(r)'
  BY <1>2, UpdatesKept DEF IInv
<1> QED
  BY <1>1, <1>3, <1>4, <1>5, <1>6 DEF IInv

LEMMA SenderKeeps ==
    ASSUME IInv, NEW s \in Send, Sending(s)
    PROVE  IInv'
<1>n. [Next]_vars /\ s # "closer" /\ s \notin Upd /\ s # NoOne
  BY SendLoopAssumption DEF Next, Threads
<1>h. SendHolds(s)
  BY DEF IInv
<1>l. ASSUME TypeOK PROVE LoopTyped /\ HeldTyped /\ SendTyped /\ UpdateTyped /\ CloseTyped
  BY <1>l DEF TypeOK
<1> USE SendLoopAssumption, <1>n
<1>1. CASE SendStarts(s)
  <2>1. Keeps(s)
    BY <1>1, LoopReached, LocksKept DEF IInv, TypeOK, LoopTyped, SendStarts, Keeps, SendHolds, Locking
  <2>2. \A l \in Loop : driver'[l] # NoOne => Running(l) \/ l > shut
    BY <1>1, <1>h DEF IInv, TypeOK, LoopTyped, HeldTyped, SendStarts, Drives, Running, SendHolds, OnLoop, Locking, Closed, Loop
  <2>3. SendHolds(s)'
    BY <1>1, <1>h, LoopReached DEF IInv, TypeOK, LoopTyped, HeldTyped, SendTyped, SendStarts, Moves, SendHolds, OnLoop, Locking, Closed, Loop, Loops
  <2> QED
    BY <1>1, <2>1, <2>2, <2>3, SenderStep DEF SendStarts, IInv, TypeOK, SendTyped, Moves, Locking
<1>2. CASE SendFromHandler(s)
  <2>1. Keeps(s)
    BY <1>2, LocksKept DEF IInv, TypeOK, LoopTyped, SendFromHandler, Keeps, SendHolds, Locking
  <2>2. \A l \in Loop : driver'[l] # NoOne => Running(l) \/ l > shut
    BY <1>2, <1>h DEF IInv, TypeOK, LoopTyped, HeldTyped, SendFromHandler, Drives, Running, SendHolds, OnLoop, Locking, Closed, Loop
  <2>3. SendHolds(s)'
    <3>1. PICK u \in Upd : /\ upd[u] \in {"waiting", "inline"} /\ Running(uloop[u])
                           /\ Moves(s, IF closing THEN "refused" ELSE "task")
                           /\ sloop' = [sloop EXCEPT ![s] = uloop[u]]
      BY <1>2 DEF SendFromHandler
    <3>2. uloop[u] \in 1..made /\ ~Closed(uloop[u])
      BY <3>1 DEF IInv, UpdateHolds, Locking, TypeOK, LoopTyped, UpdateTyped, Loops, Loop
    <3>3. send'[s] \in {"refused", "task"} /\ sloop'[s] = uloop[u] /\ UNCHANGED loops
      BY <1>2, <3>1 DEF SendFromHandler, Moves, IInv, TypeOK, SendTyped
    <3> QED
      BY <3>2, <3>3 DEF SendHolds, OnLoop, Locking, Closed
  <2> QED
    BY <1>2, <2>1, <2>2, <2>3, SenderStep DEF SendFromHandler, IInv, TypeOK, SendTyped, Moves, Locking
<1>3. CASE SendLocks(s)
  <2>1. Keeps(s)
    BY <1>3, LocksKept DEF IInv, TypeOK, LoopTyped, SendLocks, Keeps, SendHolds, Locking
  <2>2. \A l \in Loop : driver'[l] # NoOne => Running(l) \/ l > shut
    BY <1>3, <1>h DEF IInv, TypeOK, LoopTyped, HeldTyped, SendLocks, Drives, Running, SendHolds, OnLoop, Locking, Closed, Loop
  <2>3. SendHolds(s)'
    BY <1>3, <1>h DEF IInv, TypeOK, LoopTyped, HeldTyped, SendTyped, SendLocks, Moves, Takes, SendHolds, OnLoop, Locking, Closed, Loop, Loops
  <2> QED
    BY <1>3, <2>1, <2>2, <2>3, SenderStep DEF SendLocks, IInv, TypeOK, SendTyped, Moves, Locking
<1>4. CASE SendDecides(s)
  <2>1. Keeps(s)
    <3>1. lock[sloop[s]] = s
      BY <1>4, <1>h DEF SendDecides, SendHolds, Locking
    <3>2. UNCHANGED lock \/ Takes(sloop[s], NoOne)
      BY <1>4 DEF SendDecides
    <3>3. \A l \in Loop, x \in Thread \ {s} : lock[l] = x => lock'[l] = x
      BY <3>1, <3>2, LocksKept DEF IInv
    <3> QED
      BY <1>4, <3>3 DEF SendDecides, Keeps, IInv, TypeOK, LoopTyped
  <2>2. \A l \in Loop : driver'[l] # NoOne => Running(l) \/ l > shut
    BY <1>4, <1>h DEF IInv, TypeOK, LoopTyped, HeldTyped, SendDecides, Drives, Running, SendHolds, OnLoop, Locking, Closed, Loop
  <2>3. SendHolds(s)'
    BY <1>4, <1>h DEF IInv, TypeOK, LoopTyped, HeldTyped, SendTyped, SendDecides, Moves, Takes, SendHolds, OnLoop, Locking, Closed, Loop, Loops
  <2> QED
    BY <1>4, <2>1, <2>2, <2>3, SenderStep DEF SendDecides, IInv, TypeOK, SendTyped, Moves, Locking
<1>5. CASE SendDrives(s)
  <2>1. Keeps(s)
    <3>1. lock[sloop[s]] = s
      BY <1>5, <1>h DEF SendDrives, SendHolds, Locking
    <3>2. UNCHANGED lock \/ Takes(sloop[s], NoOne)
      BY <1>5 DEF SendDrives
    <3>3. \A l \in Loop, x \in Thread \ {s} : lock[l] = x => lock'[l] = x
      BY <3>1, <3>2, LocksKept DEF IInv
    <3> QED
      BY <1>5, <3>3 DEF SendDrives, Keeps, IInv, TypeOK, LoopTyped
  <2>2. \A l \in Loop : driver'[l] # NoOne => Running(l) \/ l > shut
    BY <1>5, <1>h DEF IInv, TypeOK, LoopTyped, HeldTyped, SendDrives, Drives, Running, SendHolds, OnLoop, Locking, Closed, Loop
  <2>3. SendHolds(s)'
    BY <1>5, <1>h DEF IInv, TypeOK, LoopTyped, HeldTyped, SendTyped, SendDrives, Moves, Takes, Drives, SendHolds, OnLoop, Locking, Closed, Loop, Loops
  <2> QED
    BY <1>5, <2>1, <2>2, <2>3, SenderStep DEF SendDrives, IInv, TypeOK, SendTyped, Moves, Locking
<1>6. CASE HandOffStarts(s)
  <2>1. Keeps(s)
    BY <1>6, LocksKept DEF IInv, TypeOK, LoopTyped, HandOffStarts, Keeps, SendHolds, Locking
  <2>2. \A l \in Loop : driver'[l] # NoOne => Running(l) \/ l > shut
    BY <1>6, <1>h DEF IInv, TypeOK, LoopTyped, HeldTyped, HandOffStarts, Drives, Running, SendHolds, OnLoop, Locking, Closed, Loop
  <2>3. SendHolds(s)'
    BY <1>6, <1>h DEF IInv, TypeOK, LoopTyped, HeldTyped, SendTyped, HandOffStarts, Moves, SendHolds, OnLoop, Locking, Closed, Loop, Loops
  <2> QED
    BY <1>6, <2>1, <2>2, <2>3, SenderStep DEF HandOffStarts, IInv, TypeOK, SendTyped, Moves, Locking
<1>7. CASE SendEnds(s)
  <2>1. Keeps(s)
    BY <1>7, LocksKept DEF IInv, TypeOK, LoopTyped, SendEnds, Keeps, SendHolds, Locking
  <2>2. \A l \in Loop : driver'[l] # NoOne => Running(l) \/ l > shut
    BY <1>7, <1>h DEF IInv, TypeOK, LoopTyped, HeldTyped, SendEnds, Drives, Running, SendHolds, OnLoop, Locking, Closed, Loop
  <2>3. SendHolds(s)'
    BY <1>7, <1>h DEF IInv, TypeOK, LoopTyped, HeldTyped, SendTyped, SendEnds, Moves, Takes, Drives, SendHolds, OnLoop, Locking, Closed, Loop, Loops
  <2> QED
    BY <1>7, <2>1, <2>2, <2>3, SenderStep DEF SendEnds, IInv, TypeOK, SendTyped, Moves, Locking
<1> QED
  BY <1>1, <1>2, <1>3, <1>4, <1>5, <1>6, <1>7 DEF Sending

LEMMA RequestKeeps ==
    ASSUME IInv, NEW u \in Upd, UpdateEnsures(u) \/ Updating(u) \/ UpdateAbandoned(u)
    PROVE  IInv'
<1>n. [Next]_vars /\ u # NoOne
  BY SendLoopAssumption DEF Next
<1>h. UpdateHolds(u)
  BY DEF IInv
<1> USE SendLoopAssumption, <1>n
<1>1. CASE UpdateEnsures(u)
  <2>1. Keeps(u)
    BY <1>1, <1>h, LoopReached, LocksKept DEF IInv, TypeOK, LoopTyped, UpdateEnsures, Keeps, UpdateHolds, Locking
  <2>2. \A l \in Loop : driver'[l] # NoOne => Running(l) \/ l > shut
    BY <1>1, <1>h DEF IInv, TypeOK, LoopTyped, HeldTyped, UpdateEnsures, Drives, Running, UpdateHolds, Locking, Closed, Loop
  <2>3. UpdateHolds(u)'
    BY <1>1, <1>h, LoopReached DEF IInv, TypeOK, LoopTyped, HeldTyped, UpdateTyped, UpdateEnsures, Goes, UpdateHolds, Locking, Closed, Loop, Loops
  <2> QED
    BY <1>1, <2>1, <2>2, <2>3, RequestStep DEF UpdateEnsures, IInv, TypeOK, UpdateTyped, Goes
<1>2. CASE UpdateEnsured(u)
  <2>1. Keeps(u)
    BY <1>2, <1>h, LocksKept DEF IInv, TypeOK, LoopTyped, UpdateEnsured, Keeps, UpdateHolds, Locking
  <2>2. \A l \in Loop : driver'[l] # NoOne => Running(l) \/ l > shut
    BY <1>2, <1>h DEF IInv, TypeOK, LoopTyped, HeldTyped, UpdateEnsured, Drives, Running, UpdateHolds, Locking, Closed, Loop
  <2>3. UpdateHolds(u)'
    BY <1>2, <1>h DEF IInv, TypeOK, LoopTyped, HeldTyped, UpdateTyped, UpdateEnsured, Goes, UpdateHolds, Locking, Closed, Loop, Loops
  <2> QED
    BY <1>2, <2>1, <2>2, <2>3, RequestStep DEF UpdateEnsured, IInv, TypeOK, UpdateTyped, Goes
<1>3. CASE UpdateCaptures(u)
  <2>1. Keeps(u)
    BY <1>3, <1>h, LoopReached, LocksKept DEF IInv, TypeOK, LoopTyped, UpdateCaptures, Keeps, UpdateHolds, Locking
  <2>2. \A l \in Loop : driver'[l] # NoOne => Running(l) \/ l > shut
    BY <1>3, <1>h DEF IInv, TypeOK, LoopTyped, HeldTyped, UpdateCaptures, Drives, Running, UpdateHolds, Locking, Closed, Loop
  <2>3. UpdateHolds(u)'
    BY <1>3, <1>h, LoopReached DEF IInv, TypeOK, LoopTyped, HeldTyped, UpdateTyped, UpdateCaptures, UpdateHolds, Locking, Closed, Loop, Loops
  <2> QED
    BY <1>3, <2>1, <2>2, <2>3, RequestStep DEF UpdateCaptures, IInv, TypeOK, UpdateTyped, Goes
<1>4. CASE UpdateLocks(u)
  <2>1. Keeps(u)
    BY <1>4, <1>h, LocksKept DEF IInv, TypeOK, LoopTyped, UpdateLocks, Keeps, UpdateHolds, Locking
  <2>2. \A l \in Loop : driver'[l] # NoOne => Running(l) \/ l > shut
    BY <1>4, <1>h DEF IInv, TypeOK, LoopTyped, HeldTyped, UpdateLocks, Drives, Running, UpdateHolds, Locking, Closed, Loop
  <2>3. UpdateHolds(u)'
    BY <1>4, <1>h DEF IInv, TypeOK, LoopTyped, HeldTyped, UpdateTyped, UpdateLocks, Goes, Takes, Refusing, UpdateHolds, Locking, Closed, Loop, Loops
  <2> QED
    BY <1>4, <2>1, <2>2, <2>3, RequestStep DEF UpdateLocks, IInv, TypeOK, UpdateTyped, Goes
<1>5. CASE UpdateDecides(u)
  <2>1. Keeps(u)
    <3>1. lock[uloop[u]] = u
      BY <1>5, <1>h DEF UpdateDecides, UpdateHolds, Locking
    <3>2. UNCHANGED lock \/ Takes(uloop[u], NoOne)
      BY <1>5 DEF UpdateDecides
    <3>3. \A l \in Loop, x \in Thread \ {u} : lock[l] = x => lock'[l] = x
      BY <3>1, <3>2, LocksKept DEF IInv
    <3> QED
      BY <1>5, <3>3 DEF UpdateDecides, Keeps, IInv, TypeOK, LoopTyped
  <2>2. \A l \in Loop : driver'[l] # NoOne => Running(l) \/ l > shut
    BY <1>5, <1>h DEF IInv, TypeOK, LoopTyped, HeldTyped, UpdateDecides, Drives, Running, UpdateHolds, Locking, Closed, Loop
  <2>3. UpdateHolds(u)'
    BY <1>5, <1>h DEF IInv, TypeOK, LoopTyped, HeldTyped, UpdateTyped, UpdateDecides, Goes, Takes, UpdateHolds, Locking, Closed, Loop, Loops
  <2> QED
    BY <1>5, <2>1, <2>2, <2>3, RequestStep DEF UpdateDecides, IInv, TypeOK, UpdateTyped, Goes
<1>6. CASE UpdateDrives(u)
  <2>1. Keeps(u)
    <3>1. lock[uloop[u]] = u
      BY <1>6, <1>h DEF UpdateDrives, UpdateHolds, Locking
    <3>2. UNCHANGED lock \/ Takes(uloop[u], NoOne)
      BY <1>6 DEF UpdateDrives
    <3>3. \A l \in Loop, x \in Thread \ {u} : lock[l] = x => lock'[l] = x
      BY <3>1, <3>2, LocksKept DEF IInv
    <3> QED
      BY <1>6, <3>3 DEF UpdateDrives, Keeps, IInv, TypeOK, LoopTyped
  <2>2. \A l \in Loop : driver'[l] # NoOne => Running(l) \/ l > shut
    BY <1>6, <1>h DEF IInv, TypeOK, LoopTyped, HeldTyped, UpdateDrives, Drives, Running, UpdateHolds, Locking, Closed, Loop
  <2>3. UpdateHolds(u)'
    BY <1>6, <1>h DEF IInv, TypeOK, LoopTyped, HeldTyped, UpdateTyped, UpdateDrives, Goes, Takes, Drives, UpdateHolds, Locking, Closed, Loop, Loops
  <2> QED
    BY <1>6, <2>1, <2>2, <2>3, RequestStep DEF UpdateDrives, IInv, TypeOK, UpdateTyped, Goes
<1>7. CASE UpdateEnds(u)
  <2>1. Keeps(u)
    BY <1>7, <1>h, LocksKept DEF IInv, TypeOK, LoopTyped, UpdateEnds, Keeps, UpdateHolds, Locking
  <2>2. \A l \in Loop : driver'[l] # NoOne => Running(l) \/ l > shut
    BY <1>7, <1>h DEF IInv, TypeOK, LoopTyped, HeldTyped, UpdateEnds, Drives, Running, UpdateHolds, Locking, Closed, Loop
  <2>3. UpdateHolds(u)'
    BY <1>7, <1>h DEF IInv, TypeOK, LoopTyped, HeldTyped, UpdateTyped, UpdateEnds, Goes, Takes, Drives, UpdateHolds, Locking, Closed, Loop, Loops
  <2> QED
    BY <1>7, <2>1, <2>2, <2>3, RequestStep DEF UpdateEnds, IInv, TypeOK, UpdateTyped, Goes
<1>8. CASE UpdateAbandoned(u)
  <2>1. Keeps(u)
    BY <1>8, <1>h, LocksKept DEF IInv, TypeOK, LoopTyped, UpdateAbandoned, Keeps, UpdateHolds, Locking
  <2>2. \A l \in Loop : driver'[l] # NoOne => Running(l) \/ l > shut
    BY <1>8, <1>h DEF IInv, TypeOK, LoopTyped, HeldTyped, UpdateAbandoned, Drives, Running, UpdateHolds, Locking, Closed, Loop
  <2>3. UpdateHolds(u)'
    BY <1>8, <1>h DEF IInv, TypeOK, LoopTyped, HeldTyped, UpdateTyped, UpdateAbandoned, Goes, UpdateHolds, Locking, Closed, Loop, Loops
  <2> QED
    BY <1>8, <2>1, <2>2, <2>3, RequestStep DEF UpdateAbandoned, IInv, TypeOK, UpdateTyped, Goes
<1> QED
  BY <1>1, <1>2, <1>3, <1>4, <1>5, <1>6, <1>7, <1>8 DEF Updating

LEMMA ThreadKeeps ==
    ASSUME IInv, MainHolds \/ MainEnds \/ RunnerStarts \/ RunnerStops
    PROVE  IInv'
<1>n. [Next]_vars /\ NoOne # "closer" /\ NoOne \notin Send \cup Upd
  BY SendLoopAssumption DEF Next, Threads
<1> USE SendLoopAssumption, <1>n
<1>1. CASE MainHolds
  <2>1. Keeps(NoOne)
    BY <1>1, LoopReached, LocksKept DEF IInv, TypeOK, LoopTyped, MainHolds, Keeps
  <2>2. \A l \in Loop : driver'[l] # NoOne => Running(l) \/ l > shut
    BY <1>1, LoopReached DEF IInv, TypeOK, LoopTyped, HeldTyped, MainHolds, Drives, Running, Closed, Loop, Loops, TheLoop
  <2> QED
    BY <1>1, <2>1, <2>2, SenderStep DEF MainHolds, IInv, Loops
<1>2. CASE MainEnds
  <2>1. Keeps(NoOne)
    BY <1>2, LocksKept DEF IInv, TypeOK, LoopTyped, MainEnds, Keeps
  <2>2. \A l \in Loop : driver'[l] # NoOne => Running(l) \/ l > shut
    BY <1>2 DEF IInv, TypeOK, LoopTyped, HeldTyped, MainEnds, Drives, Running, Closed, Loop, Loops, TheLoop
  <2> QED
    BY <1>2, <2>1, <2>2, SenderStep DEF MainEnds, IInv, Loops
<1>3. CASE RunnerStarts
  <2>1. Keeps(NoOne)
    BY <1>3, LocksKept DEF IInv, TypeOK, LoopTyped, RunnerStarts, Keeps
  <2>2. \A l \in Loop : driver'[l] # NoOne => Running(l) \/ l > shut
    BY <1>3 DEF IInv, TypeOK, LoopTyped, HeldTyped, RunnerStarts, Drives, Running, Closed, Loop, Loops, TheLoop
  <2> QED
    BY <1>3, <2>1, <2>2, SenderStep DEF RunnerStarts, IInv, Loops
<1>4. CASE RunnerStops
  <2>1. Keeps(NoOne)
    BY <1>4, LocksKept DEF IInv, TypeOK, LoopTyped, RunnerStops, Keeps
  <2>2. \A l \in Loop : driver'[l] # NoOne => Running(l) \/ l > shut
    BY <1>4 DEF IInv, TypeOK, LoopTyped, HeldTyped, RunnerStops, Drives, Running, Closed, Loop, Loops, TheLoop
  <2> QED
    BY <1>4, <2>1, <2>2, SenderStep DEF RunnerStops, IInv, Loops
<1> QED
  BY <1>1, <1>2, <1>3, <1>4

(* A step of close(), gathered. *)
LEMMA CloserStep ==
    ASSUME IInv, [Next]_vars, Keeps("closer"), Loops', Marks',
           UNCHANGED <<made, send, sloop, uloop>>,
           \A u \in Upd : upd'[u] = upd[u] \/ upd'[u] = "refused"
    PROVE  IInv'
<1>1. TypeOK' /\ made' \in 0..MaxLoops /\ "closer" \notin Send \cup Upd
  BY Typed, SendLoopAssumption DEF IInv, TypeOK, LoopTyped
<1>2. ASSUME NEW s \in Send PROVE SendHolds(s)'
  BY <1>1, SendsKept DEF IInv
<1>3. ASSUME NEW u \in Upd PROVE UpdateHolds(u)'
  <2>1. CASE upd'[u] = upd[u]
    BY <1>1, <2>1, UpdatesKept DEF IInv
  <2>2. CASE upd'[u] = "refused"
    BY <2>2 DEF IInv, UpdateHolds, Locking
  <2> QED
    BY <2>1, <2>2
<1> QED
  BY <1>1, <1>2, <1>3 DEF IInv

(* A send is on the last loop, or on none. *)
LEMMA NoneBehind ==
    ASSUME TypeOK, NEW s \in Send, SendHolds(s), cur # 0, cpc # "forgetting", Loops,
           send[s] \in OnLoop
    PROVE  sloop[s] = cur
  BY SendLoopAssumption
     DEF TypeOK, LoopTyped, SendTyped, SendHolds, OnLoop, Locking, Closed, Loops

LEMMA CloserKeeps ==
    ASSUME IInv, CloseStarts \/ Closing
    PROVE  IInv'
<1>n. [Next]_vars
  BY DEF Next, Threads
<1>t. LoopTyped /\ HeldTyped /\ CloseTyped
  BY DEF IInv, TypeOK
<1> USE SendLoopAssumption, <1>n, <1>t
<1>1. CASE CloseStarts
  <2>1. Keeps("closer")
    BY <1>1, LocksKept DEF CloseStarts, Keeps, IInv, LoopTyped
  <2>2. Loops'
    BY <1>1 DEF CloseStarts, Loops, IInv, Running, Closed, LoopTyped, HeldTyped, CloseTyped, Loop
  <2>3. Marks'
    BY <1>1 DEF CloseStarts, Loops, Marks, IInv, LoopTyped, HeldTyped, CloseTyped, Loop
  <2> QED
    BY <1>1, <2>1, <2>2, <2>3, CloserStep DEF CloseStarts, IInv, TypeOK, UpdateTyped
<1>2. CASE CloseMarks
  <2>1. Keeps("closer")
    BY <1>2, LocksKept DEF CloseMarks, Keeps, IInv, LoopTyped
  <2>2. Loops'
    BY <1>2 DEF CloseMarks, Loops, IInv, Running, Closed, LoopTyped, HeldTyped, CloseTyped, Loop
  <2>3. Marks'
    BY <1>2 DEF CloseMarks, Loops, Marks, IInv, LoopTyped, HeldTyped, CloseTyped, Loop
  <2> QED
    BY <1>2, <2>1, <2>2, <2>3, CloserStep DEF CloseMarks, IInv, TypeOK, UpdateTyped
<1>3. CASE TakeRunner
  <2>1. Keeps("closer")
    BY <1>3, LocksKept DEF TakeRunner, Keeps, IInv, LoopTyped
  <2>2. Loops'
    BY <1>3 DEF TakeRunner, Loops, IInv, Running, Closed, LoopTyped, HeldTyped, CloseTyped, Loop
  <2>3. Marks'
    BY <1>3 DEF TakeRunner, Loops, Marks, IInv, LoopTyped, HeldTyped, CloseTyped, Loop
  <2> QED
    BY <1>3, <2>1, <2>2, <2>3, CloserStep DEF TakeRunner, IInv, TypeOK, UpdateTyped
<1>4. CASE Snapshot
  <2>1. Keeps("closer")
    BY <1>4, LocksKept DEF Snapshot, Keeps, IInv, LoopTyped
  <2>2. Loops'
    BY <1>4 DEF Snapshot, Loops, IInv, Running, Closed, LoopTyped, HeldTyped, CloseTyped, Loop
  <2>3. Marks'
    BY <1>4 DEF Snapshot, Loops, Marks, IInv, LoopTyped, HeldTyped, CloseTyped, Loop
  <2> QED
    BY <1>4, <2>1, <2>2, <2>3, CloserStep DEF Snapshot, IInv, TypeOK, UpdateTyped
<1>5. CASE EndUpdates
  <2>1. Keeps("closer")
    BY <1>5, LocksKept DEF EndUpdates, Keeps, IInv, LoopTyped
  <2>2. Loops'
    BY <1>5 DEF EndUpdates, Loops, IInv, Running, Closed, LoopTyped, HeldTyped, CloseTyped, Loop
  <2>3. Marks'
    BY <1>5 DEF EndUpdates, Loops, Marks, IInv, LoopTyped, HeldTyped, CloseTyped, Loop
  <2> QED
    BY <1>5, <2>1, <2>2, <2>3, CloserStep DEF EndUpdates, IInv, TypeOK, UpdateTyped
<1>6. CASE AskStop
  <2>1. Keeps("closer")
    BY <1>6, LocksKept DEF AskStop, Keeps, IInv, LoopTyped
  <2>2. Loops'
    BY <1>6 DEF AskStop, Loops, IInv, Running, Closed, LoopTyped, HeldTyped, CloseTyped, Loop
  <2>3. Marks'
    BY <1>6 DEF AskStop, Loops, Marks, IInv, LoopTyped, HeldTyped, CloseTyped, Loop
  <2> QED
    BY <1>6, <2>1, <2>2, <2>3, CloserStep DEF AskStop, IInv, TypeOK, UpdateTyped
<1>7. CASE Join
  <2>1. Keeps("closer")
    BY <1>7, LocksKept DEF Join, Keeps, IInv, LoopTyped
  <2>2. Loops'
    BY <1>7 DEF Join, Loops, IInv, Running, Closed, LoopTyped, HeldTyped, CloseTyped, Loop
  <2>3. Marks'
    BY <1>7 DEF Join, Loops, Marks, IInv, LoopTyped, HeldTyped, CloseTyped, Loop
  <2> QED
    BY <1>7, <2>1, <2>2, <2>3, CloserStep DEF Join, IInv, TypeOK, UpdateTyped
<1>8. CASE CloseChecks
  <2>1. Keeps("closer")
    BY <1>8, LocksKept DEF CloseChecks, Keeps, IInv, LoopTyped
  <2>2. Loops'
    BY <1>8 DEF CloseChecks, Loops, IInv, Running, Closed, LoopTyped, HeldTyped, CloseTyped, Loop
  <2>3. Marks'
    BY <1>8 DEF CloseChecks, Loops, Marks, IInv, LoopTyped, HeldTyped, CloseTyped, Loop
  <2> QED
    BY <1>8, <2>1, <2>2, <2>3, CloserStep DEF CloseChecks, IInv, TypeOK, UpdateTyped
<1>9. CASE DrainTurns
  <2>1. Keeps("closer")
    BY <1>9, LocksKept DEF DrainTurns, Keeps, IInv, LoopTyped
  <2>2. Loops'
    BY <1>9 DEF DrainTurns, Loops, IInv, Running, Closed, LoopTyped, HeldTyped, CloseTyped, Loop, Takes, Drives
  <2>3. Marks'
    BY <1>9 DEF DrainTurns, Loops, Marks, IInv, LoopTyped, HeldTyped, CloseTyped, Loop, Takes, Drives
  <2> QED
    BY <1>9, <2>1, <2>2, <2>3, CloserStep DEF DrainTurns, IInv, TypeOK, UpdateTyped
<1>10. CASE CloseRaises
  <2>1. Keeps("closer")
    BY <1>10, LocksKept DEF CloseRaises, Keeps, IInv, LoopTyped
  <2>2. Loops'
    BY <1>10 DEF CloseRaises, Loops, IInv, Running, Closed, LoopTyped, HeldTyped, CloseTyped, Loop
  <2>3. Marks'
    BY <1>10 DEF CloseRaises, Loops, Marks, IInv, LoopTyped, HeldTyped, CloseTyped, Loop
  <2> QED
    BY <1>10, <2>1, <2>2, <2>3, CloserStep DEF CloseRaises, IInv, TypeOK, UpdateTyped
<1>11. CASE TurnEnds
  <2>1. Keeps("closer")
    BY <1>11, LocksKept DEF TurnEnds, Keeps, IInv, LoopTyped
  <2>2. Loops'
    BY <1>11 DEF TurnEnds, Loops, IInv, Running, Closed, LoopTyped, HeldTyped, CloseTyped, Loop
  <2>3. Marks'
    <3>1. cur = made /\ cur \in Loop /\ shut = made - 1 /\ lock[cur] = "closer"
      BY <1>11 DEF TurnEnds, Loops, Marks, IInv, LoopTyped, Loop
    <3>2. ASSUME NEW s \in Send PROVE send[s] \notin Locking \cup {"queued"}
      <4>1. send[s] \in OnLoop => sloop[s] = cur
        BY <1>11, <3>1, NoneBehind DEF TurnEnds, IInv, Loop
      <4>2. send[s] # "queued"
        BY <1>11, <4>1 DEF TurnEnds, Waits, OnLoop
      <4>3. send[s] \notin Locking
        BY <3>1, <4>1 DEF IInv, SendHolds, OnLoop
      <4> QED
        BY <4>2, <4>3
    <3> QED
      BY <1>11, <3>1, <3>2 DEF TurnEnds, Marks, IInv
  <2> QED
    BY <1>11, <2>1, <2>2, <2>3, CloserStep DEF TurnEnds, IInv, TypeOK, UpdateTyped
<1>12. CASE Forget
  <2>1. Keeps("closer")
    BY <1>12, LocksKept DEF Forget, Keeps, IInv, LoopTyped
  <2>2. Loops'
    BY <1>12 DEF Forget, Loops, IInv, Running, Closed, LoopTyped, HeldTyped, CloseTyped, Loop
  <2>3. Marks'
    BY <1>12 DEF Forget, Loops, Marks, IInv, LoopTyped, HeldTyped, CloseTyped, Loop
  <2> QED
    BY <1>12, <2>1, <2>2, <2>3, CloserStep DEF Forget, IInv, TypeOK, UpdateTyped
<1>13. CASE CloseUnmarks
  <2>1. Keeps("closer")
    BY <1>13, LocksKept DEF CloseUnmarks, Keeps, IInv, LoopTyped
  <2>2. Loops'
    BY <1>13 DEF CloseUnmarks, Loops, IInv, Running, Closed, LoopTyped, HeldTyped, CloseTyped, Loop
  <2>3. Marks'
    BY <1>13 DEF CloseUnmarks, Loops, Marks, IInv, LoopTyped, HeldTyped, CloseTyped, Loop
  <2> QED
    BY <1>13, <2>1, <2>2, <2>3, CloserStep DEF CloseUnmarks, IInv, TypeOK, UpdateTyped
<1>14. CASE CloseEnds
  <2>1. Keeps("closer")
    BY <1>14, LocksKept DEF CloseEnds, Keeps, IInv, LoopTyped
  <2>2. Loops'
    BY <1>14 DEF CloseEnds, Loops, IInv, Running, Closed, LoopTyped, HeldTyped, CloseTyped, Loop
  <2>3. Marks'
    BY <1>14 DEF CloseEnds, Loops, Marks, IInv, LoopTyped, HeldTyped, CloseTyped, Loop
  <2> QED
    BY <1>14, <2>1, <2>2, <2>3, CloserStep DEF CloseEnds, IInv, TypeOK, UpdateTyped
<1>15. CASE TearDown
  <2>1. /\ cur = made /\ cur \in Loop /\ shut' = cur /\ shut = made - 1 /\ lock[cur] = "closer"
        /\ \A s \in Send : send[s] \notin Locking \cup {"queued"}
    BY <1>15 DEF TearDown, Loops, Marks, IInv, LoopTyped, Loop
  <2>2. Loops'
    <3>1. \A l \in Loop : Running(l)' => ~Closed(l)'
      BY <1>15, <2>1 DEF TearDown, Drives, Loops, IInv, Running, Closed, LoopTyped, HeldTyped, Loop
    <3> QED
      BY <1>15, <2>1, <3>1 DEF TearDown, Loops, IInv
  <2>3. Marks'
    <3>1. \A s \in Send : send'[s] \notin Locking \cup {"queued"}
      BY <1>15, <2>1 DEF TearDown, Locking
    <3> QED
      BY <1>15, <3>1 DEF TearDown, Marks, IInv
  <2>4. ASSUME NEW s \in Send PROVE SendHolds(s)'
    <3>1. SendHolds(s) /\ send'[s] = IF s \in Registered(cur) THEN "cancelled" ELSE send[s]
      BY <1>15 DEF TearDown, IInv
    <3>2. send'[s] \notin OnLoop
      <4>1. send[s] \in OnLoop => send[s] = "task" /\ sloop[s] = cur
        BY <1>15, <2>1, NoneBehind DEF TearDown, IInv, OnLoop, Loop
      <4> QED
        BY <3>1, <4>1 DEF OnLoop, Locking, Registered
    <3> QED
      BY <1>15, <3>1, <3>2 DEF TearDown, SendHolds, OnLoop, Registered
  <2>5. ASSUME NEW u \in Upd PROVE UpdateHolds(u)'
    <3>1. UpdateHolds(u) /\ uloop[u] \in Nat
      BY DEF IInv, TypeOK, UpdateTyped
    <3>2. upd[u] \notin Locking
      <4>1. upd[u] \in Locking => uloop[u] = cur
        BY <2>1, <3>1 DEF UpdateHolds, Closed, LoopTyped
      <4> QED
        BY <2>1, <3>1, <4>1 DEF UpdateHolds
    <3> QED
      BY <1>15, <3>1, <3>2 DEF TearDown, UpdateHolds
  <2> QED
    BY <2>2, <2>3, <2>4, <2>5, Typed DEF IInv
<1> QED
  BY <1>1, <1>2, <1>3, <1>4, <1>5, <1>6, <1>7, <1>8, <1>9, <1>10, <1>11, <1>12, <1>13, <1>14, <1>15, Zenon DEF Closing

-----------------------------------------------------------------------------
(* The theorems *)

LEMMA StartsWell == Init => IInv
<1> SUFFICES ASSUME Init PROVE IInv
  OBVIOUS
<1>1. TypeOK
  BY StartsTyped
<1>2. Loops /\ Marks
  BY DEF Init, Loops, Marks, Running
<1>3. \A s \in Send : SendHolds(s)
  BY DEF Init, SendHolds, OnLoop, Locking
<1>4. \A u \in Upd : UpdateHolds(u)
  BY DEF Init, UpdateHolds, Locking
<1> QED
  BY <1>1, <1>2, <1>3, <1>4 DEF IInv

LEMMA StepKeeps == IInv /\ [Next]_vars => IInv'
<1> SUFFICES ASSUME IInv, [Next]_vars PROVE IInv'
  OBVIOUS
<1>1. ASSUME NEW s \in Send, Sending(s) PROVE IInv'
  BY <1>1, SenderKeeps
<1>2. ASSUME NEW u \in Upd, UpdateEnsures(u) \/ Updating(u) \/ UpdateAbandoned(u) PROVE IInv'
  BY <1>2, RequestKeeps
<1>3. CASE UNCHANGED vars
  BY <1>3 DEF vars, IInv, TypeOK, LoopTyped, HeldTyped, SendTyped, UpdateTyped, CloseTyped,
     Loops, Marks, SendHolds, UpdateHolds, Running, Closed
<1> QED
  BY <1>1, <1>2, <1>3, ThreadKeeps, CloserKeeps, Zenon DEF Next, Threads

(* A web process is the loop and its threads, with fewer steps enabled. *)
LEMMA WebStarts == WebInit => Init
  BY DEF WebInit

LEMMA WebSteps == [WebNext]_allVars => [Next]_vars
<1> SUFFICES ASSUME [WebNext]_allVars PROVE [Next]_vars
  OBVIOUS
<1>1. ASSUME NEW u \in Upd, Feeds(u) PROVE Next
  BY <1>1 DEF Feeds, Next
<1>2. UNCHANGED allVars => UNCHANGED vars
  BY DEF allVars
<1> QED
  BY <1>1, <1>2, Zenon DEF WebNext, Next, Threads

LEMMA Invariant == WebSpec => []IInv /\ [][Next]_vars
<1>1. Init /\ [][Next]_vars => []IInv
  BY StartsWell, StepKeeps, PTL
<1> QED
  BY <1>1, WebStarts, WebSteps, PTL DEF WebSpec

(* The state of a loop, its thread, its senders and requests and close()   *)
(* is what producer/client.py, looping.py and outbound.py can leave there. *)
THEOREM TypeCorrect == WebSpec => []TypeOK
<1>1. IInv => TypeOK
  BY DEF IInv
<1> QED
  BY <1>1, Invariant, PTL

(* No send that was handed to a loop is left on it once close() has taken  *)
(* the loop down (_drain under loop_lock, and the second look of _schedule *)
(* under the same lock), however often and under whatever sends, updates   *)
(* and loop threads close() is called.                                     *)
THEOREM NothingIsLost == WebSpec => []NothingLost
<1>1. IInv => NothingLost
  BY DEF IInv, NothingLost, SendHolds, OnLoop, Locking
<1> QED
  BY <1>1, Invariant, PTL

(* close() marks draining before closing and unmarks them in the reverse   *)
(* order, so a send handed over is started by whoever drives its loop and  *)
(* never refused by _hand_off.start.                                       *)
THEOREM HandOffsAreKept == WebSpec => HandOffKept
<1> DEFINE Kept == \A s \in Send : send[s] = "queued" => send'[s] # "refused"
<1>1. IInv /\ [Next]_vars => [Kept]_vars
  <2> SUFFICES ASSUME IInv, [Next]_vars, NEW s \in Send, send[s] = "queued",
                      send'[s] = "refused", vars' # vars
               PROVE  FALSE
    OBVIOUS
  <2>1. closing => draining
    BY DEF IInv, Marks
  <2>2. send' # send /\ SendTyped
    BY DEF IInv, TypeOK
  <2>3. ASSUME NEW r \in Send, Sending(r) PROVE FALSE
    BY <2>1, <2>2, <2>3 DEF Sending, SendStarts, SendFromHandler, SendLocks, SendDecides,
       SendDrives, HandOffStarts, SendEnds, Moves, SendTyped
  <2>4. ~TearDown
    BY <2>2 DEF TearDown
  <2> QED
    BY <2>2, <2>3, <2>4 DEF Next, Threads, Updating, Closing, MainHolds, MainEnds, RunnerStarts,
       RunnerStops, CloseStarts, CloseMarks, TakeRunner, Snapshot, EndUpdates, AskStop, Join,
       CloseChecks, DrainTurns, CloseRaises, TurnEnds, Forget, CloseUnmarks, CloseEnds,
       UpdateEnsures, UpdateEnsured, UpdateCaptures, UpdateLocks, UpdateDecides, UpdateDrives,
       UpdateEnds, UpdateAbandoned
<1> QED
  BY <1>1, Invariant, PTL DEF HandOffKept
=============================================================================
