------------------------------- MODULE Delivery -------------------------------
(***************************************************************************)
(* The consumer of django_aiogram: consumer/delivery.py.                   *)
(*                                                                         *)
(* One consumer thread runs BlpopDelivery.run: collect the sends that are  *)
(* over, hold while every queue is at its budget, read, dispatch.  Around  *)
(* it the bot's event loop reports sends at moments of its own (OnComplete *)
(* and OnRefused), the supervisor's pass changes the queues served (Serve) *)
(* and asks for a stop, and the process may be killed at any point.        *)
(*                                                                         *)
(* The recursion between _hand_over and _hand_over_parked is a worklist:   *)
(* `todo` holds what the consumer's call stack has still to do, in order.  *)
(***************************************************************************)
EXTENDS Integers, Sequences, FiniteSets

CONSTANTS
    Msg,        \* the messages in the queues
    NoMsg,      \* no message
    Queue,      \* the queues of this transport
    Own,        \* the queue the broker addresses when no set is named
    Bot,        \* the bots messages are addressed to
    QueueOf,    \* QueueOf[m]: the queue m was published on
    BotOf,      \* BotOf[m]: the identity in m's envelope
    Verdict,    \* Verdict[m]: what dispatch may decide on reading m
    Configs,    \* the settings a process may start with
    MaxFaults   \* bound: failed calls and crashes in one behaviour

(* MAX_IN_FLIGHT and MAX_IN_FLIGHT_PER_BOT, 0 meaning no bound; whether the *)
(* handler takes on_complete; and the queue tuples serve() is called with.  *)
Config == [limit : Nat, perBot : Nat, defers : BOOLEAN,
           lanes : SUBSET (Seq(Queue) \ {<<>>})]

ASSUME MsgAssumption == NoMsg \notin Msg /\ IsFiniteSet(Msg)
ASSUME QueueAssumption ==
    /\ Own \in Queue
    /\ QueueOf \in [Msg -> Queue]
    /\ BotOf \in [Msg -> Bot]
    /\ Verdict \in [Msg -> (SUBSET {"deliver", "drop", "leave"}) \ {{}}]
ASSUME ConfigAssumption ==
    /\ MaxFaults \in Nat
    /\ Configs \subseteq Config

VARIABLES
    at,         \* at[m]: "waiting", "held" by this process, "left" by an
                \* earlier one (or by a reply that was lost), or "settled"
    done,       \* history: the messages whose handler is finished, or that
                \* dispatch decided to drop
    cfg,        \* self._limit, _per_bot_limit, _defers: read once per process
    served,     \* self.queues
    books,      \* the keys of self._in_flight
    inFlight,   \* self._in_flight, 0 for a queue with no entry
    sending,    \* self._sending, 0 for a bot with no entry
    parked,     \* self._parked
    finished,   \* self._finished, the settlements reported and not collected
    fate,       \* fate[m]: "open" while the settlement latch of m's send is
                \* free, then how it was taken: the send was "reported" over
                \* or the message "refused"; "lost" if nobody ever will
    book,       \* book[m]: on_queue of m's _Pending, the queue it is counted on
    pc, ret,    \* where the consumer thread is, and where `todo` returns to
    todo,       \* what the call stack below run() still has to do
    cur,        \* the message read and not yet dispatched
    asked,      \* the queues the read under way asks for
    stop,       \* self._stop
    reclaimed,  \* run()'s local of that name
    faults      \* failed calls and crashes so far

vars == <<at, done, cfg, served, books, inFlight, sending, parked, finished,
          fate, book, pc, ret, todo, cur, asked, stop, reclaimed, faults>>

loop == <<pc, ret, todo, cur, asked, stop, reclaimed>>

Ops == {"offer", "give", "ack"}
Labels == {"boot", "top", "collect", "work", "hold", "retry", "forget", "plan",
           "read", "dispatch", "room", "ended"}

TypeOK ==
    /\ at \in [Msg -> {"waiting", "held", "left", "settled"}]
    /\ done \subseteq Msg
    /\ cfg \in Configs
    /\ served \in cfg.lanes
    /\ books \subseteq Queue
    /\ inFlight \in [Queue -> Int]
    /\ sending \in [Bot -> Nat]
    /\ parked \in Seq(Msg)
    /\ finished \in Seq([msg : Msg, delivered : BOOLEAN])
    /\ fate \in [Msg -> {"none", "open", "reported", "refused", "lost"}]
    /\ book \in [Msg -> Queue]
    /\ pc \in Labels
    /\ ret \in {"hold", "top", "ended"}
    /\ todo \in Seq([op : Ops, msg : Msg])
    /\ cur \in IF pc \in {"dispatch", "room"} THEN Msg ELSE {NoMsg}
    /\ asked \subseteq Queue
    /\ stop \in BOOLEAN
    /\ reclaimed \in BOOLEAN
    /\ faults \in 0..MaxFaults

-----------------------------------------------------------------------------
(* Helpers *)

Entries(s) == {s[i] : i \in DOMAIN s}
Do(op, m) == [op |-> op, msg |-> m]
Offers(s) == [i \in 1..Len(s) |-> Do("offer", s[i])]

(* at_capacity(queue) and at_capacity(): the latter only where every queue *)
(* served is at its budget.                                                *)
AtCapacity(q) == cfg.limit # 0 /\ inFlight[q] >= cfg.limit
AllAtCapacity == \A q \in Entries(served) : AtCapacity(q)

(* _at_its_own_capacity *)
BotAtCapacity(b) == cfg.perBot # 0 /\ sending[b] >= cfg.perBot

(* _took_a_slot_back, on the queue the send was counted under *)
SlotBack(q, b) ==
    /\ inFlight' = [inFlight EXCEPT ![q] = IF q \in books THEN @ - 1 ELSE 0]
    /\ books' = books \cup {q}
    /\ sending' = [sending EXCEPT ![b] = IF @ > 0 THEN @ - 1 ELSE 0]

(* acknowledge: the broker's failure is logged and swallowed, and the      *)
(* message then stays with this worker until a restart reclaims it.        *)
Acknowledge(m) ==
    \/ /\ at' = [at EXCEPT ![m] = "settled"]
       /\ UNCHANGED faults
    \/ /\ faults < MaxFaults
       /\ faults' = faults + 1
       /\ UNCHANGED at

(* One settlement off self._finished: its slot comes back, and a delivered *)
(* one is acknowledged.                                                    *)
Settle ==
    /\ finished # <<>>
    /\ finished' = Tail(finished)
    /\ LET f == Head(finished)
       IN  /\ SlotBack(book[f.msg], BotOf[f.msg])
           /\ IF f.delivered THEN Acknowledge(f.msg)
                             ELSE UNCHANGED <<at, faults>>

-----------------------------------------------------------------------------
(* Starting *)

Init ==
    /\ at = [m \in Msg |-> "waiting"]
    /\ done = {}
    /\ faults = 0
    /\ cfg \in Configs /\ served \in cfg.lanes
    /\ books = Entries(served)
    /\ inFlight = [q \in Queue |-> 0]
    /\ sending = [b \in Bot |-> 0]
    /\ parked = <<>> /\ finished = <<>>
    /\ fate = [m \in Msg |-> "none"]
    /\ book = QueueOf
    /\ pc = "boot" /\ ret = "hold" /\ todo = <<>> /\ cur = NoMsg
    /\ asked = {} /\ stop = FALSE /\ reclaimed = FALSE

(* The process is killed, or has ended, and another is started: nothing of *)
(* this object survives, and what it held is left with the transport.      *)
Crash ==
    /\ faults < MaxFaults
    /\ faults' = faults + 1
    /\ at' = [m \in Msg |-> IF at[m] = "held" THEN "left" ELSE at[m]]
    /\ UNCHANGED done
    /\ cfg' \in Configs /\ served' \in cfg'.lanes
    /\ books' = Entries(served')
    /\ inFlight' = [q \in Queue |-> 0]
    /\ sending' = [b \in Bot |-> 0]
    /\ parked' = <<>> /\ finished' = <<>>
    /\ fate' = [m \in Msg |-> "none"]
    /\ book' = QueueOf
    /\ pc' = "boot" /\ ret' = "hold" /\ todo' = <<>> /\ cur' = NoMsg
    /\ asked' = {} /\ stop' = FALSE /\ reclaimed' = FALSE

-----------------------------------------------------------------------------
(* The consumer thread: BlpopDelivery.run *)

Goto(label) == pc' = label /\ UNCHANGED <<ret, todo, cur, stop, reclaimed>>

(* Mutant of Reclaim: puts every message back, settled ones too. *)
ReclaimEverything ==
    /\ pc \in {"boot", "retry"}
    /\ \/ /\ at' = [m \in Msg |-> "waiting"]
          /\ reclaimed' = TRUE
          /\ UNCHANGED faults
       \/ /\ faults < MaxFaults
          /\ faults' = faults + 1
          /\ UNCHANGED <<at, reclaimed>>
    /\ pc' = IF pc = "boot" THEN "top" ELSE "forget"
    /\ UNCHANGED <<done, cfg, served, books, inFlight, sending, parked, finished,
                   fate, book, ret, todo, cur, asked, stop>>

(* reclaim: once before the loop, and again on every turn until it worked. *)
Reclaim ==
    /\ pc \in {"boot", "retry"}
    /\ \/ /\ at' = [m \in Msg |-> IF at[m] = "left" THEN "waiting" ELSE at[m]]
          /\ reclaimed' = TRUE
          /\ UNCHANGED faults
       \/ /\ faults < MaxFaults
          /\ faults' = faults + 1
          /\ UNCHANGED <<at, reclaimed>>
    /\ pc' = IF pc = "boot" THEN "top" ELSE "forget"
    /\ UNCHANGED <<done, cfg, served, books, inFlight, sending, parked, finished,
                   fate, book, ret, todo, cur, asked, stop>>

(* The loop's condition; the collect that follows is the last one if the   *)
(* consumer was asked to stop.                                             *)
Top ==
    /\ pc = "top"
    /\ pc' = "collect"
    /\ ret' = IF stop THEN "ended" ELSE "hold"
    /\ UNCHANGED <<at, done, cfg, served, books, inFlight, sending, parked,
                   finished, fate, book, todo, cur, asked, stop, reclaimed, faults>>

(* collect: one settlement after another, and on an empty queue the parked *)
(* messages are walked.                                                    *)
CollectOne ==
    /\ pc = "collect"
    /\ Settle
    /\ UNCHANGED <<done, cfg, served, parked, fate, book, loop>>

CollectedAll ==
    /\ pc = "collect"
    /\ finished = <<>>
    /\ todo' = Offers(parked)
    /\ parked' = <<>>
    /\ pc' = "work"
    /\ UNCHANGED <<at, done, cfg, served, books, inFlight, sending, finished,
                   fate, book, ret, cur, asked, stop, reclaimed, faults>>

(* Mutant of HoldOne: a slot freed while holding is not offered to the parked messages. *)
HoldOneUnwalked ==
    /\ pc = "hold" /\ AllAtCapacity /\ ~stop
    /\ Settle
    /\ UNCHANGED todo
    /\ UNCHANGED parked
    /\ pc' = "work" /\ ret' = "hold"
    /\ UNCHANGED <<done, cfg, served, fate, book, cur, asked, stop, reclaimed>>

(* hold_for_capacity: wait for one settlement while every queue is at its  *)
(* budget, then walk the parked messages and look again.                   *)
HoldOne ==
    /\ pc = "hold" /\ AllAtCapacity /\ ~stop
    /\ Settle
    /\ todo' = Offers(parked)
    /\ parked' = <<>>
    /\ pc' = "work" /\ ret' = "hold"
    /\ UNCHANGED <<done, cfg, served, fate, book, cur, asked, stop, reclaimed>>

HeldEnough ==
    /\ pc = "hold" /\ (stop \/ ~AllAtCapacity)
    /\ pc' = IF stop THEN "collect" ELSE IF reclaimed THEN "forget" ELSE "retry"
    /\ ret' = IF stop THEN "ended" ELSE ret
    /\ UNCHANGED <<at, done, cfg, served, books, inFlight, sending, parked,
                   finished, fate, book, todo, cur, asked, stop, reclaimed, faults>>

(* _forget_retired *)
ForgetRetired ==
    /\ pc = "forget"
    /\ books' = {q \in books : q \in Entries(served) \/ inFlight[q] > 0}
    /\ inFlight' = [q \in Queue |-> IF q \in books' THEN inFlight[q] ELSE 0]
    /\ Goto("plan")
    /\ UNCHANGED <<at, asked, done, cfg, served, sending, parked, finished, fate,
                   book, faults>>

(* Mutant of Readable: queues at their budget are read too. *)
ReadableAll == Entries(served)

(* readable: None stands for the broker's own queue and is asked for       *)
(* whatever its budget; a named set loses the queues at their budget, and  *)
(* an empty answer is another turn of the loop.                            *)
Readable ==
    IF served = <<Own>> THEN {Own}
                        ELSE {q \in Entries(served) : ~AtCapacity(q)}

Plan ==
    /\ pc = "plan"
    /\ asked' = Readable
    /\ pc' = IF Readable = {} THEN "top" ELSE "read"
    /\ UNCHANGED <<at, done, cfg, served, books, inFlight, sending, parked,
                   finished, fate, book, ret, todo, cur, stop, reclaimed, faults>>

(* broker.take: a message of a queue asked for, or none in time; or it     *)
(* raises, before the transport recorded a take or after it did.           *)
Take(m) ==
    /\ pc = "read"
    /\ at[m] = "waiting" /\ QueueOf[m] \in asked
    /\ at' = [at EXCEPT ![m] = "held"]
    /\ cur' = m
    /\ asked' = {}
    /\ pc' = "dispatch"
    /\ UNCHANGED <<done, cfg, served, books, inFlight, sending, parked, finished,
                   fate, book, ret, todo, stop, reclaimed, faults>>

TakeNothing ==
    /\ pc = "read"
    /\ \A m \in Msg : at[m] = "waiting" => QueueOf[m] \notin asked
    /\ Goto("top")
    /\ asked' = {}
    /\ UNCHANGED <<at, done, cfg, served, books, inFlight, sending, parked,
                   finished, fate, book, faults>>

TakeFails ==
    /\ pc = "read"
    /\ faults < MaxFaults
    /\ faults' = faults + 1
    /\ \/ UNCHANGED at
       \/ \E m \in Msg : /\ at[m] = "waiting" /\ QueueOf[m] \in asked
                         /\ at' = [at EXCEPT ![m] = "left"]
    /\ Goto("top")
    /\ asked' = {}
    /\ UNCHANGED <<done, cfg, served, books, inFlight, sending, parked,
                   finished, fate, book>>

-----------------------------------------------------------------------------
(* dispatch and _hand_over *)

(* _queue_of, and the same fallback in dispatch itself: a queue with no    *)
(* books is counted under the first one served.                            *)
CountedUnder(m) == IF QueueOf[m] \in books THEN QueueOf[m] ELSE Head(served)

(* A message that cannot be read, names no Telegram method, or carries a   *)
(* control order is dropped: dispatch returns True and run acknowledges.   *)
Drop ==
    /\ pc = "dispatch" /\ "drop" \in Verdict[cur]
    /\ done' = done \cup {cur}
    /\ todo' = <<Do("ack", cur)>>
    /\ pc' = "work" /\ ret' = "top" /\ cur' = NoMsg
    /\ UNCHANGED <<at, cfg, served, books, inFlight, sending, parked, finished,
                   fate, book, asked, stop, reclaimed, faults>>

(* Pickle refused, an envelope from a newer version, or a bot this process *)
(* does not serve: dispatch returns False and the message is left alone.   *)
Leave ==
    /\ pc = "dispatch" /\ "leave" \in Verdict[cur]
    /\ fate' = [fate EXCEPT ![cur] = "refused"]
    /\ pc' = "top" /\ cur' = NoMsg
    /\ UNCHANGED <<at, done, cfg, served, books, inFlight, sending, parked,
                   finished, book, ret, todo, asked, stop, reclaimed, faults>>

(* _park: a bot at its budget keeps the message under a slot of the queue. *)
Park ==
    /\ pc = "dispatch" /\ "deliver" \in Verdict[cur]
    /\ BotAtCapacity(BotOf[cur]) /\ cfg.limit # 0
    /\ book' = [book EXCEPT ![cur] = CountedUnder(cur)]
    /\ inFlight' = [inFlight EXCEPT ![CountedUnder(cur)] = @ + 1]
    /\ books' = books \cup {CountedUnder(cur)}
    /\ parked' = Append(parked, cur)
    /\ pc' = "top" /\ cur' = NoMsg
    /\ UNCHANGED <<at, done, cfg, served, sending, finished, fate, ret, todo,
                   asked, stop, reclaimed, faults>>

(* _waited_for_room: with no budget on the queue, dispatch waits for a     *)
(* send of this bot to end rather than parking without a bound.            *)
AwaitRoom ==
    /\ pc = "dispatch" /\ "deliver" \in Verdict[cur]
    /\ BotAtCapacity(BotOf[cur]) /\ cfg.limit = 0
    /\ Goto("room")
    /\ UNCHANGED <<at, asked, done, cfg, served, books, inFlight, sending, parked,
                   finished, fate, book, faults>>

RoomOne ==
    /\ pc = "room" /\ BotAtCapacity(BotOf[cur]) /\ ~stop
    /\ Settle
    /\ UNCHANGED <<done, cfg, served, parked, fate, book, loop>>

RoomStopped ==
    /\ pc = "room" /\ stop
    /\ fate' = [fate EXCEPT ![cur] = "refused"]
    /\ pc' = "top" /\ cur' = NoMsg
    /\ UNCHANGED <<at, done, cfg, served, books, inFlight, sending, parked,
                   finished, book, ret, todo, asked, stop, reclaimed, faults>>

(* _hand_over of the message just read. *)
Give ==
    /\ \/ pc = "dispatch" /\ "deliver" \in Verdict[cur]
       \/ pc = "room" /\ ~stop
    /\ ~BotAtCapacity(BotOf[cur])
    /\ book' = [book EXCEPT ![cur] = CountedUnder(cur)]
    /\ todo' = <<Do("give", cur)>>
    /\ pc' = "work" /\ ret' = "top" /\ cur' = NoMsg
    /\ UNCHANGED <<at, done, cfg, served, books, inFlight, sending, parked,
                   finished, fate, asked, stop, reclaimed, faults>>

-----------------------------------------------------------------------------
(* The work left on the consumer's call stack *)

First == Head(todo)
Rest == Tail(todo)

(* acknowledge, as _hand_over_parked and run call it. *)
WorkAck ==
    /\ pc = "work" /\ todo # <<>> /\ First.op = "ack"
    /\ Acknowledge(First.msg)
    /\ todo' = Rest
    /\ UNCHANGED <<done, cfg, served, books, inFlight, sending, parked, finished,
                   fate, book, pc, ret, cur, asked, stop, reclaimed>>

(* _hand_over_parked keeps a message whose bot is still at its budget. *)
Repark ==
    /\ pc = "work" /\ todo # <<>> /\ First.op = "offer"
    /\ BotAtCapacity(BotOf[First.msg])
    /\ parked' = Append(parked, First.msg)
    /\ todo' = Rest
    /\ UNCHANGED <<at, done, cfg, served, books, inFlight, sending, finished,
                   fate, book, pc, ret, cur, asked, stop, reclaimed, faults>>

(* A message _hand_over is called with: a new one, or a parked one whose   *)
(* bot has room.                                                           *)
HandsOver ==
    /\ pc = "work" /\ todo # <<>>
    /\ \/ First.op = "give"
       \/ First.op = "offer" /\ ~BotAtCapacity(BotOf[First.msg])

(* Mutant of HandlerTook: the message is acknowledged when a deferring handler returns. *)
HandlerTookAndAcked ==
    /\ HandsOver /\ cfg.defers
    /\ LET m == First.msg
       IN  /\ fate' = [fate EXCEPT ![m] = "open"]
           /\ sending' = [sending EXCEPT ![BotOf[m]] = @ + 1]
           /\ IF First.op = "give"
              THEN /\ inFlight' = [inFlight EXCEPT ![book[m]] = @ + 1]
                   /\ books' = books \cup {book[m]}
              ELSE UNCHANGED <<inFlight, books>>
    /\ todo' = <<Do("ack", First.msg)>> \o Rest
    /\ UNCHANGED <<at, done, cfg, served, parked, finished, book, pc, ret, cur,
                   asked, stop, reclaimed, faults>>

(* The handler took the message and will report it.  A send that reports   *)
(* before the handler returns, or before it raises, is this step followed  *)
(* at once by OnComplete or OnRefused: the latch is then no longer free    *)
(* and _hand_over returns False either way.                                *)
HandlerTook ==
    /\ HandsOver /\ cfg.defers
    /\ LET m == First.msg
       IN  /\ fate' = [fate EXCEPT ![m] = "open"]
           /\ sending' = [sending EXCEPT ![BotOf[m]] = @ + 1]
           /\ IF First.op = "give"
              THEN /\ inFlight' = [inFlight EXCEPT ![book[m]] = @ + 1]
                   /\ books' = books \cup {book[m]}
              ELSE UNCHANGED <<inFlight, books>>
    /\ todo' = Rest
    /\ UNCHANGED <<at, done, cfg, served, parked, finished, book, pc, ret, cur,
                   asked, stop, reclaimed, faults>>

(* The handler raised with the latch still free.  The slot comes back at   *)
(* once, the parked messages are walked for the room it makes, and the     *)
(* message is acknowledged, unless the exception was a cancellation.       *)
HandlerRaised(cancelled) ==
    /\ HandsOver /\ cfg.defers
    /\ LET m == First.msg
           settled == IF cancelled THEN <<>> ELSE <<Do("ack", m)>>
       IN  /\ fate' = [fate EXCEPT ![m] = IF cancelled THEN "refused" ELSE "reported"]
           /\ done' = IF cancelled THEN done ELSE done \cup {m}
           /\ todo' = Offers(parked) \o settled \o Rest
           /\ IF First.op = "offer"
              THEN inFlight' = [inFlight EXCEPT ![book[m]] = @ - 1]
              ELSE UNCHANGED inFlight
           /\ books' = books \cup {book[m]}
    /\ parked' = <<>>
    /\ UNCHANGED <<at, cfg, served, sending, finished, book, pc, ret, cur,
                   asked, stop, reclaimed, faults>>

(* A handler that takes no on_complete keeps no books: it is acknowledged  *)
(* when it returns or raises, unless it was cancelled.                     *)
HandlerReturned(cancelled) ==
    /\ HandsOver /\ ~cfg.defers
    /\ LET m == First.msg
       IN  /\ fate' = [fate EXCEPT ![m] = IF cancelled THEN "refused" ELSE "reported"]
           /\ done' = IF cancelled THEN done ELSE done \cup {m}
           /\ todo' = IF cancelled THEN Rest ELSE <<Do("ack", m)>> \o Rest
    /\ UNCHANGED <<at, cfg, served, books, inFlight, sending, parked, finished,
                   book, pc, ret, cur, asked, stop, reclaimed, faults>>

WorkDone ==
    /\ pc = "work" /\ todo = <<>>
    /\ Goto(ret)
    /\ UNCHANGED <<at, asked, done, cfg, served, books, inFlight, sending, parked,
                   finished, fate, book, faults>>

-----------------------------------------------------------------------------
(* The event loop, the supervisor and the process *)

(* _completion_for and _release_for: whoever takes the latch first puts    *)
(* the one settlement of this send.                                        *)
OnComplete(m) ==
    /\ fate[m] = "open"
    /\ fate' = [fate EXCEPT ![m] = "reported"]
    /\ done' = done \cup {m}
    /\ finished' = Append(finished, [msg |-> m, delivered |-> TRUE])
    /\ UNCHANGED <<at, cfg, served, books, inFlight, sending, parked, book, loop,
                   faults>>

(* Mutant of OnRefused: the refusal takes the latch and puts no settlement. *)
OnRefusedSilent(m) ==
    /\ fate[m] = "open"
    /\ fate' = [fate EXCEPT ![m] = "refused"]
    /\ UNCHANGED <<at, done, cfg, served, books, inFlight, sending, parked, finished, book,
                   loop, faults>>

OnRefused(m) ==
    /\ fate[m] = "open"
    /\ fate' = [fate EXCEPT ![m] = "refused"]
    /\ finished' = Append(finished, [msg |-> m, delivered |-> FALSE])
    /\ UNCHANGED <<at, done, cfg, served, books, inFlight, sending, parked, book,
                   loop, faults>>

(* A send cancelled by the shutdown of its loop reports nothing. *)
CancelSend(m) ==
    /\ stop /\ fate[m] = "open"
    /\ fate' = [fate EXCEPT ![m] = "lost"]
    /\ UNCHANGED <<at, done, cfg, served, books, inFlight, sending, parked,
                   finished, book, loop, faults>>

(* serve, from the pass that noticed a queue arriving or leaving. *)
Serve(s) ==
    /\ s \in cfg.lanes /\ pc # "ended"
    /\ served' = s
    /\ books' = books \cup Entries(s)
    /\ UNCHANGED <<at, done, cfg, inFlight, sending, parked, finished, fate,
                   book, loop, faults>>

Stop ==
    /\ ~stop
    /\ stop' = TRUE
    /\ UNCHANGED <<at, done, cfg, served, books, inFlight, sending, parked,
                   finished, fate, book, pc, ret, todo, cur, asked, reclaimed, faults>>

(* A consumer that ended stays so until another process starts. *)
Ended == pc = "ended" /\ UNCHANGED vars

-----------------------------------------------------------------------------
(* Specification *)

Run ==
    \/ Reclaim \/ Top \/ CollectOne \/ CollectedAll \/ HoldOne \/ HeldEnough
    \/ ForgetRetired \/ Plan
    \/ (\E m \in Msg : Take(m)) \/ TakeNothing \/ TakeFails
    \/ Drop \/ Leave \/ Park \/ AwaitRoom \/ RoomOne \/ RoomStopped \/ Give
    \/ WorkAck \/ Repark \/ HandlerTook \/ WorkDone
    \/ \E cancelled \in BOOLEAN : HandlerRaised(cancelled) \/ HandlerReturned(cancelled)

Report(m) == OnComplete(m) \/ OnRefused(m)

Next ==
    \/ Run
    \/ \E m \in Msg : Report(m) \/ CancelSend(m)
    \/ \E s \in cfg.lanes : Serve(s)
    \/ Stop \/ Crash \/ Ended

(* The consumer thread is scheduled, and every send ends: the sender of a  *)
(* bot bounds its retries and its waits.  Nothing else is owed a step.     *)
Fairness ==
    /\ WF_vars(Run)
    /\ \A m \in Msg : WF_vars(Report(m))

Spec == Init /\ [][Next]_vars /\ Fairness

-----------------------------------------------------------------------------
(* Properties *)

(* A message leaves the transport only when its handler is finished with   *)
(* it or dispatch decided to drop it: neither a refusal, a cancellation, a *)
(* park, a full queue nor a settlement reported twice acknowledges it.     *)
NeverSettledUnsent == \A m \in Msg : at[m] = "settled" => m \in done

(* A message that holds one of its queue's slots: parked or being walked,  *)
(* with the handler, or reported and not collected.                        *)
Waiting(m) == m \in Entries(parked) \/ Do("offer", m) \in Entries(todo)
Sending(m) == fate[m] \in {"open", "lost"} \/ m \in {f.msg : f \in Entries(finished)}

(* Every slot counted belongs to exactly one message and every message that *)
(* holds one is counted, on the queue and on the bot, however sends end and *)
(* queues come and go: a slot given back twice would let the budget leak,   *)
(* and one never given back would stop the queue for good.                  *)
SlotsAccounted ==
    /\ \A q \in Queue : inFlight[q] =
          Cardinality({m \in Msg : (Waiting(m) \/ Sending(m)) /\ book[m] = q})
    /\ \A b \in Bot : sending[b] = Cardinality({m \in Msg : Sending(m) /\ BotOf[m] = b})

(* The lane may come down to the broker's own queue, which readable() asks *)
(* for without a look at its budget.                                       *)
MayShrink == <<Own>> \in cfg.lanes /\ cfg.lanes # {<<Own>>}

(* A queue never has more messages taken than MAX_IN_FLIGHT, parked ones   *)
(* included, nor a bot more sends than MAX_IN_FLIGHT_PER_BOT; but for the  *)
(* broker's own queue once others of its lane may be taken away.           *)
WithinBudget ==
    /\ cfg.limit # 0 => \A q \in Queue : inFlight[q] <= cfg.limit \/ (q = Own /\ MayShrink)
    /\ cfg.perBot # 0 => \A b \in Bot : sending[b] <= cfg.perBot

(* The books of the consumer are exact and within the budgets they keep:   *)
(* the limit is worth nothing once a slot is counted twice or not at all.  *)
BooksHold == SlotsAccounted /\ WithinBudget

(* A bot's messages reach its handler in the order they were taken: a      *)
(* message is handed over only while none of its bot's is parked.          *)
NoOvertaking ==
    [][\A m \in Msg : fate'[m] = "open" /\ fate[m] # "open" =>
          \A p \in Entries(parked) : BotOf[p] # BotOf[m]]_vars

(* A message waiting in a queue this consumer serves is taken, unless the  *)
(* queue is handed to somebody else or the consumer is asked to stop: no   *)
(* history of refusals, raises and full budgets leaves the loop waiting    *)
(* for a slot nothing will free.                                           *)
KeepsReading ==
    \A m \in Msg :
        (at[m] = "waiting" /\ QueueOf[m] \in Entries(served))
            ~> (at[m] # "waiting" \/ QueueOf[m] \notin Entries(served) \/ stop)

(* A message parked for a busy bot is handed over once the bot has room.   *)
ParkedIsHandedOver ==
    \A m \in Msg : (m \in Entries(parked)) ~> (fate[m] # "none" \/ at[m] # "held" \/ stop)

(* The consumer ends once it is asked to stop. *)
StopEnds == stop ~> (pc = "ended" \/ ~stop)

(* The loop never waits for what nothing will bring: while it runs it      *)
(* reads and hands over what it parked, and asked to stop it ends, even    *)
(* with every slot taken by sends that will not report any more.           *)
NeverStalls == KeepsReading /\ ParkedIsHandedOver /\ StopEnds

(* The consumer implements the transport's contract. *)
Contract == INSTANCE Transport WITH
    where <- [m \in Msg |-> IF at[m] \in {"held", "left"} THEN "taken" ELSE at[m]],
    answered <- done

Implements == Contract!Spec
=============================================================================
