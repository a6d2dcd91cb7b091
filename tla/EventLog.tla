------------------------------ MODULE EventLog ------------------------------
(***************************************************************************)
(* The recorder of the event log (eventlog/recorder.py): a bounded queue,  *)
(* the writer thread that drains it into the database, the ledger of what  *)
(* was dropped and the marks of who wrote (bookkeeping.py).                *)
(*                                                                         *)
(* Threads of the process record, flush, drain and stop the log in any     *)
(* order.  stop() detaches the queue and the next record() starts another  *)
(* with a writer of its own, so a queue is numbered, and its writer is the *)
(* thread of that number.  The log is on (EVENT_LOG) and keeps the kinds   *)
(* recorded.  A batch is a set: the order of its rows carries nothing.     *)
(***************************************************************************)
EXTENDS Integers, Sequences, FiniteSets

CONSTANTS
    Producers,    \* threads that record
    Operators,    \* threads that call flush(), drain_once() and stop()
    BufferSize,   \* EVENT_LOG_BUFFER_SIZE
    BatchSize,    \* EVENT_LOG_BATCH_SIZE
    FailureLimit, \* FAILURE_LIMIT
    MaxEvents,    \* bound: events recorded
    MaxBuffers,   \* bound: queues ever made
    MaxCalls,     \* bound: calls of flush(), drain_once() and stop()
    MaxFaults     \* bound: refused writes and threads that did not start

ASSUME EventLogAssumption ==
    /\ {BufferSize, BatchSize, FailureLimit, MaxBuffers} \subseteq Nat \ {0}
    /\ {MaxEvents, MaxCalls, MaxFaults} \subseteq Nat
    /\ IsFiniteSet(Producers \cup Operators)
    /\ (Producers \cup Operators) \cap (1..MaxBuffers) = {}

Event == 1..MaxEvents
Callers == Producers \cup Operators
Buffer == 1..MaxBuffers
LogThread == Buffer \cup Callers
None == 0
Nothing == -1
\* A queue holds events and the wakes of stop() and flush(). Nothing is said
\* of who is released by which wake, so they are all alike.
Wake == 0
Item == Event \cup {Wake}

\* A thread is in a call: putting its item, checking where it went, moving
\* the items of a detached queue, waiting, stopping; or in a flush of its own.
CallerState == {"idle", "put", "check", "rehome", "reput", "waking", "detached", "joining"}
WriterState == {"none", "collect", "exit", "done"}
Flushing == {"flush", "gap", "ack"}

VARIABLES
    live,     \* _queue: the buffer of the recorder
    opened,   \* queues made so far
    buf,      \* [Buffer -> its items]
    stopping, \* _stopping
    pc,       \* [LogThread -> where it is]
    into,     \* [Callers -> the queue the call looked up]
    from,     \* [Callers -> the detached queue a rehoming call empties]
    item,     \* [Callers -> the item it is putting]
    hand,     \* [LogThread -> events of its batch]
    woken,    \* [Buffer -> a wake ended the wait for its batch]
    snap,     \* [LogThread -> dropped_before]
    claimed,  \* [LogThread -> the count its gap row reports]
    failures, \* [Buffer -> failed flushes in a row]
    blocked,  \* [Buffer -> the writer is suspended]
    dropped,  \* the ledger's count
    gaps,     \* the sum of the gap rows
    rows,     \* events in the table
    lost,     \* events counted into the ledger
    phantom,  \* wakes counted into it
    marks,    \* the threads marked as having written
    adrift,   \* events a rehoming call put elsewhere, or left for want of a thread
    conns,    \* writers holding a database connection
    recorded, calls, faults

queues == <<live, opened, buf, stopping>>
call == <<into, from, item>>
batch == <<hand, woken, snap, claimed>>
health == <<failures, blocked>>
ledger == <<dropped, gaps, lost, phantom>>
marking == <<marks, conns>>
bounds == <<recorded, calls, faults>>
logVars == <<queues, pc, call, batch, health, ledger, rows, marking, adrift, bounds>>

LogTypeOK ==
    /\ live \in Buffer \cup {None} /\ opened \in 0..MaxBuffers /\ stopping \in BOOLEAN
    /\ \A b \in Buffer : buf[b] \in Seq(Item) /\ Len(buf[b]) <= BufferSize
    /\ \A c \in Callers : pc[c] \in CallerState \cup Flushing
    /\ \A b \in Buffer : pc[b] \in WriterState \cup Flushing
    /\ \A c \in Callers : into[c] \in Buffer \cup {None} /\ from[c] \in Buffer \cup {None}
    /\ \A c \in Callers : item[c] \in Item \cup {Nothing}
    /\ hand \in [LogThread -> SUBSET Event] /\ woken \in [Buffer -> BOOLEAN]
    /\ blocked \in [Buffer -> BOOLEAN]
    /\ snap \in [LogThread -> Nat] /\ claimed \in [LogThread -> Nat]
    /\ failures \in [Buffer -> 0..FailureLimit]
    /\ {dropped, gaps, phantom} \subseteq Nat /\ rows \subseteq Event /\ lost \subseteq Event
    /\ marks \subseteq LogThread /\ adrift \subseteq Event /\ conns \subseteq Buffer

LogInit ==
    /\ live = None /\ opened = 0 /\ buf = [b \in Buffer |-> <<>>] /\ stopping = FALSE
    /\ pc = [t \in LogThread |-> IF t \in Callers THEN "idle" ELSE "none"]
    /\ into = [c \in Callers |-> None] /\ from = [c \in Callers |-> None]
    /\ item = [c \in Callers |-> Nothing]
    /\ hand = [t \in LogThread |-> {}]
    /\ woken = [b \in Buffer |-> FALSE]
    /\ snap = [t \in LogThread |-> 0] /\ claimed = [t \in LogThread |-> 0]
    /\ failures = [b \in Buffer |-> 0] /\ blocked = [b \in Buffer |-> FALSE]
    /\ dropped = 0 /\ gaps = 0 /\ phantom = 0 /\ rows = {} /\ lost = {}
    /\ marks = {} /\ adrift = {} /\ conns = {}
    /\ recorded = 0 /\ calls = 0 /\ faults = 0

Becomes(t, state) == pc' = [pc EXCEPT ![t] = state]
Events(s) == {s[i] : i \in DOMAIN s} \ {Wake}

(* lost(), lost_quietly(): the count, under the ledger's lock. *)
Lost(events) == lost' = lost \cup events /\ dropped' = dropped + Cardinality(events)
Fault == faults < MaxFaults /\ faults' = faults + 1

----------------------------------------------------------------------------
(* record() *)

(* _buffer(): the live queue, or a new one with its writer. *)
LooksUp(c, then) ==
    /\ into' = [into EXCEPT ![c] = IF live # None THEN live ELSE opened + 1]
    /\ IF live # None
       THEN Becomes(c, then) /\ UNCHANGED <<live, opened, stopping>>
       ELSE /\ opened < MaxBuffers
            /\ opened' = opened + 1 /\ live' = opened + 1 /\ stopping' = FALSE
            /\ pc' = [pc EXCEPT ![c] = then, ![opened + 1] = "collect"]

(* The same call when no thread can be started: nothing is left behind,    *)
(* and what was to be queued is counted.                                   *)
CannotStart == live = None /\ opened < MaxBuffers /\ Fault

NextEvent == recorded + 1
Record(c) ==
    /\ pc[c] = "idle" /\ recorded < MaxEvents
    /\ recorded' = recorded + 1
    /\ LooksUp(c, "put")
    /\ item' = [item EXCEPT ![c] = NextEvent]
    /\ UNCHANGED <<adrift, buf, from, batch, health, ledger, rows, marking, calls, faults>>

RecordWithoutThread(c) ==
    /\ pc[c] = "idle" /\ recorded < MaxEvents
    /\ recorded' = recorded + 1
    /\ CannotStart /\ Lost({NextEvent})
    /\ UNCHANGED <<adrift, queues, pc, call, batch, health, gaps, phantom, rows, marking, calls>>

(* put_nowait: a full queue drops the event, whichever queue it is. *)
Put(c) ==
    /\ pc[c] = "put"
    /\ item' = [item EXCEPT ![c] = Nothing]
    /\ IF Len(buf[into[c]]) < BufferSize
       THEN /\ buf' = [buf EXCEPT ![into[c]] = Append(@, item[c])]
            /\ Becomes(c, "check")
            /\ UNCHANGED <<lost, dropped>>
       ELSE /\ Lost({item[c]})
            /\ Becomes(c, "idle")
            /\ UNCHANGED buf
    /\ UNCHANGED <<adrift, live, opened, stopping, into, from, batch, health, gaps, phantom,
                   rows, marking, bounds>>

(* The queue was detached between the lookup and the put. *)
NeverOrphan(c) == FALSE
Orphan(c) == live # into[c]
Check(c) ==
    /\ pc[c] = "check"
    /\ IF Orphan(c)
       THEN Becomes(c, "rehome") /\ from' = [from EXCEPT ![c] = into[c]]
       ELSE Becomes(c, "idle") /\ UNCHANGED from
    /\ into' = [into EXCEPT ![c] = None]
    /\ UNCHANGED <<adrift, queues, item, batch, health, ledger, rows, marking, bounds>>

(* _rehome(): one item of the detached queue after the other, to the live one. *)
RehomeDone(c) ==
    /\ pc[c] = "rehome" /\ buf[from[c]] = <<>>
    /\ Becomes(c, "idle")
    /\ from' = [from EXCEPT ![c] = None]
    /\ UNCHANGED <<adrift, queues, into, item, batch, health, ledger, rows, marking, bounds>>

RehomeTake(c) ==
    /\ pc[c] = "rehome" /\ buf[from[c]] # <<>>
    /\ item' = [item EXCEPT ![c] = Head(buf[from[c]])]
    /\ buf' = [buf EXCEPT ![from[c]] = Tail(@)]
    /\ LooksUp(c, "reput")
    /\ UNCHANGED <<adrift, from, batch, health, ledger, rows, marking, bounds>>

(* No thread for a queue to move to: the exception ends the call, with the *)
(* item counted, a wake's one too.                                         *)
RehomeWithoutThread(c) ==
    /\ pc[c] = "rehome" /\ buf[from[c]] # <<>>
    /\ CannotStart /\ dropped' = dropped + 1
    /\ LET x == Head(buf[from[c]]) IN
       IF x # Wake
       THEN lost' = lost \cup {x} /\ UNCHANGED phantom
       ELSE phantom' = phantom + 1 /\ UNCHANGED lost
    /\ buf' = [buf EXCEPT ![from[c]] = Tail(@)]
    /\ adrift' = adrift \cup Events(Tail(buf[from[c]]))
    /\ Becomes(c, "idle")
    /\ from' = [from EXCEPT ![c] = None]
    /\ UNCHANGED <<live, opened, stopping, into, item, batch, health, gaps, rows, marking,
                   recorded, calls>>

RehomePut(c) ==
    /\ pc[c] = "reput"
    /\ Becomes(c, "rehome")
    /\ item' = [item EXCEPT ![c] = Nothing] /\ into' = [into EXCEPT ![c] = None]
    /\ IF Len(buf[into[c]]) < BufferSize
       THEN /\ buf' = [buf EXCEPT ![into[c]] = Append(@, item[c])]
            /\ adrift' = adrift \cup Events(<<item[c]>>)
            /\ UNCHANGED <<lost, dropped>>
       ELSE /\ UNCHANGED <<buf, adrift>>
            /\ Lost({item[c]} \ {Wake})
    /\ UNCHANGED <<live, opened, stopping, from, batch, health, gaps, phantom, rows, marking,
                   bounds>>

----------------------------------------------------------------------------
(* The write *)

(* _write_half() and _write_row(): a batch the database refuses is halved, *)
(* and in the end saved row by row; what lands is some of it.              *)
RowByRow(events) == SUBSET events
(* _refused(): a batch of which nothing landed raises. *)
Refused(landed) == landed = {}

(* write_batch(): every row at once, or row by row, or an error after a    *)
(* commit the connection was lost before it could confirm.                 *)
Whole(events) == [landed |-> events, out |-> {}, raised |-> FALSE]
Unconfirmed(events) == [landed |-> events, out |-> events, raised |-> TRUE]
Partly(events) ==
    {[landed |-> part, out |-> events \ part, raised |-> Refused(part)] :
        part \in RowByRow(events) \ {events}}

(* _recycle(): a batch whose connection was dropped is tried once more on  *)
(* a fresh one; inside the caller's own transaction there is none, and the *)
(* retry has no more to write to than the first attempt had.               *)
Recycled(events, inBlock) ==
    IF inBlock
    THEN {[landed |-> {}, out |-> events, raised |-> TRUE]}
    ELSE {Whole(events), Unconfirmed(events)} \cup Partly(events)

Outcome(events, inBlock) == {Whole(events)} \cup Partly(events) \cup Recycled(events, inBlock)

Delivers(events, result) ==
    /\ IF result.out = {} THEN UNCHANGED faults ELSE Fault
    /\ rows' = rows \cup result.landed

(* EVENT_LOG_SYNC, outside a running loop (_write_here): the caller writes *)
(* the row, and forgets its mark.                                          *)
RecordHere(c) ==
    /\ pc[c] = "idle" /\ recorded < MaxEvents
    /\ recorded' = recorded + 1
    /\ \E inBlock \in BOOLEAN : \E result \in Outcome({NextEvent}, inBlock) :
        Delivers({NextEvent}, result) /\ Lost(result.out)
    /\ UNCHANGED <<adrift, queues, pc, call, batch, health, gaps, phantom, marking,
                   calls>>

(* A receiver of the batch calls stop() on the writer's own thread: the    *)
(* queue is detached, the wake stop() put is drained with the rest, and    *)
(* what was left is written or counted before the flush goes on. The mark  *)
(* stays: it is the writer's to take.                                      *)
StopMarks(b) == marks \cup {b}
InnerStop(b, left) ==
    /\ live = b /\ calls < MaxCalls
    /\ calls' = calls + 1
    /\ live' = None /\ stopping' = TRUE
    /\ buf' = [buf EXCEPT ![b] = <<>>]
    /\ left = Events(buf[b])
    /\ marks' = StopMarks(b)

NoStop(t, left) ==
    /\ left = {} /\ marks' = marks \cup {t}
    /\ UNCHANGED <<calls, live, stopping, buf>>

(* claim(): no more than is there, taken out before the row is written. *)
Least(m, n) == IF m < n THEN m ELSE n
ClaimsSnapshot(upto, count) == upto
Claimable(upto, count) == Least(upto, count)

(* _flush(): what did not land is counted, failures of a writer in a row   *)
(* suspend it, and a flush that worked claims the gap there was before it. *)
Claim(t, result) ==
    IF result.raised THEN 0 ELSE Claimable(snap[t], dropped + Cardinality(result.out))
Again(t, result) == t \in Buffer /\ result.raised /\ failures[t] + 1 < FailureLimit
Counts(t, result) ==
    /\ lost' = lost \cup result.out
    /\ dropped' = dropped + Cardinality(result.out) - Claim(t, result)
    /\ claimed' = [claimed EXCEPT ![t] = Claim(t, result)]
    /\ Becomes(t, IF Claim(t, result) = 0 THEN "ack" ELSE "gap")
    /\ failures' = [failures EXCEPT ![t] = IF Again(t, result) THEN @ + 1 ELSE 0]
    /\ blocked' = [blocked EXCEPT ![t] = result.raised /\ ~Again(t, result)]

Flushes(t) ==
    /\ pc[t] = "flush"
    /\ \E left \in SUBSET Event : \E result \in Outcome(hand[t] \cup left, FALSE) :
        /\ NoStop(t, left) \/ (t \in Buffer /\ InnerStop(t, left))
        /\ Delivers(hand[t] \cup left, result)
        /\ Counts(t, result)
    /\ hand' = [hand EXCEPT ![t] = {}]
    /\ conns' = conns \cup ({t} \cap Buffer)
    /\ UNCHANGED <<adrift, opened, call, woken, snap, gaps, phantom, recorded>>

(* The gap row lands, or the claim is given back. *)
Gap(t, lands) ==
    /\ pc[t] = "gap"
    /\ gaps' = IF lands THEN gaps + claimed[t] ELSE gaps
    /\ dropped' = IF lands THEN dropped ELSE dropped + claimed[t]
    /\ IF lands THEN UNCHANGED faults ELSE Fault
    /\ claimed' = [claimed EXCEPT ![t] = 0]
    /\ marks' = marks \cup {t}
    /\ Becomes(t, "ack")
    /\ UNCHANGED <<adrift, queues, call, hand, woken, snap, health, lost, phantom, rows, conns,
                   recorded, calls>>

----------------------------------------------------------------------------
(* The writer *)

(* _collect(): one item after the other, until the batch is full or a wake *)
(* ends the wait.                                                          *)
Collect(b) ==
    /\ pc[b] = "collect" /\ buf[b] # <<>>
    /\ Cardinality(hand[b]) < BatchSize /\ ~woken[b]
    /\ LET x == Head(buf[b]) IN
       /\ woken' = [woken EXCEPT ![b] = x = Wake]
       /\ hand' = [hand EXCEPT ![b] = @ \cup ({x} \ {Wake})]
    /\ buf' = [buf EXCEPT ![b] = Tail(@)]
    /\ UNCHANGED <<adrift, live, opened, stopping, pc, call, snap, claimed, health, ledger, rows,
                   marking, bounds>>

LeavesOnFlag(b) == buf[b] = <<>> /\ stopping
Leaves(b) == buf[b] = <<>> /\ (stopping \/ live # b)

(* The batch of _run(): nothing came and nothing ends the loop, and it     *)
(* waits again; a suspended writer discards; any other flushes.            *)
Collected(b) ==
    /\ pc[b] = "collect"
    /\ hand[b] # {} \/ woken[b] \/ Leaves(b)
    /\ IF blocked[b] \/ hand[b] = {}
       THEN /\ Lost(hand[b]) /\ Becomes(b, "ack")
            /\ hand' = [hand EXCEPT ![b] = {}]
            /\ UNCHANGED snap
       ELSE /\ Becomes(b, "flush")
            /\ snap' = [snap EXCEPT ![b] = dropped]
            /\ UNCHANGED <<lost, dropped, hand>>
    /\ UNCHANGED <<adrift, queues, call, woken, claimed, health, gaps, phantom, rows, marking,
                   bounds>>

(* FAILURE_BACKOFF has passed. *)
Unblock(b) ==
    /\ blocked[b]
    /\ blocked' = [blocked EXCEPT ![b] = FALSE]
    /\ UNCHANGED <<adrift, queues, pc, call, batch, failures, ledger, rows, marking, bounds>>

(* The waiters are released after the write; the loop ends when the queue  *)
(* is empty and nothing more will come.                                    *)
Ack(b) ==
    /\ pc[b] = "ack" /\ b \in Buffer
    /\ woken' = [woken EXCEPT ![b] = FALSE] /\ snap' = [snap EXCEPT ![b] = 0]
    /\ Becomes(b, IF Leaves(b) THEN "exit" ELSE "collect")
    /\ UNCHANGED <<adrift, queues, call, hand, claimed, health, ledger, rows, marking, bounds>>

(* _abandon(): what is in a queue nobody will drain again is written or    *)
(* counted; its wakes are acknowledged.                                    *)
Abandons(b) ==
    /\ buf' = [buf EXCEPT ![b] = <<>>]
    /\ \E result \in Outcome(Events(buf[b]), FALSE) :
        Delivers(Events(buf[b]), result) /\ Lost(result.out)

(* _close_connections(), by a writer that has written. *)
Releases(b) == IF b \in marks \/ Events(buf[b]) # {} THEN conns \ {b} ELSE conns

(* The writer's way out: the slot is cleared if it is still this writer's, *)
(* the queue is emptied, and the connection closed if the writer wrote.    *)
Exit(b) ==
    /\ pc[b] = "exit"
    /\ live' = IF live = b THEN None ELSE live
    /\ Abandons(b)
    /\ conns' = Releases(b)
    /\ marks' = marks \ {b}
    /\ Becomes(b, "done")
    /\ UNCHANGED <<adrift, opened, stopping, call, batch, health, gaps, phantom,
                   recorded, calls>>

----------------------------------------------------------------------------
(* stop(), flush() and drain_once() *)

Stop(c) ==
    /\ pc[c] = "idle" /\ live # None /\ calls < MaxCalls
    /\ calls' = calls + 1
    /\ into' = [into EXCEPT ![c] = live]
    /\ live' = None
    /\ Becomes(c, "detached")
    /\ UNCHANGED <<adrift, opened, buf, stopping, from, item, batch, health, ledger, rows, marking,
                   recorded, faults>>

(* Outside the guard: a record() in between has cleared the flag already.  *)
(* A full queue takes no wake.                                             *)
StopWakes(c) ==
    /\ pc[c] = "detached"
    /\ stopping' = TRUE
    /\ buf' = IF Len(buf[into[c]]) < BufferSize
              THEN [buf EXCEPT ![into[c]] = Append(@, Wake)] ELSE buf
    /\ Becomes(c, "joining")
    /\ UNCHANGED <<adrift, live, opened, call, batch, health, ledger, rows, marking, bounds>>

(* join(timeout): the writer is done, or it is left behind still running.  *)
(* The queue is drained either way.                                        *)
StopJoined(c) ==
    /\ pc[c] = "joining"
    /\ Abandons(into[c])
    /\ into' = [into EXCEPT ![c] = None]
    /\ Becomes(c, "idle")
    /\ UNCHANGED <<adrift, live, opened, stopping, from, item, batch, health, gaps, phantom,
                   marking,
                   recorded, calls>>

FlushLooks(c) ==
    /\ pc[c] = "idle" /\ live # None /\ calls < MaxCalls
    /\ calls' = calls + 1
    /\ into' = [into EXCEPT ![c] = live]
    /\ Becomes(c, "waking")
    /\ UNCHANGED <<adrift, queues, from, item, batch, health, ledger, rows, marking, recorded,
                   faults>>

(* The wake is queued behind what it waits for; without room there is no   *)
(* wait. The thread itself only waits, acknowledged or timed out.          *)
FlushPuts(c) ==
    /\ pc[c] = "waking"
    /\ buf' = IF Len(buf[into[c]]) < BufferSize
              THEN [buf EXCEPT ![into[c]] = Append(@, Wake)] ELSE buf
    /\ into' = [into EXCEPT ![c] = None]
    /\ Becomes(c, "idle")
    /\ UNCHANGED <<adrift, live, opened, stopping, from, item, batch, health, ledger, rows,
                   marking, bounds>>

(* Everything that is there, on the calling thread. *)
Drain(c) ==
    /\ pc[c] = "idle" /\ live # None /\ calls < MaxCalls /\ buf[live] # <<>>
    /\ calls' = calls + 1
    /\ hand' = [hand EXCEPT ![c] = Events(buf[live])]
    /\ buf' = [buf EXCEPT ![live] = <<>>]
    /\ snap' = [snap EXCEPT ![c] = IF hand'[c] = {} THEN 0 ELSE dropped]
    /\ Becomes(c, IF hand'[c] = {} THEN "ack" ELSE "flush")
    /\ UNCHANGED <<adrift, live, opened, stopping, call, woken, claimed, health, ledger, rows,
                   marking,
                   recorded, faults>>

Drained(c) ==
    /\ pc[c] = "ack" /\ c \in Callers
    /\ snap' = [snap EXCEPT ![c] = 0]
    /\ marks' = marks \ {c}
    /\ Becomes(c, "idle")
    /\ UNCHANGED <<adrift, queues, call, hand, woken, claimed, health, ledger, rows, conns, bounds>>

----------------------------------------------------------------------------
(* What a thread does once a call was made: it never waits for ever. *)
CallerStep(c) ==
    \/ Put(c) \/ Check(c)
    \/ RehomeDone(c) \/ RehomeTake(c) \/ RehomePut(c)
    \/ StopWakes(c) \/ StopJoined(c)
    \/ FlushPuts(c) \/ Drained(c)
WriterStep(b) == Collect(b) \/ Collected(b) \/ Ack(b) \/ Exit(b)
FlushStep(t) == Flushes(t) \/ \E lands \in BOOLEAN : Gap(t, lands)
Step(t) == FlushStep(t) \/ IF t \in Buffer THEN WriterStep(t) ELSE CallerStep(t)

LogNext ==
    \/ \E t \in LogThread : FlushStep(t)
    \/ \E b \in Buffer : WriterStep(b) \/ Unblock(b)
    \/ \E c \in Callers : CallerStep(c)
    \/ \E c \in Producers :
        Record(c) \/ RecordWithoutThread(c) \/ RecordHere(c) \/ RehomeWithoutThread(c)
    \/ \E c \in Operators : Stop(c) \/ FlushLooks(c) \/ Drain(c)

(* Threads run: a call that was made goes on, and so does a writer. *)
LogSpec == LogInit /\ [][LogNext]_logVars /\ \A t \in LogThread : WF_logVars(Step(t))

----------------------------------------------------------------------------
(* Properties *)

InQueue(e) == {b \in Buffer : e \in Events(buf[b])}
InHand(e) == {t \in LogThread : e \in hand[t] \/ (t \in Callers /\ item[t] = e)}
Places(e) == Cardinality(InQueue(e)) + Cardinality(InHand(e)) + (IF e \in lost THEN 1 ELSE 0)
WillLook(c, b) ==
    \/ into[c] = b /\ pc[c] \in {"check", "detached", "joining"}
    \/ from[c] = b /\ pc[c] \in {"rehome", "reput"}

(* No event vanishes without a row or a count: it is in one queue, in one  *)
(* thread's hand or in the ledger, or else in the table; and a queue whose *)
(* writer has gone is still looked at by a record() or a stop(). Left out  *)
(* are the events of _rehome(), which does not look again after its own    *)
(* put, and leaves what is behind a thread that would not start.           *)
NothingVanishes ==
    /\ \A e \in 1..recorded :
        /\ Places(e) <= 1
        /\ Places(e) = 0 => e \in rows
        /\ InQueue(e) # {} => e \notin rows
    /\ \A b \in Buffer :
        pc[b] = "done" /\ Events(buf[b]) \ adrift # {} => \E c \in Callers : WillLook(c, b)

Claims == UNION {{t} \X (1..claimed[t]) : t \in LogThread}   \* one by one

(* Every lost event is in the ledger, in the claim of one flush or in a    *)
(* gap row, once, however the flushes of two threads and the failures of   *)
(* their gap rows interleave (_record_gap, claim and give_back). Only a    *)
(* wake that found no thread to move to is counted as an event.            *)
GapsAddUp ==
    /\ dropped >= 0
    /\ dropped + gaps + Cardinality(Claims) = Cardinality(lost) + phantom

(* A mark is of a thread that is still at work, so no later thread of the  *)
(* same ident inherits it; and a writer that wrote has closed its          *)
(* connection when it is gone, stop() called by its own receiver included. *)
MarksTell ==
    /\ \A t \in marks : pc[t] \notin {"idle", "done", "none"}
    /\ \A b \in conns : pc[b] # "done"

(* A writer whose queue was taken away comes to its end, also when the     *)
(* wake meant for it was drained by somebody else and the flag it reads    *)
(* was cleared by the next writer's start (the check at the end of _run).  *)
(* It leaves no mark and no open connection behind.                        *)
WriterEnds == []MarksTell /\ <>[](\A b \in Buffer : pc[b] \in {"none", "done"} \/ live = b)
=============================================================================
