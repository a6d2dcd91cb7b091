------------------------------ MODULE Outbound ------------------------------
(***************************************************************************)
(* A message from the call that makes it to the answer the feed gives for  *)
(* it: enqueue, send_many and their awaiting twins (producer/client.py),   *)
(* the write and its rows (queueing.py), the commit hook that may hold the *)
(* write (committing.py), the attempts of send_raw in the worker, and the  *)
(* outcome read back from the rows (eventlog/outcomes.py).                 *)
(*                                                                         *)
(* One thread of a web process makes the synchronous calls, in and out of  *)
(* transactions; coroutines make the awaiting ones, which have no block of *)
(* their own; one worker takes, sends, is stopped and crashes.  A chunk of *)
(* a fan-out is written, refused and recorded as a whole, so one message   *)
(* stands for it.  The rows of the web process reach the feed when its     *)
(* recorder flushes (module EventLog); the worker's, which only end the    *)
(* wait, reach it as they are recorded.                                    *)
(***************************************************************************)
EXTENDS Naturals, Sequences, FiniteSets

CONSTANTS
    Single,      \* calls of one message: send, enqueue or aenqueue
    Fanout,      \* calls of several chunks: send_many or asend_many
    Chunks,      \* how many chunks a fan-out is written in
    MaxRetries,  \* MAX_RETRIES
    MaxInFlight, \* MAX_IN_FLIGHT
    MaxFaults,   \* bound: failed writes and attempts, stops and crashes
    MaxBlocks    \* bound: transactions of the web thread

ASSUME OutboundAssumption ==
    /\ Chunks \in Nat \ {0} /\ MaxRetries \in Nat /\ MaxInFlight \in Nat \ {0}
    /\ MaxFaults \in Nat /\ MaxBlocks \in Nat
    /\ Single \cap Fanout = {}

Call == Single \cup Fanout
Size(c) == IF c \in Fanout THEN Chunks ELSE 1
Message == (Fanout \X (1..Chunks)) \cup (Single \X {1})
Process == {"web", "worker"}
\* The rows of a message. A drop is told apart by its detail: the stage that
\* lost it, the retries it used up, or the shutdown that refused it. The
\* "consumed" and "retried" rows, which can only make an answer "pending",
\* are one kind.
Kind == {"queued", "underway", "sent", "failed",
         "serialising", "queueing", "max_retries", "NotScheduled"}
Row == Message \X Kind
\* A call: not made, refused while disabled, writing at once, on a commit
\* hook, awaiting, over, or ended by an exception.
CallState == {"idle", "skipped", "open", "held", "async", "returned", "raised"}

VARIABLES
    transactional, \* TRANSACTIONAL
    raises,        \* RAISE_EXCEPTION
    enabled,       \* [Process -> ENABLED]
    wants,         \* EVENT_LOG and EVENT_LOG_KINDS: the kinds that are recorded
    block,         \* the web thread's transaction
    blocks,        \* how many it has opened
    hooks,         \* the calls whose hook is on the transaction, in order
    at,            \* [Call -> CallState]
    next,          \* [Call -> the chunk the call writes next]
    hookNext,      \* the chunk the running hook publishes next
    inside,        \* calls made in the open transaction, under TRANSACTIONAL
    undone,        \* calls made in one that was rolled back
    unhooked,      \* calls whose hook an earlier hook's exception took away
    queue,         \* messages waiting in the transport
    inflight,      \* messages the worker took and has not acknowledged
    published,     \* messages that ever reached the transport
    up,            \* the worker runs
    send,          \* [Message -> "none", "sending", "ended"]
    retries,       \* [Message -> attempts refused so far]
    buf,           \* rows the web process recorded and has not written
    feed,          \* rows in the table
    hurt,          \* messages whose send a crash cut short or undid
    faults

caller == <<block, blocks, hooks, at, next, hookNext, inside, undone, unhooked>>
worker == <<up, send, retries, inflight, hurt>>
vars == <<transactional, raises, enabled, wants, caller, queue, published, worker, buf, feed, faults>>
settings == <<transactional, raises, enabled, wants>>

None == "none"

TypeOK ==
    /\ transactional \in BOOLEAN /\ raises \in BOOLEAN /\ enabled \in [Process -> BOOLEAN]
    /\ wants \subseteq Kind
    /\ block \in {None, "atomic", "manual", "committing"} /\ blocks \in 0..MaxBlocks
    /\ hooks \in Seq(Call) /\ at \in [Call -> CallState]
    /\ next \in [Call -> 1..Chunks + 1] /\ hookNext \in 1..Chunks
    /\ inside \subseteq Call /\ undone \subseteq Call /\ unhooked \subseteq Call
    /\ queue \subseteq Message /\ inflight \subseteq Message /\ published \subseteq Message
    /\ up \in BOOLEAN /\ send \in [Message -> {None, "sending", "ended"}]
    /\ retries \in [Message -> 0..MaxRetries]
    /\ buf \subseteq Row /\ feed \subseteq Row
    /\ hurt \subseteq Message /\ faults \in 0..MaxFaults

\* RAISE_EXCEPTION only changes what a hook does, and there is none without
\* TRANSACTIONAL.
Init ==
    /\ transactional \in BOOLEAN /\ raises \in {FALSE, transactional}
    /\ enabled \in [Process -> BOOLEAN]
    /\ wants \in {Kind} \cup (IF transactional \/ ~enabled["web"] THEN {} ELSE {Kind \ {"queued"}})
    /\ block = None /\ blocks = 0 /\ hooks = <<>>
    /\ at = [c \in Call |-> "idle"] /\ next = [c \in Call |-> 1] /\ hookNext = 1
    /\ inside = {} /\ undone = {} /\ unhooked = {}
    /\ queue = {} /\ inflight = {} /\ published = {}
    /\ up = TRUE /\ send = [m \in Message |-> None] /\ retries = [m \in Message |-> 0]
    /\ buf = {} /\ feed = {} /\ hurt = {} /\ faults = 0

Fault == faults < MaxFaults /\ faults' = faults + 1
Wanted(rows) == {r \in rows : r[2] \in wants}
Records(rows) == buf' = buf \cup Wanted(rows)
Writes(rows) == feed' = feed \cup Wanted(rows)

----------------------------------------------------------------------------
(* The producer *)

(* publishing(): the row is written after the transport answered. A write  *)
(* that raised may have been applied all the same.                         *)
Publishing(m, result) ==
    /\ result \in {"written", "refused", "unsure"}
    /\ IF result = "written" THEN UNCHANGED faults ELSE Fault
    /\ LET lands == result # "refused" IN
       /\ queue' = IF lands THEN queue \cup {m} ELSE queue
       /\ published' = IF lands THEN published \cup {m} ELSE published
    /\ Records({<<m, IF result = "written" THEN "queued" ELSE "queueing">>})

(* serialise() raised: the chunk never left the process. *)
Unserialisable(m) ==
    /\ Fault
    /\ Records({<<m, "serialising">>})
    /\ UNCHANGED <<queue, published>>

(* A hook is wanted, and the commit that runs it is coming: not under      *)
(* manual transaction management, where leaving the block commits nothing. *)
WillCommit == block = "atomic"
DeferredNever == FALSE
Deferred == transactional /\ WillCommit

\* The web thread is in no call and runs no hooks.
Free == block # "committing" /\ \A c \in Call : at[c] \notin {"open", "held"}

Joins(c) == inside' = IF transactional /\ block = "atomic" THEN inside \cup {c} ELSE inside
Becomes(c, state) == at' = [at EXCEPT ![c] = state]
Reaches(c, state) ==
    /\ next' = [next EXCEPT ![c] = @ + 1]
    /\ Becomes(c, IF next[c] = Size(c) THEN "returned" ELSE state)

(* _accept, _accept_bulk: a disabled bot answers with ids and writes nothing. *)
Accepts == enabled["web"]
Skipped(c) ==
    /\ at[c] = "idle" /\ ~Accepts /\ Free
    /\ Becomes(c, "skipped")
    /\ UNCHANGED <<settings, block, blocks, hooks, next, hookNext, inside, undone, unhooked,
                   queue, published, worker, buf, feed, faults>>

(* queueing(): both halves of a write at once, where the caller stands.     *)
Queueing(c, state) ==
    LET m == <<c, next[c]>> IN
    \/ Unserialisable(m) /\ Becomes(c, "raised") /\ UNCHANGED next
    \/ \E result \in {"written", "refused", "unsure"} :
          /\ Publishing(m, result)
          /\ IF result = "written" THEN Reaches(c, state)
                                   ELSE Becomes(c, "raised") /\ UNCHANGED next

(* enqueue: one message, on the hook or written where the caller stands. *)
Enqueue(c) ==
    /\ c \in Single /\ at[c] = "idle" /\ Accepts /\ Free
    /\ \/ /\ Deferred
          /\ \/ /\ Unserialisable(<<c, 1>>) /\ Becomes(c, "raised")
                /\ UNCHANGED <<hooks, next>>
             \/ /\ hooks' = Append(hooks, c) /\ Reaches(c, "held")
                /\ UNCHANGED <<queue, published, buf, faults>>
       \/ ~Deferred /\ Queueing(c, "open") /\ UNCHANGED hooks
    /\ Joins(c)
    /\ UNCHANGED <<settings, block, blocks, hookNext, undone, unhooked, worker, feed>>

(* aenqueue: a coroutine has a connection of its own and is in no block. *)
AEnqueue(c) ==
    /\ c \in Single /\ at[c] = "idle" /\ Accepts
    /\ Queueing(c, "async")
    /\ UNCHANGED <<settings, block, blocks, hooks, hookNext, inside, undone, unhooked, worker, feed>>

(* send_many and asend_many decide once for the batch, before the first    *)
(* chunk, and hand the hook a list that is still empty.                    *)
SendManyStarts(c) ==
    /\ c \in Fanout /\ at[c] = "idle" /\ Accepts /\ Free
    /\ Becomes(c, IF Deferred THEN "held" ELSE "open")
    /\ hooks' = IF Deferred THEN Append(hooks, c) ELSE hooks
    /\ Joins(c)
    /\ UNCHANGED <<settings, block, blocks, next, hookNext, undone, unhooked,
                   queue, published, worker, buf, feed, faults>>

ASendManyStarts(c) ==
    /\ c \in Fanout /\ at[c] = "idle" /\ Accepts
    /\ Becomes(c, "async")
    /\ UNCHANGED <<settings, block, blocks, hooks, next, hookNext, inside, undone, unhooked,
                   queue, published, worker, buf, feed, faults>>

(* One chunk written where the call stands, by either twin. *)
WritesChunk(c, state) ==
    /\ at[c] = state
    /\ Queueing(c, state)
    /\ UNCHANGED <<settings, block, blocks, hooks, hookNext, inside, undone, unhooked, worker, feed>>

SendManyWrites(c) == WritesChunk(c, "open")
ASendManyWrites(c) == WritesChunk(c, "async")

(* One chunk left on the hook that already exists. *)
SendManyHolds(c) ==
    /\ at[c] = "held"
    /\ \/ Unserialisable(<<c, next[c]>>) /\ Becomes(c, "raised") /\ UNCHANGED next
       \/ Reaches(c, "held") /\ UNCHANGED <<queue, published, buf, faults>>
    /\ UNCHANGED <<settings, block, blocks, hooks, hookNext, inside, undone, unhooked, worker, feed>>

(* The caller's transaction. A call that raised leaves it to the caller    *)
(* whether the block commits. A block entered while autocommit is off is   *)
(* "manual".                                                               *)
EnterBlock(kind) ==
    /\ block = None /\ Free /\ blocks < MaxBlocks
    /\ block' = kind /\ blocks' = blocks + 1
    /\ UNCHANGED <<settings, hooks, at, next, hookNext, inside, undone, unhooked,
                   queue, published, worker, buf, feed, faults>>

Commit ==
    /\ block \in {"atomic", "manual"} /\ Free
    /\ block' = IF block = "atomic" /\ hooks # <<>> THEN "committing" ELSE None
    /\ inside' = {}
    /\ UNCHANGED <<settings, blocks, hooks, at, next, hookNext, undone, unhooked,
                   queue, published, worker, buf, feed, faults>>

Rollback ==
    /\ block \in {"atomic", "manual"} /\ Free
    /\ block' = None /\ hooks' = <<>>
    /\ inside' = {} /\ undone' = undone \cup inside
    /\ UNCHANGED <<settings, blocks, at, next, hookNext, unhooked,
                   queue, published, worker, buf, feed, faults>>

Held(c) == next[c] - 1

(* A hook that goes on past a refused chunk. *)
HookGoesOn ==
    /\ block = "committing" /\ hooks # <<>>
    /\ LET c == Head(hooks) IN
       /\ Held(c) > 0
       /\ \E result \in {"written", "refused", "unsure"} : Publishing(<<c, hookNext>>, result)
       /\ IF hookNext = Held(c) THEN hookNext' = 1 /\ hooks' = Tail(hooks)
                                ELSE hookNext' = hookNext + 1 /\ UNCHANGED hooks
    /\ block' = IF hooks' = <<>> THEN None ELSE block
    /\ UNCHANGED <<settings, blocks, at, next, inside, undone, unhooked, worker, feed>>

(* publish_after_commit, one chunk: a refusal ends this hook and, where    *)
(* RAISE_EXCEPTION lets it out, every hook behind it.                      *)
HookPublishes ==
    /\ block = "committing" /\ hooks # <<>>
    /\ LET c == Head(hooks)
           over == hookNext' = 1 /\ hooks' = Tail(hooks) /\ UNCHANGED unhooked
       IN \/ /\ Held(c) = 0 /\ over
             /\ UNCHANGED <<queue, published, buf, faults>>
          \/ /\ Held(c) > 0
             /\ \E result \in {"written", "refused", "unsure"} :
                   /\ Publishing(<<c, hookNext>>, result)
                   /\ IF result = "written"
                      THEN IF hookNext = Held(c) THEN over
                           ELSE hookNext' = hookNext + 1 /\ UNCHANGED <<hooks, unhooked>>
                      ELSE IF ~raises THEN over
                           ELSE /\ hookNext' = 1 /\ hooks' = <<>>
                                /\ unhooked' = unhooked \cup {hooks[i] : i \in 2..Len(hooks)}
    /\ block' = IF hooks' = <<>> THEN None ELSE block
    /\ UNCHANGED <<settings, blocks, at, next, inside, undone, worker, feed>>

----------------------------------------------------------------------------
(* The worker *)

Sends(m, state) == send' = [send EXCEPT ![m] = state]
SendRaw(m) == IF enabled["worker"] THEN Sends(m, "sending") ELSE UNCHANGED send
Cancelled == {m \in Message : send[m] = "sending"}

(* send() inside the bot container calls send_raw, on no queue. *)
SendDirect(c) ==
    /\ c \in Single /\ at[c] = "idle" /\ up
    /\ Becomes(c, IF enabled["worker"] THEN "returned" ELSE "skipped")
    /\ SendRaw(<<c, 1>>)
    /\ UNCHANGED <<settings, block, blocks, hooks, next, hookNext, inside, undone, unhooked, queue,
                   published, up, retries, inflight, hurt, buf, feed, faults>>

(* The consumer takes the message and hands it to send_raw, which refuses  *)
(* it outright while the bot is disabled: it stays in flight, unsent.      *)
Take(m) ==
    /\ up /\ m \in queue
    /\ Cardinality({x \in inflight : send[x] # None}) < MaxInFlight
    /\ queue' = queue \ {m} /\ inflight' = inflight \cup {m}
    /\ Writes({<<m, "underway">>})
    /\ SendRaw(m)
    /\ UNCHANGED <<settings, caller, published, up, retries, hurt, buf, faults>>

(* One attempt of send_raw: sent, refused for good, or asked to wait.      *)
(* Running out of retries is an ending of its own.                         *)
Attempt(m) ==
    /\ up /\ send[m] = "sending"
    /\ \/ /\ Writes({<<m, "sent">>}) /\ Sends(m, "ended")
          /\ UNCHANGED <<retries, faults>>
       \/ /\ Fault /\ Writes({<<m, "failed">>}) /\ Sends(m, "ended")
          /\ UNCHANGED retries
       \/ /\ retries[m] < MaxRetries
          /\ Writes({<<m, "underway">>})
          /\ retries' = [retries EXCEPT ![m] = @ + 1] /\ UNCHANGED <<send, faults>>
       \/ /\ retries[m] = MaxRetries
          /\ Fault /\ Writes({<<m, "underway">>, <<m, "max_retries">>})
          /\ Sends(m, "ended") /\ UNCHANGED retries
    /\ UNCHANGED <<settings, caller, queue, published, up, inflight, hurt, buf>>

(* completion(), and the acknowledgement the consumer makes of it. *)
Settle(m) ==
    /\ up /\ send[m] = "ended"
    /\ Sends(m, None) /\ inflight' = inflight \ {m}
    /\ retries' = [retries EXCEPT ![m] = 0]
    /\ UNCHANGED <<settings, caller, queue, published, up, hurt, buf, feed, faults>>

(* close(): what outlasts the drain is cancelled, said so in a row and     *)
(* left in flight.                                                         *)
Stop ==
    /\ up /\ \A m \in Message : send[m] # "ended"
    /\ up' = FALSE /\ send' = [m \in Message |-> None]
    /\ retries' = [m \in Message |-> 0]
    /\ Writes({<<m, "NotScheduled">> : m \in Cancelled})
    /\ Fault
    /\ UNCHANGED <<settings, caller, queue, published, inflight, hurt, buf>>

Crash ==
    /\ up /\ Fault
    /\ up' = FALSE /\ send' = [m \in Message |-> None]
    /\ retries' = [m \in Message |-> 0]
    /\ hurt' = hurt \cup {m \in Message : send[m] # None}
    /\ UNCHANGED <<settings, caller, queue, published, inflight, buf, feed>>

(* The next start reclaims what the last one held. *)
Start ==
    /\ ~up /\ up' = TRUE
    /\ queue' = queue \cup inflight /\ inflight' = {}
    /\ UNCHANGED <<settings, caller, published, send, retries, hurt, buf, feed, faults>>

Flush ==
    /\ buf # {}
    /\ Writes(buf) /\ buf' = {}
    /\ UNCHANGED <<settings, caller, queue, published, worker, faults>>

----------------------------------------------------------------------------
(* eventlog/outcomes.py *)

Has(m, kind) == <<m, kind>> \in feed

(* _cannot_come_back: a drop whose write may have been applied, and a      *)
(* shutdown's drop of a queued message, are not the end of it.             *)
CannotComeBack(m) ==
    \/ Has(m, "max_retries") \/ Has(m, "serialising")
    \/ (Has(m, "NotScheduled") /\ ~Has(m, "queued"))
IsEnding(m) == Has(m, "failed") \/ CannotComeBack(m)

(* _refuse_where_nothing_records: no answer rather than one from a feed    *)
(* that leaves out a kind it is decided from.                              *)
Required == Kind \ {"underway"}
RefusesNothing == FALSE
Refuses == ~(Required \subseteq wants)

(* _decide *)
Outcome(m) ==
    IF Refuses THEN "refused"
    ELSE IF Has(m, "sent") THEN "sent"
    ELSE IF IsEnding(m) THEN "failed"
    ELSE IF \E kind \in Kind : Has(m, kind) THEN "pending" ELSE "unknown"

----------------------------------------------------------------------------
Calling(c) ==
    \/ Skipped(c) \/ Enqueue(c) \/ AEnqueue(c)
    \/ SendManyStarts(c) \/ ASendManyStarts(c)
    \/ SendManyWrites(c) \/ ASendManyWrites(c) \/ SendManyHolds(c)
    \/ SendDirect(c)
Blocks == EnterBlock("atomic") \/ EnterBlock("manual") \/ Commit \/ Rollback
Sending(m) == Take(m) \/ Attempt(m) \/ Settle(m)

Next ==
    \/ \E c \in Call : Calling(c)
    \/ Blocks \/ HookPublishes
    \/ \E m \in Message : Sending(m)
    \/ Stop \/ Crash \/ Start
    \/ Flush

(* The worker runs and is restarted, a block ends and its hooks run, the   *)
(* recorder flushes. A call in progress goes on; none is bound to be made. *)
Fairness ==
    /\ \A c \in Call : WF_vars(SendManyWrites(c) \/ ASendManyWrites(c) \/ SendManyHolds(c))
    /\ WF_vars(Commit \/ Rollback) /\ WF_vars(HookPublishes) /\ WF_vars(Start)
    /\ \A m \in Message : WF_vars(Sending(m))
    /\ WF_vars(Flush)

Spec == Init /\ [][Next]_vars /\ Fairness

----------------------------------------------------------------------------
(* Properties *)

(* With TRANSACTIONAL on, a message of a call made inside a block that     *)
(* will commit is not in the transport before the commit, and never after  *)
(* a rollback: the bot announces nothing the database does not have        *)
(* (_deferred, defer).                                                     *)
AnnouncedAfterCommit == \A m \in published : m[1] \notin inside \cup undone

(* A fan-out stops where a chunk was refused, on the hook as where the     *)
(* caller stands: no chunk is in the transport while an earlier one of its *)
(* call is not (_deferred's one hook for the call, send_many).             *)
StopsWhereItFails ==
    \A m \in published : \A i \in 1..m[2] : <<m[1], i>> \in published

(* A message that may still arrive; one whose write is not told for        *)
(* certain, the row in the buffer or the write having raised; and one      *)
(* whose call or whose send was cut short.                                 *)
Deliverable(m) == m \in queue \/ (m \in inflight /\ send[m] # "ended")
Untold(m) == <<m, "queued">> \in buf \/ <<m, "queueing">> \in buf \cup feed
Spoiled(m) ==
    \/ m[1] \in undone \cup unhooked \/ m \in hurt \/ ~enabled["worker"] \/ Refuses
    \/ \E x \in Message : x[1] = m[1] /\ Has(x, "queueing")

(* A message that reads "failed" can no longer arrive, which is what lets  *)
(* a caller send it again (_cannot_come_back), unless a crash undid its    *)
(* acknowledgement or its write is not told for certain.                   *)
FailedIsFinal(m) ==
    Outcome(m) = "failed" /\ m \notin hurt /\ ~Untold(m) => ~Deliverable(m)

(* An answer is one to act on.  "failed" is final, and whoever polls for   *)
(* the outcome of a call that returned reaches an end: the message is      *)
(* "sent" or "failed" in the feed at last (enqueue, send_many, send_raw,   *)
(* _decide), unless its block was rolled back, its hook was lost or        *)
(* refused a write, a crash cut its send short, the worker is disabled, or *)
(* no outcome is to be had here.                                           *)
OutcomeTells ==
    /\ [](\A m \in Message : FailedIsFinal(m))
    /\ \A m \in Message :
          at[m[1]] = "returned" ~> Outcome(m) \in {"sent", "failed"} \/ Spoiled(m)
=============================================================================
