------------------------------ MODULE RedisList ------------------------------
(***************************************************************************)
(* The Redis list transport: broker/redis_list/broker.py.                  *)
(*                                                                         *)
(* One list of waiting messages and one in-flight list per worker name.    *)
(* A take is LMOVE from one to the other; an acknowledgement is LREM from  *)
(* the worker's own list; a reclaim is a loop of LMOVEs back.  A server    *)
(* without LMOVE makes the broker fall back to plain pops for the rest of  *)
(* the process.  The worker is what BlpopDelivery.run does with this       *)
(* broker; `manage.py tgbot_reclaim` and `tgbot_prune_queues` act on the   *)
(* same keys from processes of their own, one at a time: one operator.     *)
(***************************************************************************)
EXTENDS Integers, Sequences, FiniteSets, FiniteSetsExt

CONSTANTS
    Worker,     \* the worker names
    NoWorker,   \* no worker
    Messages,   \* how many messages producers publish; a message is its number
    MaxInFlight,\* MAX_IN_FLIGHT, the sends one worker may have under way
    MaxFaults   \* bound: failed calls, crashes and server changes

ASSUME RedisAssumption ==
    /\ NoWorker \notin Worker /\ IsFiniteSet(Worker)
    /\ Messages \in Nat /\ MaxInFlight \in Nat /\ MaxFaults \in Nat

Msg == 1..Messages

VARIABLES
    published,  \* how many messages were published so far
    queue,      \* the list messages wait in
    inflight,   \* inflight[w]: the list <queue>:processing:<w>
    hasLmove,   \* the server knows LMOVE (6.2 or later)
    reliable,   \* reliable[w]: self._reliable of w's broker
    pc,         \* pc[w]: where w's run() is
    reclaimed,  \* reclaimed[w]: run()'s local of that name
    sends,      \* sends[w][m]: how many sends of m are under way in w
    finished,   \* finished[w][m]: how many are over and not acknowledged
    answered,   \* history: messages some handler finished with
    popped,     \* history: messages a plain pop took off the queue
    settled,    \* history: messages acknowledged away
    takers,     \* history: workers that took a message
    dropped,    \* history: messages a discard deleted
    byHand,     \* the worker `tgbot_reclaim` is draining, or NoWorker
    named,      \* a bot's row names this queue
    policy,     \* the policy of the prune that is running
    scan,       \* the in-flight lists discard found, while it runs
    pruning,    \* how far tgbot_prune_queues is with this queue
    faults

vars == <<published, queue, inflight, hasLmove, reliable, pc, reclaimed, sends,
          finished, answered, popped, settled, takers, dropped, byHand, named,
          policy, scan, pruning, faults>>

lists == <<queue, inflight>>
worker == <<reliable, pc, reclaimed, sends, finished>>
history == <<answered, popped, settled, takers, dropped>>
prune == <<named, policy, scan, pruning>>
tools == <<byHand, prune>>

Labels == {"down", "boot", "turn", "reclaim", "take"}

(* REMOVED_QUEUE_POLICY of a run that removes: a run under "park", and a   *)
(* dry run, only report.                                                   *)
Policies == {"hold", "drop"}

None == [m \in Msg |-> 0]

TypeOK ==
    /\ published \in 0..Messages
    /\ queue \in Seq(Msg)
    /\ inflight \in [Worker -> Seq(Msg)]
    /\ hasLmove \in BOOLEAN
    /\ reliable \in [Worker -> BOOLEAN]
    /\ pc \in [Worker -> Labels]
    /\ reclaimed \in [Worker -> BOOLEAN]
    /\ sends \in [Worker -> [Msg -> Nat]]
    /\ finished \in [Worker -> [Msg -> Nat]]
    /\ answered \subseteq Msg /\ popped \subseteq Msg /\ settled \subseteq Msg
    /\ takers \subseteq Worker /\ dropped \subseteq Msg
    /\ byHand \in Worker \cup {NoWorker}
    /\ named \in BOOLEAN /\ policy \in Policies
    /\ scan \subseteq Worker
    /\ pruning \in {"no", "listed", "locked", "scanned", "removed", "left"}
    /\ faults \in 0..MaxFaults

Init ==
    /\ published = 0 /\ queue = <<>>
    /\ inflight = [w \in Worker |-> <<>>]
    /\ hasLmove = TRUE
    /\ reliable = [w \in Worker |-> TRUE]
    /\ pc = [w \in Worker |-> "down"]
    /\ reclaimed = [w \in Worker |-> FALSE]
    /\ sends = [w \in Worker |-> None] /\ finished = [w \in Worker |-> None]
    /\ answered = {} /\ popped = {} /\ settled = {} /\ takers = {}
    /\ dropped = {} /\ byHand = NoWorker
    /\ named = TRUE /\ policy = "hold" /\ scan = {} /\ pruning = "no"
    /\ faults = 0

-----------------------------------------------------------------------------
(* Redis commands *)

Entries(s) == {s[i] : i \in DOMAIN s}
Front(s) == SubSeq(s, 1, Len(s) - 1)
Last(s) == s[Len(s)]
(* LREM with a count of 1: the first entry that is m. *)
Without(s, m) ==
    IF m \notin Entries(s) THEN s
    ELSE LET i == CHOOSE k \in DOMAIN s : s[k] = m /\ \A j \in 1..(k - 1) : s[j] # m
         IN  [j \in 1..(Len(s) - 1) |-> IF j < i THEN s[j] ELSE s[j + 1]]

(* Mutant of MoveBack: LMOVE LEFT LEFT, which reverses what was in flight. *)
MoveBackOldestFirst(w) ==
    /\ inflight[w] # <<>>
    /\ queue' = <<Head(inflight[w])>> \o queue
    /\ inflight' = [inflight EXCEPT ![w] = Tail(@)]

(* LMOVE <in-flight> <queue> RIGHT LEFT *)
MoveBack(w) ==
    /\ inflight[w] # <<>>
    /\ queue' = <<Last(inflight[w])>> \o queue
    /\ inflight' = [inflight EXCEPT ![w] = Front(@)]

Fault == faults < MaxFaults /\ faults' = faults + 1

At(w, label) == pc[w] = label
Goto(w, label) == pc' = [pc EXCEPT ![w] = label]

-----------------------------------------------------------------------------
(* Producers *)

(* publish: one variadic RPUSH of a chunk, here one or two messages. *)
Publish ==
    /\ \E k \in 1..2 :
          /\ published + k <= Messages
          /\ published' = published + k
          /\ queue' = queue \o [i \in 1..k |-> published + i]
    /\ UNCHANGED <<inflight, hasLmove, worker, history, tools, faults>>

-----------------------------------------------------------------------------
(* A worker *)

Start(w) ==
    /\ At(w, "down")
    /\ Goto(w, "boot")
    /\ reliable' = [reliable EXCEPT ![w] = TRUE]
    /\ reclaimed' = [reclaimed EXCEPT ![w] = FALSE]
    /\ UNCHANGED <<published, lists, hasLmove, sends, finished, history, tools, faults>>

(* The process is killed, or stops once its last collect is over: what it  *)
(* was still sending ends nowhere, and its lists stay.                     *)
Ends(w) ==
    /\ Goto(w, "down")
    /\ sends' = [sends EXCEPT ![w] = None]
    /\ finished' = [finished EXCEPT ![w] = None]
    /\ UNCHANGED <<published, lists, hasLmove, reliable, reclaimed, history, tools>>

Crash(w) == ~At(w, "down") /\ Fault /\ Ends(w)

Stop(w) == At(w, "turn") /\ finished[w] = None /\ Ends(w) /\ UNCHANGED faults

AfterReclaim(w) == Goto(w, IF At(w, "boot") THEN "turn" ELSE "take")

(* reclaim, one command at a time: other workers take in between. *)
ReclaimOne(w) ==
    /\ pc[w] \in {"boot", "reclaim"} /\ hasLmove
    /\ MoveBack(w)
    /\ UNCHANGED <<published, hasLmove, worker, history, tools, faults>>

ReclaimEnds(w) ==
    /\ pc[w] \in {"boot", "reclaim"} /\ hasLmove
    /\ inflight[w] = <<>>
    /\ AfterReclaim(w)
    /\ reclaimed' = [reclaimed EXCEPT ![w] = TRUE]
    /\ UNCHANGED <<published, lists, hasLmove, reliable, sends, finished, history,
                   tools, faults>>

(* "unknown command": downgrade, and answer as though the list were empty. *)
ReclaimDowngrades(w) ==
    /\ pc[w] \in {"boot", "reclaim"} /\ ~hasLmove
    /\ AfterReclaim(w)
    /\ reclaimed' = [reclaimed EXCEPT ![w] = TRUE]
    /\ reliable' = [reliable EXCEPT ![w] = FALSE]
    /\ UNCHANGED <<published, lists, hasLmove, sends, finished, history, tools, faults>>

(* Redis could not be reached: run() goes on and tries again next turn. *)
ReclaimFails(w) ==
    /\ pc[w] \in {"boot", "reclaim"}
    /\ Fault
    /\ AfterReclaim(w)
    /\ UNCHANGED <<published, lists, hasLmove, reliable, reclaimed, sends, finished,
                   history, tools>>

(* Mutant of Ack: counts a message as removed whether LREM found it or not. *)
AckBlind(w, m) ==
    /\ At(w, "turn") /\ finished[w][m] > 0
    /\ finished' = [finished EXCEPT ![w][m] = @ - 1]
    /\ \/ /\ reliable[w]
          /\ inflight' = [inflight EXCEPT ![w] = Without(@, m)]
          /\ settled' = settled \cup {m}
          /\ UNCHANGED faults
       \/ /\ ~reliable[w]
          /\ settled' = IF m \in popped THEN settled \cup {m} ELSE settled
          /\ UNCHANGED <<inflight, faults>>
       \/ reliable[w] /\ Fault /\ UNCHANGED <<inflight, settled>>
    /\ UNCHANGED <<published, queue, hasLmove, reliable, pc, reclaimed, sends,
                   answered, popped, takers, dropped, tools>>

(* collect, then acknowledge: LREM of the value from the worker's own list.*)
(* A broker that popped has nothing to remove, and a failure is swallowed. *)
Ack(w, m) ==
    /\ At(w, "turn") /\ finished[w][m] > 0
    /\ finished' = [finished EXCEPT ![w][m] = @ - 1]
    /\ \/ /\ reliable[w]
          /\ inflight' = [inflight EXCEPT ![w] = Without(@, m)]
          /\ settled' = IF m \in Entries(inflight[w]) THEN settled \cup {m} ELSE settled
          /\ UNCHANGED faults
       \/ /\ ~reliable[w]
          /\ settled' = IF m \in popped THEN settled \cup {m} ELSE settled
          /\ UNCHANGED <<inflight, faults>>
       \/ reliable[w] /\ Fault /\ UNCHANGED <<inflight, settled>>
    /\ UNCHANGED <<published, queue, hasLmove, reliable, pc, reclaimed, sends,
                   answered, popped, takers, dropped, tools>>

(* hold_for_capacity: no read while every slot is taken. *)
HasRoom(w) == MapThenSumSet(LAMBDA m : sends[w][m], Msg) < MaxInFlight

Turn(w) ==
    /\ At(w, "turn") /\ finished[w] = None /\ HasRoom(w)
    /\ Goto(w, IF reclaimed[w] THEN "take" ELSE "reclaim")
    /\ UNCHANGED <<published, lists, hasLmove, reliable, reclaimed, sends, finished,
                   history, tools, faults>>

(* Mutant of TakeMoves: pops the message without recording it in flight. *)
TakeUnrecorded(w) ==
    /\ At(w, "take") /\ reliable[w] /\ hasLmove /\ queue # <<>>
    /\ queue' = Tail(queue)
    /\ UNCHANGED inflight
    /\ \/ sends' = [sends EXCEPT ![w][Head(queue)] = @ + 1] /\ UNCHANGED faults
       \/ Fault /\ UNCHANGED sends
    /\ Goto(w, "turn")
    /\ takers' = takers \cup {w}
    /\ UNCHANGED <<published, hasLmove, reliable, reclaimed, finished, answered,
                   popped, settled, dropped, tools>>

(* take: BLMOVE LEFT RIGHT, and the handler is given the message.  A reply *)
(* that is lost leaves it in the in-flight list of a worker not sending it.*)
TakeMoves(w) ==
    /\ At(w, "take") /\ reliable[w] /\ hasLmove /\ queue # <<>>
    /\ queue' = Tail(queue)
    /\ inflight' = [inflight EXCEPT ![w] = Append(@, Head(queue))]
    /\ \/ sends' = [sends EXCEPT ![w][Head(queue)] = @ + 1] /\ UNCHANGED faults
       \/ Fault /\ UNCHANGED sends
    /\ Goto(w, "turn")
    /\ takers' = takers \cup {w}
    /\ UNCHANGED <<published, hasLmove, reliable, reclaimed, finished, answered,
                   popped, settled, dropped, tools>>

(* take on a broker that downgraded: BLPOP, and the message is in no list. *)
TakePops(w) ==
    /\ At(w, "take") /\ ~reliable[w] /\ queue # <<>>
    /\ queue' = Tail(queue)
    /\ popped' = popped \cup {Head(queue)}
    /\ \/ sends' = [sends EXCEPT ![w][Head(queue)] = @ + 1] /\ UNCHANGED faults
       \/ Fault /\ UNCHANGED sends
    /\ Goto(w, "turn")
    /\ takers' = takers \cup {w}
    /\ UNCHANGED <<published, inflight, hasLmove, reliable, reclaimed, finished,
                   answered, settled, dropped, tools>>

(* The first command after a server without LMOVE took over. *)
TakeDowngrades(w) ==
    /\ At(w, "take") /\ reliable[w] /\ ~hasLmove
    /\ reliable' = [reliable EXCEPT ![w] = FALSE]
    /\ UNCHANGED <<published, lists, hasLmove, pc, reclaimed, sends, finished,
                   history, tools, faults>>

TakeNothing(w) ==
    /\ At(w, "take") /\ queue = <<>>
    /\ Goto(w, "turn")
    /\ UNCHANGED <<published, lists, hasLmove, reliable, reclaimed, sends, finished,
                   history, tools, faults>>

(* A handler reports its send over, or refuses the message and leaves it.  *)
Complete(w, m) ==
    /\ sends[w][m] > 0
    /\ sends' = [sends EXCEPT ![w][m] = @ - 1]
    /\ \/ /\ finished' = [finished EXCEPT ![w][m] = @ + 1]
          /\ answered' = answered \cup {m}
       \/ UNCHANGED <<finished, answered>>
    /\ UNCHANGED <<published, lists, hasLmove, reliable, pc, reclaimed, popped,
                   settled, takers, dropped, tools, faults>>

(* A failover reaches a server of another version. *)
Failover ==
    /\ Fault
    /\ hasLmove' = ~hasLmove
    /\ UNCHANGED <<published, lists, worker, history, tools>>

-----------------------------------------------------------------------------
(* The management commands *)

Pruning == pruning \in {"listed", "locked", "scanned"}

(* _keys: a queue whose row is gone is refused as a name mistyped. *)
Declares == pruning # "removed"

(* tgbot_reclaim --worker w, for a worker the operator knows to be gone:   *)
(* one LMOVE at a time until the list answers nothing, or the run's limit. *)
HandStarts(w) ==
    /\ byHand = NoWorker /\ ~Pruning /\ Declares
    /\ At(w, "down") /\ inflight[w] # <<>>
    /\ byHand' = w
    /\ UNCHANGED <<published, lists, hasLmove, worker, history, prune, faults>>

HandMoves ==
    /\ byHand # NoWorker
    /\ MoveBack(byHand)
    /\ UNCHANGED <<published, hasLmove, worker, history, tools, faults>>

HandEnds ==
    /\ byHand # NoWorker
    /\ byHand' = NoWorker
    /\ UNCHANGED <<published, lists, hasLmove, worker, history, prune, faults>>

(* _unreferenced and _act_on: the rows no bot names, read without a lock.  *)
(* The last bot naming this one was deleted or moved some time before.     *)
PruneLists ==
    /\ pruning = "no" /\ byHand = NoWorker
    /\ named' = FALSE
    /\ policy' \in Policies
    /\ pruning' = "listed"
    /\ UNCHANGED <<published, lists, hasLmove, worker, history, byHand, scan, faults>>

(* A bot is pointed at the queue: a foreign key, which waits while the row *)
(* is locked and has nothing to point at once the row is gone.             *)
Named ==
    /\ pruning = "listed" /\ ~named
    /\ named' = TRUE
    /\ UNCHANGED <<published, lists, hasLmove, worker, history, byHand, policy, scan,
                   pruning, faults>>

(* Mutant of PruneLocks: trusts the query that chose the row. *)
PruneLocksBlindly ==
    /\ pruning = "listed"
    /\ pruning' = "locked"
    /\ UNCHANGED <<published, lists, hasLmove, worker, history, byHand, named, policy,
                   scan, faults>>

(* _remove: the row is locked and its bots are read again. *)
PruneLocks ==
    /\ pruning = "listed"
    /\ pruning' = IF named THEN "left" ELSE "locked"
    /\ UNCHANGED <<published, lists, hasLmove, worker, history, byHand, named, policy,
                   scan, faults>>

(* discard: the in-flight lists that exist are scanned for, and only those *)
(* are watched, read and deleted.  Redis keeps no key for an empty list.   *)
DiscardScans ==
    /\ pruning = "locked"
    /\ scan' = {w \in Worker : inflight[w] # <<>>}
    /\ pruning' = "scanned"
    /\ UNCHANGED <<published, lists, hasLmove, worker, history, byHand, named, policy,
                   faults>>

SeenEmpty == queue = <<>> /\ \A w \in scan : inflight[w] = <<>>

(* The delete: at once under "drop", and under "hold" in a transaction     *)
(* that goes through only if the watched lists are empty.  The row goes    *)
(* with it.                                                                *)
DiscardDeletes ==
    /\ pruning = "scanned"
    /\ policy = "drop" \/ SeenEmpty
    /\ queue' = <<>>
    /\ inflight' = [w \in Worker |-> IF w \in scan THEN <<>> ELSE inflight[w]]
    /\ dropped' = dropped \cup Entries(queue) \cup UNION {Entries(inflight[w]) : w \in scan}
    /\ pruning' = "removed" /\ scan' = {}
    /\ UNCHANGED <<published, hasLmove, worker, answered, popped, settled, takers, byHand,
                   named, policy, faults>>

(* A watched list holds a message, or changed before the transaction ran. *)
DiscardHolds ==
    /\ pruning = "scanned" /\ policy = "hold"
    /\ pruning' = "left" /\ scan' = {}
    /\ UNCHANGED <<published, lists, hasLmove, worker, history, byHand, named, policy,
                   faults>>

-----------------------------------------------------------------------------
(* Specification *)

Next ==
    \/ Publish \/ Failover
    \/ \E w \in Worker :
          \/ Start(w) \/ Crash(w) \/ Stop(w)
          \/ ReclaimOne(w) \/ ReclaimEnds(w) \/ ReclaimDowngrades(w) \/ ReclaimFails(w)
          \/ Turn(w)
          \/ TakeMoves(w) \/ TakePops(w) \/ TakeDowngrades(w) \/ TakeNothing(w)
          \/ HandStarts(w)
          \/ \E m \in Msg : Ack(w, m) \/ Complete(w, m)
    \/ HandMoves \/ HandEnds
    \/ PruneLists \/ Named \/ PruneLocks
    \/ DiscardScans \/ DiscardDeletes \/ DiscardHolds

Spec == Init /\ [][Next]_vars

-----------------------------------------------------------------------------
(* Properties *)

Places(m) ==
    Cardinality({i \in DOMAIN queue : queue[i] = m})
    + Cardinality(UNION {{w} \X {i \in DOMAIN inflight[w] : inflight[w][i] = m} : w \in Worker})

(* A published message is in exactly one list until it is acknowledged, a  *)
(* plain pop takes it or a discard deletes it: no interleaving of takes,   *)
(* reclaims, reclaims by hand, prunes and crashes loses it or makes two.   *)
KeptOnce ==
    \A m \in Msg : Places(m) =
        IF m <= published /\ m \notin settled \cup popped \cup dropped THEN 1 ELSE 0

(* As long as one worker alone has taken messages, the messages it holds   *)
(* and then the ones waiting are in the order they were published, through *)
(* every step of a reclaim: RIGHT to LEFT puts the newest back first.      *)
OrderKept ==
    \A w \in Worker :
        takers \subseteq {w} =>
            LET s == inflight[w] \o queue
            IN  \A i, j \in DOMAIN s : i < j => s[i] < s[j]

(* The broker keeps the transport's contract; a popped message is taken.   *)
Contract == INSTANCE Transport WITH
    Msg <- Msg,
    where <- [m \in Msg |->
        IF m \in settled THEN "settled"
        ELSE IF m \in dropped THEN "removed"
        ELSE IF m > published \/ m \in Entries(queue) THEN "waiting" ELSE "taken"],
    answered <- answered

Implements == Contract!Spec

(* A prune deletes a message only under the policy that says so, and only  *)
(* while no bot names the queue: neither a bot pointed at it after the     *)
(* candidates were read nor a list born after the scan costs a message.    *)
DropsOnlyWhatItMay ==
    [][dropped' # dropped => policy = "drop" /\ ~named]_vars
=============================================================================
