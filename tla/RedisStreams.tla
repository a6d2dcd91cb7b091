----------------------------- MODULE RedisStreams -----------------------------
(***************************************************************************)
(* The Redis Streams transport: broker/redis_streams/broker.py.            *)
(*                                                                         *)
(* One consumer group per stream; what the group handed out and nobody     *)
(* acknowledged is its pending list.  A consumer reads several streams in  *)
(* one command, so a read may bring more than the one entry it hands back; *)
(* the others are its spares.  Reading new entries never returns a pending *)
(* one, so a consumer keeps a cursor per stream through its own part of    *)
(* the pending list.                                                       *)
(*                                                                         *)
(* The consumer Me is what BlpopDelivery.run does with this broker; its    *)
(* lane gives it streams and takes them away while it runs.  Peer stands   *)
(* for the other members of the group, which run the same code: what their *)
(* commands do to the server, in any order.  An entry is its number, which *)
(* is also its place in its stream.                                        *)
(***************************************************************************)
EXTENDS Integers, Sequences, FiniteSets, FiniteSetsExt

CONSTANTS
    Me, Peer,   \* the consumer, and the other members of its group
    NoOne,      \* nobody
    Streams,    \* how many streams; a read answers them in this order
    Entries,    \* how many entries are published
    Strangers,  \* which sets of entries may be ones this package did not write
    Page,       \* _RECOVERY_PAGE
    MaxInFlight,\* MAX_IN_FLIGHT
    MaxFaults,  \* bound: crashes, failed calls and removals of a stream
    MaxMoves    \* bound: changes of the streams the lane serves

ASSUME StreamsAssumption ==
    /\ Me # Peer /\ NoOne \notin {Me, Peer}
    /\ Streams \in Nat /\ Entries \in Nat /\ MaxFaults \in Nat /\ MaxMoves \in Nat
    /\ Page \in Nat \ {0} /\ MaxInFlight \in Nat \ {0}
    /\ \A es \in Strangers : es \subseteq 1..Entries

Stream == 1..Streams
Entry == 1..Entries
Nowhere == 0                \* not in any stream
Exhausted == Entries + 1    \* a cursor of None: this consumer holds nothing here

VARIABLES
    foreign,    \* the entries this package did not write, which does not change
    published,  \* how many entries were published
    stream,     \* stream[e]: the stream e was published to, or Nowhere
    kept,       \* the entries their streams still hold
    group,      \* the streams whose group exists
    last,       \* last[s]: the last entry the group of s delivered
    owner,      \* owner[e]: whose pending entry e is, or NoOne
    idle,       \* the pending entries whose idle time was set to the liveness TTL
    known,      \* the producers' _grouped
    step,       \* where run() is
    served,     \* the streams the lane gave it
    reclaimed,  \* run()'s local of that name
    keys,       \* the streams of the call under way
    grouped,    \* _grouped
    upto,       \* upto[s]: _recovered_upto, 0 before it was read
    unsettled,  \* _unsettled
    spare,      \* _spare
    sends,      \* sends[e]: how many sends of e are under way here
    finished,   \* entries whose send is over, not acknowledged
    theirs,     \* entries the peers were handed and have not acknowledged
    answered,   \* history: entries some handler finished with
    settled,    \* history: entries acknowledged away
    dropped,    \* history: entries an operator removed with their stream
    stray,      \* history: spares whose release failed
    faults,
    moves

server == <<foreign, published, stream, kept, group, last, owner, idle, known>>
broker == <<grouped, upto, unsettled, spare>>
lane == <<served, moves>>
control == <<step, lane, reclaimed, keys>>
history == <<answered, settled, dropped, stray>>
local == <<broker, control, sends, finished>>
streamsVars == <<server, local, theirs, history, faults>>

Labels == {"down", "turn", "room", "take", "held", "read", "retry"}
None == [e \in Entry |-> 0]

StreamsTypeOK ==
    /\ foreign \in Strangers
    /\ published \in 0..Entries
    /\ stream \in [Entry -> Stream \cup {Nowhere}] /\ kept \subseteq Entry
    /\ group \subseteq Stream /\ last \in [Stream -> 0..Entries]
    /\ owner \in [Entry -> {Me, Peer, NoOne}]
    /\ idle \subseteq {e \in Entry : owner[e] # NoOne}
    /\ known \subseteq Stream
    /\ step \in Labels
    /\ served \subseteq Stream
    /\ reclaimed \in BOOLEAN
    /\ keys \subseteq Stream
    /\ grouped \subseteq Stream
    /\ upto \in [Stream -> 0..Exhausted]
    /\ unsettled \subseteq Entry
    /\ spare \in Seq(Entry)
    /\ sends \in [Entry -> Nat]
    /\ finished \subseteq Entry
    /\ theirs \subseteq Entry
    /\ answered \subseteq Entry /\ settled \subseteq Entry /\ dropped \subseteq Entry
    /\ stray \subseteq Entry
    /\ faults \in 0..MaxFaults /\ moves \in 0..MaxMoves

StreamsInit ==
    /\ foreign \in Strangers
    /\ published = 0 /\ stream = [e \in Entry |-> Nowhere] /\ kept = {}
    /\ group = {} /\ last = [s \in Stream |-> 0]
    /\ owner = [e \in Entry |-> NoOne] /\ idle = {}
    /\ known = {}
    /\ step = "down"
    /\ served = Stream
    /\ reclaimed = FALSE
    /\ keys = {}
    /\ grouped = {}
    /\ upto = [s \in Stream |-> 0]
    /\ unsettled = {} /\ spare = <<>>
    /\ sends = None /\ finished = {}
    /\ theirs = {}
    /\ answered = {} /\ settled = {} /\ dropped = {} /\ stray = {}
    /\ faults = 0 /\ moves = 0

-----------------------------------------------------------------------------
(* Redis commands *)

Holding(s) == {e \in kept : stream[e] = s}
Pending(s) == {e \in Holding(s) : owner[e] # NoOne}
New(s) == {e \in Holding(s) : e > last[s]}
First(es) == {e \in es : \A f \in es : e <= f}     \* the oldest of them, or none

(* XGROUP CREATE <key> <group> id=0 MKSTREAM; BUSYGROUP changes nothing. *)
Created(ss) == [s \in Stream |-> IF s \in ss \ group THEN 0 ELSE last[s]]

Fault == faults < MaxFaults /\ faults' = faults + 1

AtStep(label) == step = label
Goto(label) == step' = label

(* The end of a call, and where run() goes on. *)
Back(label) == Goto(label) /\ keys' = {}

Hand(e) ==
    /\ unsettled' = unsettled \cup {e}
    /\ sends' = [sends EXCEPT ![e] = @ + 1]

-----------------------------------------------------------------------------
(* Producers and operators *)

(* publish: _ensure, then one XADD per payload, here one. *)
Publish(s) ==
    /\ published < Entries
    /\ published' = published + 1
    /\ stream' = [stream EXCEPT ![published + 1] = s] /\ kept' = kept \cup {published + 1}
    /\ IF s \in known
       THEN UNCHANGED <<group, last, known>>
       ELSE /\ group' = group \cup {s} /\ last' = Created({s})
            /\ known' = known \cup {s}
    /\ UNCHANGED <<foreign, owner, idle, broker, control, sends, finished, theirs, history,
                   faults>>

(* The history XTRIM MINID drops: what is older than the oldest pending     *)
(* entry, and nothing where nothing is pending.                             *)
Trimmed(s) == {e \in Holding(s) : Pending(s) # {} /\ \A f \in Pending(s) : e < f}

(* trim.  Between its XPENDING and its XTRIM the pending list loses entries *)
(* and gains newer ones, so the oldest it was told of stays a safe bound.   *)
Trim(s) ==
    /\ s \in group /\ Trimmed(s) # {}
    /\ kept' = kept \ Trimmed(s)
    /\ UNCHANGED <<foreign, published, stream, group, last, owner, idle, known, broker, control,
                   sends, finished, theirs, history, faults>>

(* DEL <key>: the entries, the group and its pending list. *)
Delete(s) ==
    /\ group' = group \ {s}
    /\ last' = [last EXCEPT ![s] = 0]
    /\ kept' = kept \ Holding(s)
    /\ owner' = [e \in Entry |-> IF e \in Holding(s) THEN NoOne ELSE owner[e]]
    /\ idle' = idle \ Holding(s)
    /\ dropped' = dropped \cup (Holding(s) \ settled)
    /\ UNCHANGED <<foreign, published, stream, known, broker, control, sends, finished, theirs,
                   answered, settled, stray>>

(* discard() of another process: the stream goes with all it holds. *)
Discard(s) == s \in group /\ Holding(s) # {} /\ Fault /\ Delete(s)

(* discard(if_empty=True), a WATCHed transaction.  XPENDING may fail and is *)
(* then read as nothing pending, so XLEN alone decides.                     *)
DiscardIfEmpty(s) == s \in group /\ Holding(s) = {} /\ Fault /\ Delete(s)

-----------------------------------------------------------------------------
(* A consumer *)

(* _ensure: a group for each stream this broker has not prepared yet.  One  *)
(* that cannot be prepared is left out; with none left the call raises.     *)
Usable(usable) ==
    /\ usable \subseteq served /\ served \cap grouped \subseteq usable
    /\ grouped' = grouped \cup usable

(* Delivery.reclaim.  _reclaimed of a stream: XAUTOCLAIM takes what is idle  *)
(* for the liveness TTL, which is what was released and whatever was held    *)
(* that long, a slow send of this consumer or of a living peer included, and *)
(* arms the recovery.  Where a group is gone (_regrouped) all of them are    *)
(* created again and every cursor is forgotten.  A call that fails leaves    *)
(* the streams after it unclaimed, and the reclaim owed.                     *)
Reclaim ==
    \E usable \in SUBSET Stream, n \in 0..Streams, old \in SUBSET Entry :
       LET reached == {s \in usable : s <= n}
           new == usable \ grouped
           missing == reached \ (group \cup new)
           made == IF missing = {} THEN new ELSE usable
           claimed == {e \in old \cup idle : stream[e] \in reached}
       IN /\ Usable(usable)
          /\ \A e \in old : owner[e] # NoOne /\ stream[e] \in reached
          /\ n = Streams \/ n + 1 \in usable
          /\ IF usable = served /\ n = Streams THEN UNCHANGED faults ELSE Fault
          /\ reclaimed' = (usable # {} /\ n = Streams)
          /\ group' = group \cup made /\ last' = Created(made)
          /\ owner' = [e \in Entry |-> IF e \in claimed THEN Me ELSE owner[e]]
          /\ idle' = idle \ claimed
          /\ upto' = [s \in Stream |-> IF missing # {} \/ \E e \in claimed : stream[e] = s
                                       THEN 0 ELSE upto[s]]
          /\ UNCHANGED <<foreign, published, stream, kept, known, lane, keys, unsettled, spare,
                         sends, finished, theirs, history>>

(* run() opens with a reclaim. *)
Start == AtStep("down") /\ Reclaim /\ Goto("turn")

(* The process ends: what it knew is forgotten, its sends end nowhere, and  *)
(* its pending entries stay its own.                                        *)
Crash ==
    /\ ~AtStep("down") /\ Fault
    /\ Back("down")
    /\ reclaimed' = FALSE
    /\ grouped' = {}
    /\ upto' = [s \in Stream |-> 0]
    /\ unsettled' = {} /\ spare' = <<>>
    /\ sends' = None /\ finished' = {}
    /\ UNCHANGED <<server, lane, theirs, history>>

(* The lane is given a queue or loses one (Delivery.serve). *)
Serve ==
    /\ ~AtStep("down") /\ moves < MaxMoves /\ moves' = moves + 1
    /\ \E ss \in SUBSET Stream \ {{}, served} : served' = ss
    /\ UNCHANGED <<server, broker, step, reclaimed, keys, sends, finished, theirs, history,
                   faults>>

(* Mutant of Ack: settles what is still being sent. *)
AckEarly(e) ==
    /\ AtStep("turn") /\ e \in unsettled
    /\ finished' = finished \ {e}
    /\ owner' = [owner EXCEPT ![e] = NoOne] /\ idle' = idle \ {e}
    /\ settled' = IF owner[e] = NoOne THEN settled ELSE settled \cup {e}
    /\ unsettled' = unsettled \ {e}
    /\ UNCHANGED <<foreign, published, stream, kept, group, last, known, grouped, upto, spare,
                   control, sends, theirs, answered, dropped, stray, faults>>

(* collect: XACK for a finished send, whoever holds the entry by now, and   *)
(* _unsettled forgets it.  An XACK that fails is logged, and the entry      *)
(* stays pending and unsettled.                                             *)
Ack(e) ==
    /\ AtStep("turn") /\ e \in finished
    /\ finished' = finished \ {e}
    /\ \/ /\ owner' = [owner EXCEPT ![e] = NoOne] /\ idle' = idle \ {e}
          /\ settled' = IF owner[e] = NoOne THEN settled ELSE settled \cup {e}
          /\ unsettled' = unsettled \ {e}
          /\ UNCHANGED faults
       \/ Fault /\ UNCHANGED <<owner, idle, settled, unsettled>>
    /\ UNCHANGED <<foreign, published, stream, kept, group, last, known, grouped, upto, spare,
                   control, sends, theirs, answered, dropped, stray>>

HasRoom == Cardinality({e \in Entry : sends[e] > 0}) < MaxInFlight

(* hold_for_capacity: with no slot free once everything finished is         *)
(* acknowledged, run() waits for a send to end.                             *)
Hold ==
    /\ AtStep("turn") /\ finished = {} /\ ~HasRoom
    /\ Goto("room")
    /\ UNCHANGED <<server, broker, lane, reclaimed, keys, sends, finished, theirs, history,
                   faults>>

Ready == HasRoom /\ (AtStep("room") \/ (AtStep("turn") /\ finished = {}))

(* A reclaim still owed comes before the take. *)
ReclaimAgain == Ready /\ ~reclaimed /\ Reclaim /\ Goto("take")

(* take, and take_nowait: the streams asked for that _ensure could prepare. *)
TakeStarts ==
    /\ AtStep("take") \/ (Ready /\ reclaimed)
    /\ \E usable \in SUBSET Stream :
          /\ Usable(usable)
          /\ IF usable = served THEN UNCHANGED faults ELSE Fault
          /\ group' = group \cup (usable \ grouped) /\ last' = Created(usable \ grouped)
          /\ keys' = usable
          /\ Goto(IF usable = {} THEN "turn" ELSE "held")
    /\ UNCHANGED <<foreign, published, stream, kept, owner, idle, known, lane, reclaimed, upto,
                   unsettled, spare, sends, finished, theirs, history>>

(* _held: a spare whose stream is still read is handed out first ... *)
TakeSpare ==
    /\ AtStep("held") /\ spare # <<>>
    /\ stream[Head(spare)] \in keys
    /\ Hand(Head(spare))
    /\ spare' = Tail(spare)
    /\ Back("turn")
    /\ UNCHANGED <<server, lane, reclaimed, grouped, upto, finished, theirs, history, faults>>

(* Mutant of ReleaseSpare: forgets the spare and leaves the cursor alone. *)
ForgetSpare ==
    /\ AtStep("held") /\ spare # <<>>
    /\ stream[Head(spare)] \notin keys
    /\ spare' = Tail(spare)
    /\ UNCHANGED <<server, control, grouped, upto, unsettled, sends, finished, theirs, history,
                   faults>>

(* ... and any other is released: XCLAIM to this consumer, idle at once, if *)
(* it is still pending, and the cursor of its stream goes back to 0.        *)
ReleaseSpare ==
    /\ AtStep("held") /\ spare # <<>>
    /\ LET e == Head(spare) IN
          /\ stream[e] \notin keys /\ stream[e] \in group
          /\ IF owner[e] = NoOne
             THEN UNCHANGED <<owner, idle>>
             ELSE owner' = [owner EXCEPT ![e] = Me] /\ idle' = idle \cup {e}
          /\ unsettled' = unsettled \ {e}
          /\ upto' = [upto EXCEPT ![stream[e]] = 0]
    /\ spare' = Tail(spare)
    /\ UNCHANGED <<foreign, published, stream, kept, group, last, known, control, grouped, sends,
                   finished, theirs, history, faults>>

(* The XCLAIM fails, or its group is gone: the spare was popped already, and *)
(* the take raises with the cursor where it was.                             *)
ReleaseRaises ==
    /\ AtStep("held") /\ spare # <<>>
    /\ LET e == Head(spare) IN
          /\ stream[e] \notin keys
          /\ IF stream[e] \in group THEN Fault ELSE UNCHANGED faults
          /\ stray' = stray \cup {e}
    /\ spare' = Tail(spare)
    /\ Back("turn")
    /\ UNCHANGED <<server, lane, reclaimed, grouped, upto, unsettled, sends, finished, theirs,
                   answered, settled, dropped>>

(* The page of this consumer's pending entries after its cursor. *)
PendingPage(s) ==
    LET mine == {e \in Holding(s) : owner[e] = Me /\ e > upto[s]}
    IN {e \in mine : Cardinality({f \in mine : f < e}) < Page}

(* The entries of a page recovery may hand out. *)
Unhanded(page) == page \ (foreign \cup unsettled)

(* _recovered, stream by stream until one hands an entry out: its cursor    *)
(* stops there, and that of a stream with nothing to hand out passes its    *)
(* page, or is None with no page.  A stream whose cursor is None is not     *)
(* read; reading one whose group is gone raises (TakeRaises).               *)
Recover ==
    /\ AtStep("held") /\ spare = <<>>
    /\ LET out(s) == First(Unhanded(PendingPage(s)))
           from == First({s \in keys : out(s) # {}})
           seen == {s \in keys : \A r \in from : s <= r}
       IN /\ \A s \in seen : s \in group \/ upto[s] = Exhausted
          /\ idle' = idle \ UNION {PendingPage(s) : s \in seen}
          /\ upto' = [s \in Stream |->
                IF s \notin seen THEN upto[s]
                ELSE IF PendingPage(s) = {} THEN Exhausted
                ELSE Max(IF s \in from THEN out(s) ELSE PendingPage(s))]
          /\ IF from = {}
             THEN Goto("read") /\ UNCHANGED <<keys, unsettled, sends>>
             ELSE Back("turn") /\ \E s \in from : Hand(Max(out(s)))
    /\ UNCHANGED <<foreign, published, stream, kept, group, last, owner, known, lane, reclaimed,
                   grouped, spare, finished, theirs, history, faults>>

(* A command failed, or the recovery read said NOGROUP, which nothing       *)
(* catches there: run() logs it and goes round again.                       *)
TakeRaises ==
    /\ \/ AtStep("held") /\ spare = <<>> /\ UNCHANGED faults
          /\ \E s \in keys \ group : upto[s] # Exhausted
       \/ step \in {"held", "read", "retry"} /\ spare = <<>> /\ Fault
    /\ Back("turn")
    /\ UNCHANGED <<server, broker, lane, reclaimed, sends, finished, theirs, history>>

(* _regrouped: the groups are created again and every cursor is forgotten. *)
Regroup ==
    /\ AtStep("read") /\ ~(keys \subseteq group)
    /\ group' = group \cup keys /\ last' = Created(keys)
    /\ upto' = [s \in Stream |-> 0]
    /\ Goto("retry")
    /\ UNCHANGED <<foreign, published, stream, kept, owner, idle, known, lane, reclaimed, keys,
                   grouped, unsettled, spare, sends, finished, theirs, history, faults>>

(* Mutant of Spares: keeps nothing but the entry handed out. *)
NoSpares(es) == <<>>

(* The entries a read brought beside the one handed out, in its order. *)
Spares(es) ==
    [i \in 1..Cardinality(es) |->
        CHOOSE e \in es : Cardinality({f \in es : stream[f] < stream[e]}) = i - 1]

(* XREADGROUP > COUNT 1 over every stream, and _fresh: the first entry is   *)
(* handed out and the others are kept as spares.                            *)
Fresh ==
    /\ step \in {"read", "retry"} /\ keys \subseteq group
    /\ LET got == {e \in Entry : \E s \in keys : e \in First(New(s))}
           ours == got \ foreign
           first == {e \in ours : \A f \in ours : stream[e] <= stream[f]}
       IN /\ owner' = [e \in Entry |-> IF e \in got THEN Me ELSE owner[e]]
          /\ last' = [s \in Stream |-> Max({last[s]} \cup {e \in got : stream[e] = s})]
          /\ spare' = Spares(ours \ first)
          /\ IF ours = {} THEN UNCHANGED <<unsettled, sends>>
             ELSE \E e \in first : Hand(e)
    /\ Back("turn")
    /\ UNCHANGED <<foreign, published, stream, kept, group, idle, known, lane, reclaimed, grouped,
                   upto, finished, theirs, history, faults>>

(* The handler is finished with a message, on its own thread. *)
Complete(e) ==
    /\ sends[e] > 0
    /\ sends' = [sends EXCEPT ![e] = @ - 1]
    /\ finished' = finished \cup {e}
    /\ answered' = answered \cup {e}
    /\ UNCHANGED <<server, broker, control, theirs, settled, dropped, stray, faults>>

-----------------------------------------------------------------------------
(* The other members of the group *)

PeerReads(s) ==
    /\ s \in group /\ New(s) # {}
    /\ owner' = [owner EXCEPT ![Min(New(s))] = Peer]
    /\ last' = [last EXCEPT ![s] = Min(New(s))]
    /\ theirs' = theirs \cup ({Min(New(s))} \ foreign)
    /\ UNCHANGED <<foreign, published, stream, kept, group, idle, known, local, history, faults>>

(* A peer boots: XAUTOCLAIM takes what was held for the TTL, as above. *)
PeerClaims(e) ==
    /\ owner[e] # NoOne /\ e \notin theirs
    /\ owner' = [owner EXCEPT ![e] = Peer] /\ idle' = idle \ {e}
    /\ theirs' = theirs \cup ({e} \ foreign)
    /\ UNCHANGED <<foreign, published, stream, kept, group, last, known, local, history, faults>>

PeerAnswers(e) ==
    /\ e \in theirs \ answered
    /\ answered' = answered \cup {e}
    /\ UNCHANGED <<server, local, theirs, settled, dropped, stray, faults>>

(* A peer acknowledges an entry it was handed, whoever holds it by now. *)
PeerAcks(e) ==
    /\ e \in theirs \cap answered
    /\ theirs' = theirs \ {e}
    /\ owner' = [owner EXCEPT ![e] = NoOne] /\ idle' = idle \ {e}
    /\ settled' = IF owner[e] = NoOne THEN settled ELSE settled \cup {e}
    /\ UNCHANGED <<foreign, published, stream, kept, group, last, known, local, answered, dropped,
                   stray, faults>>

PeerEnds ==
    /\ theirs # {} /\ Fault
    /\ theirs' = {}
    /\ UNCHANGED <<server, local, history>>

-----------------------------------------------------------------------------

Loop ==
    \/ ReclaimAgain \/ (\E e \in Entry : Ack(e)) \/ Hold \/ TakeStarts
    \/ TakeSpare \/ ReleaseSpare \/ ReleaseRaises
    \/ Recover \/ TakeRaises \/ Regroup \/ Fresh

(* The others act between the calls of this consumer: a call's commands     *)
(* reach the server together.                                               *)
Quiet == step \in {"down", "turn", "room", "take"}

Others ==
    \/ \E s \in Stream : Publish(s) \/ Trim(s) \/ Discard(s) \/ DiscardIfEmpty(s)
    \/ \E s \in Stream : PeerReads(s)
    \/ \E e \in Entry : PeerClaims(e) \/ PeerAnswers(e) \/ PeerAcks(e)
    \/ PeerEnds \/ Serve

StreamsNext ==
    \/ Quiet /\ Others
    \/ \E e \in Entry : Complete(e)
    \/ Start \/ Crash \/ Loop

(* The loop goes round, its sends end (the send loop bounds each one), and  *)
(* a process that ended is started again under its name.                    *)
StreamsSpec ==
    /\ StreamsInit /\ [][StreamsNext]_streamsVars
    /\ WF_streamsVars(Start) /\ WF_streamsVars(Loop)
    /\ \A e \in Entry : WF_streamsVars(Complete(e))

-----------------------------------------------------------------------------
(* Properties *)

(* Nothing slips out of reach.  An entry that was published, not            *)
(* acknowledged and not removed by an operator is in its stream and is      *)
(* either new to the group or in its pending list, whatever was trimmed,    *)
(* pruned or grouped again.  A pending entry of the running consumer is in  *)
(* its hands or ahead of its cursor: the cursor passes nothing it has not   *)
(* handed out (a spare whose release failed is the exception).  And it is   *)
(* in its hands once: no entry has two sends under way in one consumer.     *)
Tracked ==
    /\ \A e \in Entry : stream[e] # Nowhere /\ e \notin settled \cup dropped =>
          /\ e \in kept
          /\ owner[e] = NoOne => stream[e] \notin group \/ e > last[stream[e]]
    /\ \A e \in Entry \ (foreign \cup stray) : owner[e] = Me /\ ~AtStep("down") =>
          \/ e \in unsettled
          \/ \E i \in DOMAIN spare : spare[i] = e
          \/ e > upto[stream[e]]
    /\ \A e \in Entry : sends[e] <= 1

(* The recovery read meets a missing group nobody creates again. *)
Stuck == \E s \in served \cap grouped : s \notin group /\ upto[s] # Exhausted

(* The entry is the peers', or this consumer stopped serving its stream or  *)
(* cannot read it.                                                          *)
Elsewhere(e) == owner[e] = Peer \/ stream[e] \notin served \/ Stuck

(* Every published entry is answered, unless it was removed, its release    *)
(* failed, or it is elsewhere.                                              *)
Delivered ==
    \A e \in Entry :
        e \notin foreign /\ stream[e] # Nowhere
            ~> e \in answered \cup dropped \cup stray \/ Elsewhere(e)

(* The contract of broker/base.py. *)
where == [e \in Entry |-> IF e \in settled THEN "settled"
                          ELSE IF e \in unsettled \cup theirs
                               THEN "taken" ELSE "waiting"]
Contract == INSTANCE Transport WITH Msg <- Entry
Implements == Contract!Spec
==============================================================================
