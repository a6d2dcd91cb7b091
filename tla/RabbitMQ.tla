------------------------------- MODULE RabbitMQ -------------------------------
(***************************************************************************)
(* The RabbitMQ transport: broker/rabbitmq/broker.py and client.py, as the *)
(* consumer thread uses them.                                              *)
(*                                                                         *)
(* A delivery is named by a tag its channel counted, so it means nothing   *)
(* on another channel: a handle carries the number of its channel too.     *)
(* When a channel closes the server puts back everything it had delivered  *)
(* through it and heard nothing of.  A channel is replaced whenever it is  *)
(* found closed, at the start of the next call.  Reading one queue is a    *)
(* generator; reading named queues is a subscription each, whose           *)
(* deliveries wait in a deque of the broker.                               *)
(***************************************************************************)
EXTENDS Integers, Sequences, FiniteSets

CONSTANTS
    Queue,      \* the queues
    Own,        \* the queue this broker addresses
    Messages,   \* how many messages are published
    MaxInFlight,\* MAX_IN_FLIGHT
    MaxChannels,\* bound: channels opened
    MaxTag,     \* bound: deliveries on one channel
    MaxMoves    \* bound: changes of the queues the lane serves, and removals

ASSUME RabbitAssumption ==
    /\ Own \in Queue /\ IsFiniteSet(Queue)
    /\ Messages \in Nat /\ MaxChannels \in Nat /\ MaxTag \in Nat /\ MaxMoves \in Nat
    /\ MaxInFlight \in Nat \ {0}

Msg == 1..Messages
Unnamed == {}       \* a read that names no queue: asked is None

Delivery == [chan : 1..MaxChannels, tag : 1..MaxTag, msg : Msg]

VARIABLES
    home,       \* home[m]: the queue m was published to, for the published ones
    ready,      \* the messages waiting in their queues
    chan,       \* the number of this thread's channel, 0 before the first
    open,       \* that channel is open
    tags,       \* the tags it has counted
    unacked,    \* the deliveries the server waits for an answer to
    subs,       \* the queues the server pushes from on this channel
    subscribed, \* _mine.subscribed, as a set
    consuming,  \* _mine.consumer is not None
    delivered,  \* _mine.delivered, filled in the order of the tags
    unsettled,  \* _unsettled
    noticed,    \* _mine.generation
    served,     \* the queues the lane names, or Unnamed
    sends,      \* the handed out deliveries being sent
    finished,   \* those whose send is over
    answered,   \* history: messages some handler finished with
    settled,    \* history: messages acknowledged away
    dropped,    \* history: messages removed with their queue
    missing,    \* queues removed on the server and not declared since
    moves

rabbitVars == <<home, ready, chan, open, tags, unacked, subs, subscribed, consuming, delivered,
          unsettled, noticed, served, sends, finished, answered, settled, dropped, missing,
          moves>>
server == <<home, ready, unacked, subs, missing>>
channel == <<chan, open, tags, noticed>>
threadLocal == <<subscribed, consuming, delivered>>
work == <<sends, finished>>
history == <<answered, settled, dropped>>

Published == DOMAIN home

RabbitTypeOK ==
    /\ home \in Seq(Queue) /\ Len(home) <= Messages
    /\ ready \subseteq Published
    /\ chan \in 0..MaxChannels /\ open \in BOOLEAN /\ tags \in 0..MaxTag
    /\ unacked \subseteq Delivery /\ subs \subseteq Queue
    /\ subscribed \subseteq Queue /\ consuming \in BOOLEAN
    /\ delivered \subseteq Delivery
    /\ unsettled \subseteq Delivery /\ noticed \in 0..MaxChannels
    /\ served \subseteq Queue
    /\ sends \subseteq Delivery /\ finished \subseteq Delivery
    /\ answered \subseteq Msg /\ settled \subseteq Msg /\ dropped \subseteq Msg
    /\ missing \subseteq Queue /\ moves \in 0..MaxMoves

RabbitInit ==
    /\ home = <<>> /\ ready = {}
    /\ chan = 0 /\ open = FALSE /\ tags = 0 /\ unacked = {} /\ subs = {}
    /\ subscribed = {} /\ consuming = FALSE /\ delivered = {}
    /\ unsettled = {} /\ noticed = 0
    /\ served = Unnamed
    /\ sends = {} /\ finished = {}
    /\ answered = {} /\ settled = {} /\ dropped = {}
    /\ missing = {} /\ moves = 0

Asked == IF served = Unnamed THEN {Own} ELSE served     \* _queues(asked)
Of(ds) == {d.msg : d \in ds}

-----------------------------------------------------------------------------
(* The server, producers and operators *)

(* publish and apublish, on another thread's channel, which declares the     *)
(* queue: confirmed.                                                        *)
Publish(q) ==
    /\ Len(home) < Messages
    /\ home' = Append(home, q)
    /\ ready' = ready \cup {Len(home) + 1}
    /\ missing' = missing \ {q}
    /\ UNCHANGED <<unacked, subs, channel, threadLocal, unsettled, served, work, history,
                   moves>>

(* What the server does when a channel goes: every delivery it heard        *)
(* nothing of is ready again.                                               *)
Requeue ==
    /\ open' = FALSE
    /\ ready' = ready \cup Of(unacked)
    /\ unacked' = {} /\ subs' = {}

(* The connection drops, or a change of settings closes it. *)
ChannelDies ==
    /\ open /\ chan < MaxChannels
    /\ Requeue
    /\ UNCHANGED <<home, missing, chan, tags, noticed, threadLocal, unsettled, served, work,
                   history, moves>>

(* discard() in another process: queue_delete, with what the queue held.    *)
(* The server ends the subscription; the broker goes on believing in it.    *)
Discard(q) ==
    /\ moves < MaxMoves /\ moves' = moves + 1
    /\ LET gone == {m \in Published : home[m] = q}
       IN /\ \E m \in gone : m \in ready \cup Of(unacked)
          /\ ready' = ready \ gone
          /\ unacked' = {d \in unacked : d.msg \notin gone}
          /\ dropped' = dropped \cup (gone \cap (ready \cup Of(unacked)))
    /\ subs' = subs \ {q}
    /\ missing' = missing \cup {q}
    /\ UNCHANGED <<home, channel, threadLocal, unsettled, served, work, answered, settled>>

(* The lane's queues change (Delivery.serve), or a queue is at its budget   *)
(* and not asked for.                                                       *)
Serve ==
    /\ moves < MaxMoves /\ moves' = moves + 1
    /\ \E qs \in SUBSET Queue \ {served} : served' = qs
    /\ UNCHANGED <<server, channel, threadLocal, unsettled, work, history>>

-----------------------------------------------------------------------------
(* The channel *)

(* What _notice_a_new_channel leaves of _unsettled. *)
Forgotten == {d \in unsettled : d.chan # noticed}

(* channel_for_thread opens a channel in place of one that is closed, and   *)
(* _notice_a_new_channel forgets what the old one held: its generator, its  *)
(* subscriptions, what they delivered and the handles given out.            *)
Reconnect ==
    /\ ~open /\ chan < MaxChannels
    /\ chan' = chan + 1 /\ open' = TRUE /\ tags' = 0
    /\ consuming' = FALSE /\ subscribed' = {} /\ delivered' = {}
    /\ unsettled' = Forgotten /\ noticed' = chan + 1
    /\ missing' = {}
    /\ UNCHANGED <<home, ready, unacked, subs, served, work, history, moves>>

HasRoom == Cardinality(sends) < MaxInFlight

(* The delivery the server makes of a ready message of q on this channel. *)
Pushed(m) == [chan |-> chan, tag |-> tags + 1, msg |-> m]

Push(q, m) ==
    /\ m \in ready /\ home[m] = q /\ tags < MaxTag
    /\ ready' = ready \ {m}
    /\ tags' = tags + 1
    /\ unacked' = unacked \cup {Pushed(m)}

(* _issued: the handle names the channel and the tag. *)
Issued(d) ==
    /\ unsettled' = unsettled \cup {d}
    /\ sends' = sends \cup {d}

(* A queue removed since this channel declared it: the server answers a      *)
(* consume of it by closing the channel.                                     *)
Refused ==
    /\ chan < MaxChannels /\ Requeue
    /\ UNCHANGED <<chan, tags, noticed, unsettled, sends>>

(* take that names no queue, while nothing is subscribed: the generator     *)
(* over the broker's own queue.  What the generator has been pushed and has *)
(* not yielded goes back when it is cancelled, and counts as ready here.    *)
TakeOwn ==
    /\ open /\ HasRoom
    /\ served = Unnamed /\ subscribed = {}
    /\ consuming => Own \in subs
    /\ \/ \E m \in Msg : /\ Push(Own, m) /\ Issued(Pushed(m))
                         /\ consuming' = TRUE /\ subs' = {Own} /\ UNCHANGED open
       \/ /\ ~consuming /\ Own \notin missing
          /\ consuming' = TRUE /\ subs' = {Own}
          /\ UNCHANGED <<ready, open, tags, unacked, unsettled, sends>>
       \/ ~consuming /\ Own \in missing /\ Refused /\ UNCHANGED consuming
    /\ UNCHANGED <<home, missing, chan, noticed, subscribed, delivered, served, finished,
                   history, moves>>

Multiplexes == served # Unnamed \/ subscribed # {}

(* The subscriptions the server is left with: the generator's is cancelled, *)
(* of the others only what changed is touched.                              *)
Resubscribed == (subs \cap subscribed \cap Asked) \cup (Asked \ subscribed)

(* _subscribe, after _cancel of the generator: consume just these queues.   *)
(* A missing queue this channel has not declared is declared again.         *)
Subscribe ==
    /\ open /\ HasRoom /\ Multiplexes
    /\ subscribed # Asked
    /\ consuming' = FALSE
    /\ \/ /\ subscribed' = Asked /\ subs' = Resubscribed
          /\ missing' = missing \ Asked
          /\ UNCHANGED <<ready, open, tags, unacked>>
       \/ /\ missing \cap (Asked \ subscribed) # {}
          /\ Refused /\ UNCHANGED <<subscribed, missing>>
    /\ UNCHANGED <<home, chan, tags, noticed, delivered, unsettled, served, work, history,
                   moves>>

Subscribed == open /\ HasRoom /\ Multiplexes /\ subscribed = Asked

(* process_data_events: the callback of a subscription files a delivery     *)
(* under its queue.                                                         *)
Arrive ==
    /\ Subscribed
    /\ \E q \in subs, m \in Msg :
          Push(q, m) /\ delivered' = delivered \cup {Pushed(m)}
    /\ UNCHANGED <<home, missing, chan, open, noticed, subs, subscribed, consuming, unsettled,
                   served, work, history, moves>>

Wanted(d) == home[d.msg] \in Asked

(* Mutant of GivenBack: what is not wanted is dropped from the deque only. *)
GivenUp == {}

(* What _give_back nacks. *)
GivenBack == {d \in delivered : ~Wanted(d)}

(* _buffered, of take and of take_nowait: the oldest wanted delivery is      *)
(* handed out, those for queues this consumer no longer serves are nacked,  *)
(* the rest stay in order.                                                  *)
Buffered ==
    /\ open /\ HasRoom /\ delivered # {}
    /\ unacked' = unacked \ GivenBack
    /\ ready' = ready \cup Of(GivenBack \cap unacked)
    /\ LET wanted == {d \in delivered : Wanted(d)}
       IN \/ wanted = {} /\ delivered' = {} /\ UNCHANGED <<unsettled, sends>>
          \/ \E d \in wanted : /\ \A e \in wanted : d.tag <= e.tag
                               /\ delivered' = wanted \ {d} /\ Issued(d)
    /\ UNCHANGED <<home, missing, channel, subs, subscribed, consuming, served, finished,
                   history, moves>>

(* take_nowait, the drain of an embedding without a loop: with nothing      *)
(* buffered, the subscriptions are cancelled and a basic_get asks.          *)
TakeNowait ==
    /\ open /\ HasRoom /\ delivered = {}
    /\ \E m \in ready : home[m] \in Asked /\ Push(home[m], m) /\ Issued(Pushed(m))
    /\ consuming' = FALSE /\ subscribed' = {} /\ subs' = {}
    /\ UNCHANGED <<home, missing, chan, open, noticed, delivered, served, finished, history,
                   moves>>

(* The handler is finished with a message, on its own thread. *)
Complete(d) ==
    /\ d \in sends
    /\ sends' = sends \ {d} /\ finished' = finished \cup {d}
    /\ answered' = answered \cup {d.msg}
    /\ UNCHANGED <<server, channel, threadLocal, unsettled, served, settled, dropped, moves>>

(* Mutant of Settleable: the tag alone decides. *)
AnyTag(d) == {u \in unacked : u.tag = d.tag}

(* _settleable: the delivery a handle names on the channel in use, if any. *)
Settleable(d) == {u \in unacked : u.chan = d.chan /\ u.tag = d.tag}

(* ack.  A basic_ack is not answered: it may be lost with the channel. *)
Ack(d) ==
    /\ open /\ d \in finished
    /\ finished' = finished \ {d}
    /\ \/ /\ unacked' = unacked \ Settleable(d)
          /\ settled' = settled \cup Of(Settleable(d))
          /\ unsettled' = unsettled \ {d}
          /\ UNCHANGED <<ready, open, subs>>
       \/ /\ Settleable(d) # {} /\ chan < MaxChannels
          /\ Requeue /\ UNCHANGED <<settled, unsettled>>
    /\ UNCHANGED <<home, missing, chan, tags, noticed, threadLocal, served, sends, answered,
                   dropped, moves>>

(* release: basic_nack with requeue, for a send given up. *)
Release(d) ==
    /\ open /\ d \in sends
    /\ moves < MaxMoves /\ moves' = moves + 1
    /\ sends' = sends \ {d}
    /\ unsettled' = unsettled \ {d}
    /\ unacked' = unacked \ Settleable(d)
    /\ ready' = ready \cup Of(Settleable(d))
    /\ UNCHANGED <<home, missing, channel, subs, threadLocal, served, finished, history>>

-----------------------------------------------------------------------------

(* What the consumer's loop does next when it has room. *)
Call == Reconnect \/ TakeOwn \/ Subscribe \/ Arrive \/ Buffered

RabbitNext ==
    \/ \E q \in Queue : Publish(q) \/ Discard(q)
    \/ ChannelDies \/ Serve \/ Call \/ TakeNowait
    \/ \E d \in sends : Complete(d) \/ Release(d)
    \/ \E d \in finished : Ack(d)

(* The consumer calls take again and again, every send ends, and the        *)
(* consumer settles what ended.  Nothing else has to happen.                *)
Handle == [chan : 1..MaxChannels, tag : 1..MaxTag, msg : Msg]
Fairness ==
    /\ WF_rabbitVars(Reconnect) /\ WF_rabbitVars(Subscribe)
    /\ WF_rabbitVars(TakeOwn) /\ WF_rabbitVars(Arrive) /\ WF_rabbitVars(Buffered)
    /\ \A d \in Handle : WF_rabbitVars(Complete(d)) /\ WF_rabbitVars(Ack(d))

RabbitSpec == RabbitInit /\ [][RabbitNext]_rabbitVars /\ Fairness

-----------------------------------------------------------------------------
(* Properties *)

(* Everything the server waits for an answer to is known to the broker, in  *)
(* the deque of its subscriptions or among the handles it gave out, never   *)
(* in both; and what the broker counts as held (inflight_depth) is held by  *)
(* the channel in use.  A delivery that fell out of both would stay         *)
(* unanswered for as long as the channel lives.                             *)
HeldOnce ==
    /\ delivered \cap unsettled = {}
    /\ open => /\ unacked \subseteq delivered \cup unsettled
               /\ \A d \in delivered \cup unsettled : d \in unacked \/ d.msg \in dropped

(* A queue removed under a live subscription: the server ended it, the       *)
(* broker believes it is still subscribed, until the channel is replaced.   *)
Deaf(q) == open /\ q \in (IF consuming THEN {Own} ELSE subscribed) /\ q \notin subs

(* Every published message is answered by a handler, or is removed with its *)
(* queue, or waits in a queue this consumer does not serve (or is deaf to); *)
(* and nothing falls out of the books on the way.                           *)
Delivered ==
    /\ [][HeldOnce']_rabbitVars
    /\ \A m \in Msg :
        m \in Published ~> \/ m \in answered \cup dropped
                           \/ m \in ready /\ (home[m] \notin Asked \/ Deaf(home[m]))

(* The transport keeps the Broker contract: what is settled was answered    *)
(* first and never comes back, whatever channel its handle came from.       *)
where == [m \in Msg |->
            IF m \in settled THEN "settled"
            ELSE IF m \in Of(unacked) THEN "taken" ELSE "waiting"]
Contract == INSTANCE Transport
Implements == Contract!Spec
==============================================================================
