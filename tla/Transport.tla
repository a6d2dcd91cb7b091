------------------------------ MODULE Transport ------------------------------
(***************************************************************************)
(* What every transport of django_aiogram promises its consumer: the       *)
(* `Broker` contract of broker/base.py.  A message is waiting to be taken, *)
(* taken by a consumer, or settled.  It is settled only once the send it   *)
(* asked for is over, and a settled message never comes back; a taken one  *)
(* may come back any number of times, which is at-least-once delivery.     *)
(* Only a discard of the whole queue takes a message away unsent.          *)
(***************************************************************************)

CONSTANT Msg    \* the messages producers published

VARIABLES
    where,      \* where[m]: "waiting" in the queue, "taken", "settled",
                \* or "removed" with the queue
    answered    \* the messages some handler has finished with

vars == <<where, answered>>

Init ==
    /\ where = [m \in Msg |-> "waiting"]
    /\ answered = {}

(* Broker.take and take_nowait: one message leaves the queue.              *)
Take(m) ==
    /\ where[m] = "waiting"
    /\ where' = [where EXCEPT ![m] = "taken"]
    /\ UNCHANGED answered

(* The handler is finished with a message it was given.  It may finish one *)
(* more than once, and late: a message that came back while its send was    *)
(* under way is sent again.                                                 *)
Answer(m) ==
    /\ where[m] # "settled"
    /\ answered' = answered \cup {m}
    /\ UNCHANGED where

(* Broker.ack: "Settle a message whose send has finished. It must not come *)
(* back."                                                                   *)
Settle(m) ==
    /\ where[m] = "taken"
    /\ m \in answered
    /\ where' = [where EXCEPT ![m] = "settled"]
    /\ UNCHANGED answered

(* Broker.reclaim and Broker.release: taken messages wait again.            *)
Return(back) ==
    /\ back \subseteq {m \in Msg : where[m] = "taken"}
    /\ where' = [m \in Msg |-> IF m \in back THEN "waiting" ELSE where[m]]
    /\ UNCHANGED answered

(* Broker.discard: the queue is deleted, with what is in it. *)
Discard(gone) ==
    /\ gone \subseteq {m \in Msg : where[m] \in {"waiting", "taken"}}
    /\ where' = [m \in Msg |-> IF m \in gone THEN "removed" ELSE where[m]]
    /\ UNCHANGED answered

Next ==
    \/ \E m \in Msg : Take(m) \/ Answer(m) \/ Settle(m)
    \/ \E some \in SUBSET Msg : Return(some) \/ Discard(some)

Spec == Init /\ [][Next]_vars
==============================================================================
