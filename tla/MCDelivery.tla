----------------------------- MODULE MCDelivery -----------------------------
(* The consumer on three messages of one bot and two queues, for each      *)
(* shape of configuration: a queue budget of two or one beside a bot's of  *)
(* one; a lane that loses its own queue, or every other one; no bot        *)
(* budget; no queue budget, where dispatch waits for room instead of       *)
(* parking; and a handler that takes no on_complete.                       *)
EXTENDS Delivery

CONSTANTS m1, m2, m3, own, other, bot

MCMsg == {m1, m2, m3}
MCQueueOf == [m \in MCMsg |-> IF m = m3 THEN other ELSE own]
MCBotOf == [m \in MCMsg |-> bot]
MCVerdict == [m \in MCMsg |->
    IF m = m3 THEN {"deliver", "drop", "leave"} ELSE {"deliver"}]

Process(limit, perBot, defers, lanes) ==
    [limit |-> limit, perBot |-> perBot, defers |-> defers, lanes |-> lanes]

MCConfigs == {
    Process(2, 1, TRUE, {<<own, other>>, <<other>>}),
    Process(1, 1, TRUE, {<<own, other>>}),
    Process(1, 1, TRUE, {<<own, other>>, <<own>>}),
    Process(1, 0, TRUE, {<<own>>}),
    Process(0, 1, TRUE, {<<own>>}),
    Process(1, 0, FALSE, {<<own>>}) }
=============================================================================
