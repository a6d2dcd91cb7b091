---------------------------- MODULE MCScheduled ----------------------------
(* Deployments of Scheduled small enough to check. *)
EXTENDS ScheduledCall, TLC

CONSTANTS m1, m2, b1

Flagged(limit, lease, grace, tries, bots) ==
    [limit |-> limit, lease |-> lease, grace |-> grace, attempts |-> tries, bots |-> bots]

Same(flags, slow) == [flags |-> [m \in Mover |-> flags], slow |-> slow]

(* Claims that do not lapse, and callers that have transactions; a mover    *)
(* slower than its lease that refuses late rows and gives up at once,       *)
(* beside one with room for its batch; movers with room that try twice; and *)
(* a mover told which bot to move for beside one that is not.               *)
Plain == Same(Flagged(1, 0, 0, 1, {}), {})
MCFollowed == {Plain}

Various == {
    Plain,
    [flags |-> (m1 :> Flagged(1, 1, 1, 1, {}) @@ m2 :> Flagged(2, 3, 0, 1, {})), slow |-> {m1}],
    Same(Flagged(2, 3, 1, 2, {}), {}),
    [flags |-> (m1 :> Flagged(2, 3, 0, 1, {b1}) @@ m2 :> Flagged(1, 2, 0, 1, {})), slow |-> {}]}
============================================================================
