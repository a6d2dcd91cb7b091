----------------------------- MODULE WebProcess -----------------------------
(***************************************************************************)
(* A webhook request from end to end: the guards of the view (Webhook) and *)
(* the loop the update is fed to (SendLoop).  Only an update the view has  *)
(* accepted reaches the loop.                                              *)
(***************************************************************************)
EXTENDS SendLoop

VARIABLES
    req, twice, table, served, age, reader, sure,
    calm    \* bound: the bots are read, and stay as they are, where others than
            \* requests send or close; it does not change

W == INSTANCE Webhook WITH Request <- Upd
hooks == <<req, twice, table, served, age, reader, sure>>
allVars == <<vars, hooks, calm>>

WebInit ==
    /\ Init /\ W!HookInit
    /\ \/ calm = TRUE /\ W!Warm
       \/ calm = FALSE /\ main = "none" /\ W!Cold

Feeds(u) == req[u] = "accepted" /\ UpdateEnsures(u)

WebNext ==
    \/ calm /\ (Threads \/ CloseStarts) /\ UNCHANGED <<hooks, calm>>
    \/ ~calm /\ RunnerStarts /\ UNCHANGED <<hooks, calm>>
    \/ \E u \in Upd : (Feeds(u) \/ Updating(u) \/ UpdateAbandoned(u)) /\ UNCHANGED <<hooks, calm>>
    \/ main = "none" /\ (\E u \in Upd : W!Arrives(u) \/ W!Guarding(u)) /\ UNCHANGED <<vars, calm>>
    \/ ~calm /\ W!Outside /\ UNCHANGED <<vars, calm>>

(* As in SendLoop, and a request whose thread runs goes through the guards: *)
(* the read under the lock ends, one way or the other.                     *)
Proceeds(u) ==
    \/ W!Guarding(u) /\ UNCHANGED <<vars, calm>>
    \/ Feeds(u) /\ UNCHANGED <<hooks, calm>>

WebSpec ==
    /\ WebInit /\ [][WebNext]_allVars /\ Fairness
    /\ \A u \in Upd : WF_allVars(Proceeds(u))

-----------------------------------------------------------------------------
(* Properties *)

(* Every request that arrives is turned away, as unknown only for a cause, *)
(* or fed to the loop, and no accepted one waits for ever: it is answered  *)
(* or refused, close() included.  After a close() that could not join the  *)
(* loop thread, a stop is still queued for it, and an update accepted      *)
(* meanwhile waits for the next one to start another.                      *)
RequestsReturn ==
    /\ \A u \in Upd : req[u] # "new" ~> W!Answers(u) \/ upd[u] \in Returned \/ slow
    /\ [][\A u \in Upd : W!UnknownForCause(u)]_allVars
=============================================================================
