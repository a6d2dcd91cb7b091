------------------------------- MODULE SendLoop -------------------------------
(***************************************************************************)
(* One bot's event loop and the threads that meet on it: producer/client.py *)
(* with producer/looping.py and producer/outbound.py.                       *)
(*                                                                         *)
(* The loop is run by the main thread (start_tgbot), by a thread the bot    *)
(* starts for a web process, by a sender or a request that drives it for    *)
(* the length of one call, or by close() while it drains.  Senders hand     *)
(* coroutines over, requests hand updates over and wait, and close() stops  *)
(* the loop and takes it down under both of them.                           *)
(***************************************************************************)
EXTENDS Integers, FiniteSets

CONSTANTS
    Send,       \* sends asked of the bot, each by a thread of its own
    Upd,        \* updates, each brought by a request of its own
    NoOne,
    MaxLoops,   \* bound: loops built
    MaxCloses   \* bound: calls of close

ASSUME SendLoopAssumption ==
    /\ MaxLoops \in Nat /\ MaxCloses \in Nat
    /\ NoOne \notin Send \cup Upd \cup {"main", "runner", "closer"}
    /\ Send \cap Upd = {} /\ "closer" \notin Send \cup Upd

Loop == 1..MaxLoops
Thread == Send \cup Upd \cup {"main", "runner", "closer"}
Undecided == {"new", "checked", "locked", "driving"}
Over == {"done", "refused", "cancelled"}
SendState == Undecided \cup {"queued", "task", "inline"} \cup Over
Returned == {"answered", "refused", "raised", "gone"}
UpdState == {"new", "ensuring", "ensured", "locked", "driving", "inline", "waiting"}
            \cup Returned

VARIABLES
    main,       \* the main thread: "none" in a web process, else "before", "holding", "over"
    made,       \* loops built so far
    cur,        \* self._loop, 0 for None
    shut,       \* loops up to this one are closed
    driver,     \* driver[l]: the thread inside run_forever or run_until_complete
    lock,       \* lock[l]: who holds loop_lock(l)
    runner,     \* the loop thread: "none", "starting", "running", "dead"
    rloop,      \* the loop it was made for
    held,       \* self._runner is not None
    ready,      \* self._runner_ready
    stop,       \* loop.stop is queued for the loop thread
    closing, draining,
    send,       \* send[s]
    sloop,      \* sloop[s]: the loop its thread captured
    upd,        \* upd[u]
    uloop,      \* uloop[u]
    owned,      \* owned[u]: what _ensure_loop_runs answered
    pending,    \* the updates close() waits for
    cpc,        \* where close() is
    closes,     \* calls of close so far
    slow        \* history: the loop thread outlived a join

vars == <<main, made, cur, shut, driver, lock, runner, rloop, held, ready, stop, closing, draining,
          send, sloop, upd, uloop, owned, pending, cpc, closes, slow>>
loops == <<made, cur, shut>>
thread == <<runner, rloop, held, ready, stop>>
flags == <<closing, draining>>
sends == <<send, sloop>>
updates == <<upd, uloop, owned>>
closer == <<pending, cpc, closes, slow>>

LoopTyped ==
    /\ main \in {"none", "before", "holding", "over"}
    /\ made \in 0..MaxLoops /\ cur \in {0, made} /\ shut \in 0..made
    /\ runner \in {"none", "starting", "running", "dead"}
    /\ rloop \in 0..MaxLoops /\ held \in BOOLEAN /\ ready \in BOOLEAN /\ stop \in BOOLEAN
HeldTyped ==
    driver \in [Loop -> Thread \cup {NoOne}] /\ lock \in [Loop -> Thread \cup {NoOne}]
SendTyped ==
    send \in [Send -> SendState] /\ sloop \in [Send -> 0..MaxLoops]
UpdateTyped ==
    /\ upd \in [Upd -> UpdState] /\ uloop \in [Upd -> 0..MaxLoops]
    /\ owned \in [Upd -> BOOLEAN]
CloseTyped ==
    /\ closing \in BOOLEAN /\ draining \in BOOLEAN
    /\ pending \subseteq Upd
    /\ cpc \in {"idle", "draining", "marked", "snapshot", "waiting", "stopping", "joining",
                "checking", "locking", "turning", "finishing", "forgetting", "ending"}
    /\ closes \in 0..MaxCloses /\ slow \in BOOLEAN
TypeOK == LoopTyped /\ HeldTyped /\ SendTyped /\ UpdateTyped /\ CloseTyped

Init ==
    /\ main \in {"none", "before"}
    /\ made = 0 /\ cur = 0 /\ shut = 0
    /\ driver = [l \in Loop |-> NoOne] /\ lock = [l \in Loop |-> NoOne]
    /\ runner = "none" /\ rloop = 0 /\ held = FALSE /\ ready = FALSE /\ stop = FALSE
    /\ closing = FALSE /\ draining = FALSE
    /\ send = [s \in Send |-> "new"] /\ sloop = [s \in Send |-> 0]
    /\ upd = [u \in Upd |-> "new"] /\ uloop = [u \in Upd |-> 0]
    /\ owned = [u \in Upd |-> FALSE]
    /\ pending = {} /\ cpc = "idle" /\ closes = 0 /\ slow = FALSE

-----------------------------------------------------------------------------

(* The loop property: built by whoever asks first, under _build_guard. *)
TheLoop == IF cur # 0 THEN cur ELSE made + 1
Reached ==
    /\ TheLoop \in Loop
    /\ made' = IF cur # 0 THEN made ELSE made + 1
    /\ cur' = TheLoop

Running(l) == driver[l] # NoOne
Closed(l) == l <= shut
Alive == runner \in {"starting", "running"}

Moves(s, state) == send' = [send EXCEPT ![s] = state]
Goes(u, state) == upd' = [upd EXCEPT ![u] = state]
Takes(l, t) == lock' = [lock EXCEPT ![l] = t]
Drives(l, t) == driver' = [driver EXCEPT ![l] = t]

(* start_tgbot: the main thread runs the loop, polling or idling on it, and  *)
(* the consumers start only once it turns; a signal ends it.                *)
MainHolds ==
    /\ main = "before"
    /\ Reached /\ ~Running(TheLoop) /\ Drives(TheLoop, "main")
    /\ main' = "holding"
    /\ UNCHANGED <<shut, lock, thread, flags, sends, updates, closer>>

MainEnds ==
    /\ main = "holding"
    /\ Drives(cur, NoOne) /\ main' = "over"
    /\ UNCHANGED <<loops, lock, thread, flags, sends, updates, closer>>

-----------------------------------------------------------------------------
(* A send: send_raw and _schedule *)

(* The first look at _closing, on the thread that asks, and the loop it     *)
(* captures.  A refusal gives the slot back (on_refused).                   *)
SendStarts(s) ==
    /\ send[s] = "new" /\ main # "before"
    /\ \/ closing /\ Moves(s, "refused") /\ UNCHANGED <<loops, sloop>>
       \/ /\ ~closing /\ Moves(s, "checked")
          /\ Reached /\ sloop' = [sloop EXCEPT ![s] = TheLoop]
          /\ UNCHANGED shut
    /\ UNCHANGED <<main, driver, lock, thread, flags, updates, closer>>

(* A handler sends on the loop it runs on: a task at once. *)
SendFromHandler(s) ==
    /\ send[s] = "new"
    /\ \E u \in Upd :
          /\ upd[u] \in {"waiting", "inline"} /\ Running(uloop[u])
          /\ Moves(s, IF closing THEN "refused" ELSE "task")
          /\ sloop' = [sloop EXCEPT ![s] = uloop[u]]
    /\ UNCHANGED <<main, loops, driver, lock, thread, flags, updates, closer>>

(* loop_lock, and the second look under it: close() may have finished. *)
SendLocks(s) ==
    LET l == sloop[s]
    IN /\ send[s] = "checked" /\ lock[l] = NoOne
       /\ IF closing \/ Closed(l)
          THEN Moves(s, "refused") /\ UNCHANGED lock
          ELSE Moves(s, "locked") /\ Takes(l, s)
       /\ UNCHANGED <<main, loops, driver, thread, flags, sloop, updates, closer>>

(* Something runs this loop, or a thread of ours is about to: hand over.    *)
(* Otherwise drive it here.                                                 *)
SendDecides(s) ==
    LET l == sloop[s]
    IN /\ send[s] = "locked"
       /\ IF Running(l) \/ (held /\ Alive)
          THEN Moves(s, "queued") /\ Takes(l, NoOne)
          ELSE Moves(s, "driving") /\ UNCHANGED lock
       /\ UNCHANGED <<main, loops, driver, thread, flags, sloop, updates, closer>>

(* run_until_complete, which raises where a thread has started to run the   *)
(* loop since the look above: then the coroutine is handed over after all.  *)
SendDrives(s) ==
    LET l == sloop[s]
    IN /\ send[s] = "driving"
       /\ IF Running(l)
          THEN Moves(s, "queued") /\ Takes(l, NoOne) /\ UNCHANGED driver
          ELSE Moves(s, "inline") /\ Drives(l, s) /\ UNCHANGED lock
       /\ UNCHANGED <<main, loops, thread, flags, sloop, updates, closer>>

(* _hand_off.start, run by whoever drives the loop: a registered task, or a *)
(* refusal once close() will not run it.                                    *)
HandOffStarts(s) ==
    /\ send[s] = "queued" /\ Running(sloop[s])
    /\ Moves(s, IF closing /\ ~draining THEN "refused" ELSE "task")
    /\ UNCHANGED <<main, loops, driver, lock, thread, flags, sloop, updates, closer>>

(* The send is over, whichever way: on_complete. *)
SendEnds(s) ==
    LET l == sloop[s]
    IN /\ Moves(s, "done")
       /\ \/ send[s] = "task" /\ Running(l) /\ UNCHANGED <<driver, lock>>
          \/ send[s] = "inline" /\ Drives(l, NoOne) /\ Takes(l, NoOne)
       /\ UNCHANGED <<main, loops, thread, flags, sloop, updates, closer>>

-----------------------------------------------------------------------------
(* An update: feed_update, afeed_update and _submit_update *)

(* _ensure_loop_runs, up to the wait: the loop gets a thread, once.  A       *)
(* thread found dead is replaced.                                           *)
UpdateEnsures(u) ==
    /\ upd[u] = "new" /\ main = "none"
    /\ \/ /\ closing
          /\ Goes(u, "ensured") /\ owned' = [owned EXCEPT ![u] = FALSE]
          /\ UNCHANGED <<loops, runner, rloop, held, ready>>
       \/ /\ ~closing /\ held /\ Alive
          /\ Goes(u, "ensuring") /\ UNCHANGED <<loops, runner, rloop, held, ready, owned>>
       \/ /\ ~closing /\ ~(held /\ Alive)
          /\ Reached /\ ready' = FALSE /\ UNCHANGED shut
          /\ IF Running(TheLoop) \/ Closed(TheLoop)
             THEN /\ Goes(u, "ensured") /\ owned' = [owned EXCEPT ![u] = FALSE]
                  /\ held' = FALSE /\ UNCHANGED <<runner, rloop>>
             ELSE /\ Goes(u, "ensuring") /\ UNCHANGED owned
                  /\ held' = TRUE /\ runner' = "starting" /\ rloop' = TheLoop
    /\ UNCHANGED <<main, driver, lock, stop, flags, sends, uloop, closer>>

(* The loop thread begins.  It dies where the loop is driven already, and    *)
(* its readiness callback is then run by whoever drives it, or where the    *)
(* loop has been closed.                                                    *)
RunnerStarts ==
    /\ runner = "starting"
    /\ \/ /\ ~Running(rloop) /\ ~Closed(rloop)
          /\ runner' = "running" /\ ready' = TRUE /\ Drives(rloop, "runner")
       \/ Running(rloop) /\ runner' = "dead" /\ ready' = TRUE /\ UNCHANGED driver
       \/ Closed(rloop) /\ runner' = "dead" /\ UNCHANGED <<ready, driver>>
    /\ UNCHANGED <<main, loops, lock, rloop, held, stop, flags, sends, updates, closer>>

(* The wait for the thread is over, ready or out of time. *)
UpdateEnsured(u) ==
    /\ upd[u] = "ensuring"
    /\ Goes(u, "ensured") /\ owned' = [owned EXCEPT ![u] = held]
    /\ UNCHANGED <<main, loops, driver, lock, thread, flags, sends, uloop, closer>>

(* The loop is captured. *)
UpdateCaptures(u) ==
    /\ upd[u] = "ensured" /\ uloop[u] = 0
    /\ Reached /\ uloop' = [uloop EXCEPT ![u] = TheLoop]
    /\ UNCHANGED <<main, shut, driver, lock, thread, flags, sends, upd, owned, closer>>

(* Mutant of Refusing: only a closed loop refuses. *)
RefusingWhenClosed(l) == Closed(l)

(* Why _submit_update refuses under the lock. *)
Refusing(l) == closing \/ Closed(l)

UpdateLocks(u) ==
    LET l == uloop[u]
    IN /\ upd[u] = "ensured" /\ l # 0 /\ lock[l] = NoOne
       /\ IF Refusing(l)
          THEN Goes(u, "refused") /\ UNCHANGED lock
          ELSE Goes(u, "locked") /\ Takes(l, u)
       /\ UNCHANGED <<main, loops, driver, thread, flags, sends, uloop, owned, closer>>

(* Submitted to a running loop; refused while our own thread is late;        *)
(* otherwise driven here.                                                   *)
UpdateDecides(u) ==
    LET l == uloop[u]
    IN /\ upd[u] = "locked"
       /\ \/ Running(l) /\ Goes(u, "waiting") /\ Takes(l, NoOne)
          \/ ~Running(l) /\ owned[u] /\ Goes(u, "refused") /\ Takes(l, NoOne)
          \/ ~Running(l) /\ ~owned[u] /\ Goes(u, "driving") /\ UNCHANGED lock
       /\ UNCHANGED <<main, loops, driver, thread, flags, sends, uloop, owned, closer>>

(* run_until_complete: it raises if the loop has begun to run, which the     *)
(* view reports as a handler that failed.                                   *)
UpdateDrives(u) ==
    LET l == uloop[u]
    IN /\ upd[u] = "driving"
       /\ IF Running(l)
          THEN Goes(u, "raised") /\ Takes(l, NoOne) /\ UNCHANGED driver
          ELSE Goes(u, "inline") /\ Drives(l, u) /\ UNCHANGED lock
       /\ UNCHANGED <<main, loops, thread, flags, sends, uloop, owned, closer>>

(* The handlers have run and the request is answered. *)
UpdateEnds(u) ==
    LET l == uloop[u]
    IN /\ Goes(u, "answered")
       /\ \/ upd[u] = "waiting" /\ Running(l) /\ UNCHANGED <<driver, lock>>
          \/ upd[u] = "inline" /\ Drives(l, NoOne) /\ Takes(l, NoOne)
       /\ UNCHANGED <<main, loops, thread, flags, sends, uloop, owned, closer>>

(* An awaiting client goes away: the update is forgotten. *)
UpdateAbandoned(u) ==
    /\ upd[u] = "waiting" /\ Goes(u, "gone")
    /\ UNCHANGED <<main, loops, driver, lock, thread, flags, sends, uloop, owned, closer>>

-----------------------------------------------------------------------------
(* close() *)

(* Mutant of CloseStarts: closing before draining. *)
CloseStartsClosing ==
    /\ cpc = "idle" /\ closes < MaxCloses /\ main \in {"none", "over"}
    /\ closing' = TRUE /\ cpc' = "draining" /\ closes' = closes + 1
    /\ UNCHANGED <<main, loops, driver, lock, thread, draining, sends, updates, pending, slow>>

CloseStarts ==
    /\ cpc = "idle" /\ closes < MaxCloses /\ main \in {"none", "over"}
    /\ draining' = TRUE /\ cpc' = "draining" /\ closes' = closes + 1
    /\ UNCHANGED <<main, loops, driver, lock, thread, closing, sends, updates, pending, slow>>

CloseMarks ==
    /\ cpc = "draining"
    /\ closing' = TRUE /\ draining' = TRUE /\ cpc' = "marked"
    /\ UNCHANGED <<main, loops, driver, lock, thread, sends, updates, pending, closes, slow>>

(* _stop_runner takes the thread out of reach first. *)
TakeRunner ==
    /\ cpc = "marked"
    /\ held' = FALSE /\ ready' = FALSE
    /\ cpc' = IF held THEN "snapshot" ELSE "checking"
    /\ UNCHANGED <<main, loops, driver, lock, runner, rloop, stop, flags, sends, updates,
                   pending, closes, slow>>

(* The set _updates: submitted, and not forgotten by whoever waits. *)
Awaited == {u \in Upd : upd[u] = "waiting"}

(* Under loop_lock, where there is a loop: the updates somebody waits on.  *)
Snapshot ==
    /\ cpc = "snapshot" /\ (cur # 0 => lock[cur] = NoOne)
    /\ pending' = Awaited /\ cpc' = "waiting"
    /\ UNCHANGED <<main, loops, driver, lock, thread, flags, sends, updates, closes, slow>>

(* They have finished, or the drain's time is over and they are cancelled.  *)
EndUpdates ==
    /\ cpc = "waiting"
    /\ upd' = [u \in Upd |-> IF u \in pending /\ upd[u] = "waiting" THEN "refused" ELSE upd[u]]
    /\ pending' = {} /\ cpc' = "stopping"
    /\ UNCHANGED <<main, loops, driver, lock, thread, flags, sends, uloop, owned, closes, slow>>

(* loop.stop, only while the thread is there to consume it. *)
AskStop ==
    /\ cpc = "stopping"
    /\ stop' = (cur # 0 /\ Alive) /\ cpc' = "joining"
    /\ UNCHANGED <<main, loops, driver, lock, runner, rloop, held, ready, flags, sends,
                   updates, pending, closes, slow>>

RunnerStops ==
    /\ runner = "running" /\ stop
    /\ runner' = "dead" /\ stop' = FALSE /\ Drives(rloop, NoOne)
    /\ UNCHANGED <<main, loops, lock, rloop, held, ready, flags, sends, updates, closer>>

(* The join ends: the thread is gone, or it outlived RUNNER_TIMEOUT and is  *)
(* put back.                                                                *)
Join ==
    /\ cpc = "joining"
    /\ \/ ~Alive /\ runner' = "none" /\ UNCHANGED <<held, ready, slow>>
       \/ Alive /\ held' = TRUE /\ ready' = TRUE /\ slow' = TRUE /\ UNCHANGED runner
    /\ cpc' = "checking"
    /\ UNCHANGED <<main, loops, driver, lock, rloop, stop, flags, sends, updates, pending,
                   closes>>

(* A running loop cannot be taken down: close() gives up and may be called  *)
(* again.                                                                   *)
CloseChecks ==
    /\ cpc = "checking"
    /\ cpc' = IF cur = 0 \/ Running(cur) THEN "ending" ELSE "locking"
    /\ UNCHANGED <<main, loops, driver, lock, thread, flags, sends, updates, pending, closes,
                   slow>>

(* _drain under loop_lock: one turn of the loop, in which what was handed   *)
(* over becomes tasks.                                                      *)
DrainTurns ==
    /\ cpc = "locking" /\ lock[cur] = NoOne /\ ~Running(cur)
    /\ Takes(cur, "closer") /\ Drives(cur, "closer")
    /\ draining' = TRUE /\ cpc' = "turning"
    /\ UNCHANGED <<main, loops, thread, closing, sends, updates, pending, closes, slow>>

(* The loop thread got going after all, under the lock: the drain is skipped *)
(* and the teardown raises.                                                 *)
CloseRaises ==
    /\ cpc = "locking" /\ lock[cur] = NoOne /\ Running(cur)
    /\ cpc' = "ending"
    /\ UNCHANGED <<main, loops, driver, lock, thread, flags, sends, updates, pending, closes,
                   slow>>

Waits(s) == send[s] = "queued" /\ sloop[s] = cur

(* Mutant of TurnEnds: the drain waits for the tasks without a turn first. *)
TurnSkipped ==
    /\ cpc = "turning"
    /\ draining' = FALSE /\ cpc' = "finishing"
    /\ UNCHANGED <<main, loops, driver, lock, thread, closing, sends, updates, pending, closes,
                   slow>>

TurnEnds ==
    /\ cpc = "turning" /\ \A s \in Send : ~Waits(s)
    /\ draining' = FALSE /\ cpc' = "finishing"
    /\ UNCHANGED <<main, loops, driver, lock, thread, closing, sends, updates, pending, closes,
                   slow>>

(* The set _sends of a loop. *)
Registered(l) == {s \in Send : send[s] = "task" /\ sloop[s] = l}

(* The tasks have finished, or outlast the drain and are cancelled; the     *)
(* session and the loop are closed.                                         *)
TearDown ==
    /\ cpc = "finishing"
    /\ send' = [s \in Send |-> IF s \in Registered(cur) THEN "cancelled" ELSE send[s]]
    /\ shut' = cur /\ Drives(cur, NoOne) /\ Takes(cur, NoOne)
    /\ cpc' = "forgetting"
    /\ UNCHANGED <<main, made, cur, thread, flags, sloop, updates, pending, closes, slow>>

Forget ==
    /\ cpc = "forgetting"
    /\ cur' = 0 /\ cpc' = "ending"
    /\ UNCHANGED <<main, made, shut, driver, lock, thread, flags, sends, updates, pending,
                   closes, slow>>

(* The finally of close(): closing first, then draining. *)
CloseUnmarks ==
    /\ cpc = "ending" /\ closing
    /\ closing' = FALSE
    /\ UNCHANGED <<main, loops, driver, lock, thread, draining, sends, updates, closer>>

CloseEnds ==
    /\ cpc = "ending" /\ ~closing
    /\ draining' = FALSE /\ cpc' = "idle"
    /\ UNCHANGED <<main, loops, driver, lock, thread, closing, sends, updates, pending, closes,
                   slow>>

-----------------------------------------------------------------------------

Sending(s) ==
    SendStarts(s) \/ SendFromHandler(s) \/ SendLocks(s) \/ SendDecides(s) \/ SendDrives(s)
    \/ HandOffStarts(s) \/ SendEnds(s)
Updating(u) ==
    UpdateEnsured(u) \/ UpdateCaptures(u) \/ UpdateLocks(u) \/ UpdateDecides(u)
    \/ UpdateDrives(u) \/ UpdateEnds(u)
Closing ==
    CloseMarks \/ TakeRunner \/ Snapshot \/ EndUpdates \/ AskStop \/ Join \/ CloseChecks
    \/ DrainTurns \/ CloseRaises \/ TurnEnds \/ TearDown \/ Forget \/ CloseUnmarks \/ CloseEnds

Threads ==
    \/ MainHolds \/ MainEnds \/ RunnerStarts \/ RunnerStops \/ Closing
    \/ \E s \in Send : Sending(s)

Next ==
    \/ Threads \/ CloseStarts
    \/ \E u \in Upd : UpdateEnsures(u) \/ Updating(u) \/ UpdateAbandoned(u)

(* Every thread goes on, locks are handed on, a running loop runs what it    *)
(* has, and handlers end.  Nobody has to send, to bring an update, to hang   *)
(* up, to signal or to close.                                               *)
Fairness ==
    /\ WF_vars(RunnerStarts) /\ WF_vars(RunnerStops) /\ WF_vars(Closing)
    /\ \A s \in Send : /\ SF_vars(SendLocks(s)) /\ WF_vars(SendDecides(s))
                       /\ WF_vars(SendDrives(s)) /\ WF_vars(HandOffStarts(s))
                       /\ WF_vars(SendEnds(s))
    /\ \A u \in Upd : SF_vars(UpdateLocks(u)) /\ WF_vars(Updating(u))

Spec == Init /\ [][Next]_vars /\ Fairness

-----------------------------------------------------------------------------
(* Properties *)

(* What a loop was handed is never left on it: when close() has taken a     *)
(* loop down, every send handed to it has finished, was refused, or was     *)
(* cancelled with a drop recorded (_drain, _register).                      *)
NothingLost ==
    \A s \in Send : send[s] \in {"queued", "task", "inline"} => ~Closed(sloop[s])

(* A send handed over before close() began is not refused by it: the order  *)
(* of the two flags keeps the state between them harmless.                  *)
HandOffKept == [][\A s \in Send : send[s] = "queued" => send'[s] # "refused"]_vars
==============================================================================
