----------------------------- MODULE Container -----------------------------
(***************************************************************************)
(* A bot container: the start command (start_tgbot.py) and the consumers   *)
(* it runs (consumer/serving.py).  The main thread builds the startup set, *)
(* turns the loop, and unwinds on a signal; the watch thread re-reads the  *)
(* queues to serve; every consumer has a thread of its own and sends that  *)
(* finish on the loop, after the thread if need be.                        *)
(*                                                                         *)
(* The queues a container serves are named, or are those of its pools in   *)
(* the queue table; queues that share a connection make one lane, read by  *)
(* one consumer.  A consumer is modelled by what decides who may settle    *)
(* it: its thread, a send that is out, and whether it owes a settlement    *)
(* only it can make (module Delivery has the rest).  A signal arrives      *)
(* between two callbacks of the loop.                                      *)
(***************************************************************************)
EXTENDS Naturals, FiniteSets

CONSTANTS
    Queue,
    Own,          \* the queue the settings name
    LaneOf,       \* [Queue -> the key lanes() files it under]
    Namings,      \* what --queues may name
    Tables,       \* what the queue table may hold at first
    MaxConsumers, \* bound: consumers ever built
    MaxChanges,   \* bound: changes of the queue table
    MaxMishaps     \* bound: failed builds, refusals, joins timed out, failed reads

Row == {"none", "ours", "theirs"}   \* no row, one in our pools, one in another

ASSUME ContainerAssumption ==
    /\ {MaxConsumers, MaxChanges, MaxMishaps} \subseteq Nat
    /\ Own \in Queue /\ Namings \subseteq SUBSET Queue /\ Tables \subseteq [Queue -> Row]
    /\ DOMAIN LaneOf = Queue

Consumer == 1..MaxConsumers
None == 0

(* lanes(): the queues of a set by the connection they share *)
Lane == {LaneOf[q] : q \in Queue}
Of(set, l) == {q \in set : LaneOf[q] = l}
Lanes(set) == {LaneOf[q] : q \in set}

VARIABLES
    table,    \* [Queue -> its row]
    changes,
    main,     \* the main thread
    consumes, \* whether this run consumes the queues
    names,    \* --queues
    pools,    \* whether --pools names ours
    startup,  \* the queues of the startup set, as read
    callback, \* start_consuming: "queued", "run" or "over"
    watch,    \* the watch thread
    read,     \* what it read last
    shutting, \* shutting_down
    done,     \* _done
    holder,   \* who holds _lock
    at,       \* where its pass is
    asked,    \* the queues of the pass
    todo,     \* lanes the pass has still to come to
    awaited,  \* the consumer whose thread is being joined
    refused,  \* a stop of this pass refused
    running,  \* [Lane -> its consumer]
    ready,    \* [Lane -> built and not started]
    stopped,  \* consumers stopped and not settled yet
    made,     \* consumers built so far
    laneOf,   \* [Consumer -> its lane]
    serves,   \* [Consumer -> the queues it was told]
    thread,   \* [Consumer -> "none", "turning", "told" to stop, "gone"]
    sending,  \* consumers with a send on the loop
    owes,     \* consumers with something only they can settle
    clash,    \* consumers settled while their thread was turning
    dropped,  \* consumers settled and forgotten with a send still out
    mishaps

table_ == <<table, changes>>
options == <<consumes, names, pools, startup>>
process == <<main, options, callback, watch, read, shutting>>
pass == <<holder, at, asked, todo, awaited, refused, done>>
held == <<running, ready, stopped>>
consumers == <<made, laneOf, serves, thread, sending, owes>>
ghosts == <<clash, dropped>>
containerVars == <<table_, process, pass, held, consumers, ghosts, mishaps>>

ContainerTypeOK ==
    /\ table \in [Queue -> Row] /\ changes \in 0..MaxChanges
    /\ {names, startup, read, asked} \subseteq SUBSET Queue
    /\ main \in {"roles", "idle", "build", "loop", "callback", "stop", "close", "collect", "over", "refused"}
    /\ callback \in {"queued", "run", "over"}
    /\ watch \in {"none", "idle", "read", "pass", "over"}
    /\ {consumes, pools, shutting, done, refused} \subseteq BOOLEAN
    /\ holder \in {"nobody", "main", "watch"} /\ at \in {"free", "gone", "start", "shutdown"}
    /\ todo \subseteq Lane /\ awaited \in Consumer \cup {None}
    /\ {running, ready} \subseteq [Lane -> Consumer \cup {None}] /\ stopped \subseteq Consumer
    /\ made \in 0..MaxConsumers /\ \A c \in 1..made : laneOf[c] \in Lane
    /\ serves \in [Consumer -> SUBSET Queue] /\ thread \in [Consumer -> {"none", "turning", "told", "gone"}]
    /\ {sending, owes, clash, dropped} \subseteq SUBSET Consumer
    /\ mishaps \in 0..MaxMishaps

(* served_by(): the queues named and those of the pools, or the settings'  *)
(* own queue where neither was asked for.                                  *)
ToldNothing == names = {} /\ ~pools
InPools(t) == {q \in Queue : t[q] = "ours"}
Declared(t) == {q \in Queue : t[q] # "none"}
ServedBy(t) ==
    IF ToldNothing THEN {Own} ELSE names \cup (IF pools THEN InPools(t) ELSE {})
(* It raises for a name nothing declares, unless the table cannot be read. *)
Refuses(t) == ~ToldNothing /\ ~(names \subseteq Declared(t))

ContainerInit ==
    /\ table \in Tables /\ changes = 0
    /\ main = "roles" /\ consumes = FALSE /\ startup = {} /\ callback = "queued"
    /\ names \in Namings /\ pools \in BOOLEAN
    /\ watch = "none" /\ read = {} /\ shutting = FALSE
    /\ holder = "nobody" /\ at = "free" /\ asked = {} /\ todo = {} /\ awaited = None
    /\ refused = FALSE /\ done = FALSE
    /\ running = [l \in Lane |-> None] /\ ready = [l \in Lane |-> None] /\ stopped = {}
    /\ made = 0 /\ laneOf = [c \in Consumer |-> CHOOSE l \in Lane : TRUE] /\ serves = [c \in Consumer |-> {}]
    /\ thread = [c \in Consumer |-> "none"] /\ sending = {} /\ owes = {}
    /\ clash = {} /\ dropped = {} /\ mishaps = 0

Mishap == mishaps < MaxMishaps /\ mishaps' = mishaps + 1
Alive(c) == thread[c] \in {"turning", "told"}

(* collect() of a set of consumers, by a thread that is not theirs. *)
Settles(set) ==
    /\ owes' = owes \ set
    /\ clash' = clash \cup {c \in set : Alive(c)}

----------------------------------------------------------------------------
(* The consumers *)

(* A consumer's thread hands a send to the loop, settling what finished.   *)
(* A bot that is closed takes nothing.                                     *)
Sends(c) ==
    /\ Alive(c) /\ c \notin sending
    /\ main \notin {"collect", "over"}
    /\ sending' = sending \cup {c}
    /\ owes' = owes \ {c}
    /\ UNCHANGED <<table_, process, pass, held, made, laneOf, serves, thread, ghosts, mishaps>>

(* The send reports into the queue its own consumer reads. *)
SendFinishes(c) ==
    /\ c \in sending
    /\ sending' = sending \ {c}
    /\ owes' = owes \cup {c}
    /\ UNCHANGED <<table_, process, pass, held, made, laneOf, serves, thread, ghosts, mishaps>>

(* run() returns, collecting once more. *)
ThreadEnds(c) ==
    /\ thread[c] = "told"
    /\ thread' = [thread EXCEPT ![c] = "gone"]
    /\ owes' = owes \ {c}
    /\ UNCHANGED <<table_, process, pass, held, made, laneOf, serves, sending, ghosts, mishaps>>

(* build(): the consumer reclaims as it is built. *)
Builds(l, queues) ==
    /\ made < MaxConsumers
    /\ made' = made + 1
    /\ laneOf' = [laneOf EXCEPT ![made + 1] = l]
    /\ serves' = [serves EXCEPT ![made + 1] = queues]

----------------------------------------------------------------------------
(* Startup *)

(* What the flags leave for this process to do.  A contradiction between   *)
(* them is refused first, then a disabled bot ends the command or idles;   *)
(* then a run its mode leaves nothing to do is refused, and one that would *)
(* consume queues and is given none.                                       *)
Mode == {"polling", "webhook"}
Flags == [noUpdates : BOOLEAN, updatesOnly : BOOLEAN, serve : BOOLEAN, idle : BOOLEAN,
          mode : Mode \cup {""}, configured : Mode, enabled : BOOLEAN]
Webhook(f) == (IF f.mode # "" THEN f.mode ELSE f.configured) = "webhook"
Contradicts(f) == f.noUpdates /\ f.updatesOnly
Jobless(f) ==
    \/ f.serve /\ (~Webhook(f) \/ f.noUpdates)
    \/ f.updatesOnly /\ Webhook(f)
NoQueues(f) == ~f.updatesOnly /\ (Refuses(table) \/ ServedBy(table) = {})

Handle ==
    /\ main = "roles"
    /\ \E f \in Flags :
        /\ main' = CASE Contradicts(f) -> "refused"
                     [] ~Contradicts(f) /\ ~f.enabled -> IF f.idle THEN "idle" ELSE "over"
                     [] OTHER -> IF Jobless(f) \/ NoQueues(f) THEN "refused" ELSE "build"
        /\ consumes' = (main' = "build" /\ ~f.updatesOnly)
        /\ startup' = IF consumes' THEN ServedBy(table) ELSE {}
    /\ UNCHANGED <<table_, names, pools, callback, watch, read, shutting, pass, held, consumers, ghosts, mishaps>>

(* _idle_until_signalled: a disabled container has nothing to unwind but   *)
(* the log.                                                                *)
Idle ==
    /\ main = "idle" /\ main' = "over"
    /\ UNCHANGED <<table_, options, callback, watch, read, shutting, pass, held, consumers, ghosts, mishaps>>

(* _built_for(): one lane after the other, before anything is started. *)
BuildNext(l) ==
    /\ main = "build" /\ l \in Lanes(startup) /\ ready[l] = None
    /\ Builds(l, Of(startup, l))
    /\ ready' = [ready EXCEPT ![l] = made + 1]
    /\ owes' = owes \cup {made + 1}
    /\ UNCHANGED <<table_, process, pass, running, stopped, thread, sending, ghosts, mishaps>>

(* A refusal settles what was built and ends the command: building it      *)
(* failed, or _require_crash_safety refused what it had built, after it    *)
(* reclaimed.                                                              *)
BuildRefused(l) ==
    /\ main = "build" /\ l \in Lanes(startup) /\ ready[l] = None
    /\ Mishap
    /\ \/ Settles(owes) /\ UNCHANGED <<made, laneOf, serves>>
       \/ Builds(l, Of(startup, l)) /\ Settles(owes \cup {made + 1})
    /\ main' = "refused"
    /\ UNCHANGED <<table_, options, callback, watch, read, shutting, pass, held, thread, sending, dropped>>

Built ==
    /\ main = "build" /\ \A l \in Lanes(startup) : ready[l] # None
    /\ main' = "loop"
    /\ UNCHANGED <<table_, options, callback, watch, read, shutting, pass, held, consumers, ghosts, mishaps>>

----------------------------------------------------------------------------
(* reconcile() *)

(* The lock is taken; nothing is done once the shutdown began. *)
Begins(who, queues) ==
    /\ at = "free"
    /\ refused' = FALSE
    /\ IF done
       THEN UNCHANGED <<holder, at, asked, todo>>
       ELSE /\ holder' = who /\ at' = "gone" /\ asked' = queues /\ todo' = Lanes(queues)
    /\ UNCHANGED <<awaited, done>>

(* start_consuming, as the loop comes to it. *)
StartConsuming ==
    /\ main = "loop" /\ callback = "queued"
    /\ Begins("main", startup)
    /\ callback' = "run" /\ main' = "callback"
    /\ UNCHANGED <<table_, options, watch, read, shutting, held, consumers, ghosts, mishaps>>

(* _watch_the_queues: a read that failed, or that finds a name nothing     *)
(* declares, keeps what there is.  Without a pool a table that cannot be   *)
(* read refuses nothing, and the names are served.                         *)
WatchReads ==
    /\ watch = "idle" /\ ~shutting /\ ~Refuses(table)
    /\ read' = ServedBy(table) /\ watch' = "read"
    /\ UNCHANGED <<table_, main, options, callback, shutting, pass, held, consumers, ghosts, mishaps>>

WatchCannotRead ==
    /\ watch = "idle" /\ ~shutting
    /\ Mishap
    /\ IF pools THEN UNCHANGED <<watch, read>> ELSE watch' = "read" /\ read' = names
    /\ UNCHANGED <<table_, main, options, callback, shutting, pass, held, consumers, ghosts>>

WatchBegins ==
    /\ watch = "read"
    /\ Begins("watch", read)
    /\ watch' = IF done THEN "idle" ELSE "pass"
    /\ UNCHANGED <<table_, main, options, callback, read, shutting, held, consumers, ghosts, mishaps>>

WatchEnds ==
    /\ watch = "idle" /\ shutting
    /\ watch' = "over"
    /\ UNCHANGED <<table_, main, options, callback, read, shutting, pass, held, consumers, ghosts, mishaps>>

(* _stop(): the consumer leaves the running set and is told, or refuses;   *)
(* its thread is joined before anything else.                              *)
Stops(l, spent) ==
    \E refuses \in BOOLEAN :
        /\ running' = [running EXCEPT ![l] = None]
        /\ awaited' = running[l]
        /\ thread' = IF refuses THEN thread ELSE [thread EXCEPT ![running[l]] = "told"]
        /\ refused' = (refused \/ refuses)
        /\ mishaps' = mishaps + spent + IF refuses THEN 1 ELSE 0
        /\ mishaps' <= MaxMishaps

Passing(phase) == at = phase /\ awaited = None

StopGone(l) ==
    /\ Passing("gone") /\ running[l] # None /\ l \notin Lanes(asked)
    /\ Stops(l, 0)
    /\ UNCHANGED <<table_, process, holder, at, asked, todo, done, ready, stopped,
                   made, laneOf, serves, sending, owes, ghosts>>

(* The thread ended, or outlived its join; one that was not told does. *)
Joined ==
    /\ awaited # None
    /\ IF thread[awaited] = "told" THEN Mishap ELSE UNCHANGED mishaps
    /\ stopped' = stopped \cup {awaited}
    /\ awaited' = None
    /\ UNCHANGED <<table_, process, holder, at, asked, todo, refused, done, running, ready,
                   consumers, ghosts>>

(* _settle_what_has_stopped(): whoever's thread has gone. *)
ToSettle == {c \in stopped : ~Alive(c)}
SettlesStopped ==
    /\ Settles(ToSettle)
    /\ stopped' = stopped \ ToSettle
    /\ dropped' = dropped \cup (ToSettle \cap sending)

SettleGone ==
    /\ Passing("gone") /\ \A l \in Lane : running[l] # None => l \in Lanes(asked)
    /\ SettlesStopped
    /\ at' = "start"
    /\ UNCHANGED <<table_, process, holder, asked, todo, awaited, refused, done, running, ready,
                   made, laneOf, serves, thread, sending, mishaps>>

(* _follow(): a consumer whose queues changed is told, and stopped if it   *)
(* cannot take them.                                                       *)
TellsNothing(l) == UNCHANGED serves
Tells(l) == serves' = [serves EXCEPT ![running[l]] = Of(asked, l)]
Follow(l) ==
    /\ Passing("start") /\ l \in todo /\ running[l] # None
    /\ todo' = todo \ {l}
    /\ \/ /\ Tells(l)
          /\ UNCHANGED <<awaited, refused, running, thread, mishaps>>
       \/ /\ serves[running[l]] # Of(asked, l)
          /\ Stops(l, 1)
          /\ UNCHANGED serves
    /\ UNCHANGED <<table_, process, holder, at, asked, done, ready, stopped,
                   made, laneOf, sending, owes, ghosts>>

(* The previous consumer of the lane is still inside run(): another time. *)
NeverTurning(l) == FALSE
StillTurning(l) == \E c \in stopped : laneOf[c] = l /\ Alive(c)
Skip(l) ==
    /\ Passing("start") /\ l \in todo /\ running[l] = None /\ StillTurning(l)
    /\ todo' = todo \ {l}
    /\ UNCHANGED <<table_, process, holder, at, asked, awaited, refused, done, held, consumers, ghosts, mishaps>>

Start(l) ==
    /\ Passing("start") /\ l \in todo /\ running[l] = None /\ ~StillTurning(l)
    /\ todo' = todo \ {l}
    /\ LET c == IF ready[l] # None THEN ready[l] ELSE made + 1 IN
       /\ IF ready[l] # None THEN UNCHANGED <<made, laneOf, serves>> ELSE Builds(l, Of(asked, l))
       /\ running' = [running EXCEPT ![l] = c]
       /\ thread' = [thread EXCEPT ![c] = "turning"]
       /\ owes' = owes \cup {c}
    /\ ready' = [ready EXCEPT ![l] = None]
    /\ UNCHANGED <<table_, process, holder, at, asked, awaited, refused, done, stopped, sending, ghosts, mishaps>>

(* Building or starting it failed: what was built is settled, and the next *)
(* pass tries again.                                                       *)
StartFails(l) ==
    /\ Passing("start") /\ l \in todo /\ running[l] = None /\ ~StillTurning(l)
    /\ Mishap
    /\ todo' = todo \ {l}
    /\ Settles({ready[l]} \ {None})
    /\ ready' = [ready EXCEPT ![l] = None]
    /\ UNCHANGED <<table_, process, holder, at, asked, awaited, refused, done, running, stopped,
                   made, laneOf, serves, thread, sending, dropped>>

(* The callback starts the watch after its pass, which had nothing to      *)
(* stop.  A refusal is raised at the end of a pass: it ends the watch.     *)
PassEnds ==
    /\ Passing("start") /\ todo = {}
    /\ holder' = "nobody" /\ at' = "free"
    /\ IF holder = "main"
       THEN main' = "loop" /\ callback' = "over" /\ watch' = IF consumes /\ ~ToldNothing THEN "idle" ELSE "none"
       ELSE watch' = (IF refused THEN "over" ELSE "idle") /\ UNCHANGED <<main, callback>>
    /\ UNCHANGED <<table_, options, read, shutting, asked, todo, awaited, refused, done, held,
                   consumers, ghosts, mishaps>>

----------------------------------------------------------------------------
(* The signal and _unwind() *)

(* _hold_the_process turns the loop, whatever this run is for. *)
Holding == main = "loop"

Signal ==
    /\ Holding
    /\ main' = "stop" /\ shutting' = TRUE
    /\ UNCHANGED <<table_, options, callback, watch, read, pass, held, consumers, ghosts, mishaps>>

StopBegins ==
    /\ main = "stop" /\ at = "free"
    /\ holder' = "main" /\ at' = "shutdown" /\ done' = TRUE
    /\ UNCHANGED <<table_, process, asked, todo, awaited, refused, held, consumers, ghosts, mishaps>>

StopRunning(l) ==
    /\ Passing("shutdown") /\ running[l] # None
    /\ Stops(l, 0)
    /\ UNCHANGED <<table_, process, holder, at, asked, todo, done, ready, stopped,
                   made, laneOf, serves, sending, owes, ghosts>>

(* The consumers never started are stopped too; then the bots are closed. *)
StopEnds ==
    /\ Passing("shutdown") /\ \A l \in Lane : running[l] = None
    /\ holder' = "nobody" /\ at' = "free"
    /\ main' = "close"
    /\ UNCHANGED <<table_, options, callback, watch, read, shutting, asked, todo, awaited, refused, done,
                   held, consumers, ghosts, mishaps>>

(* close(): sends that are out are drained, delivered or not, and one turn *)
(* of the loop comes to a callback still queued, which declines.           *)
Close ==
    /\ main = "close"
    /\ main' = "collect"
    /\ callback' = "over"
    /\ \E delivered \in SUBSET sending : owes' = owes \cup delivered
    /\ sending' = {}
    /\ UNCHANGED <<table_, options, watch, read, shutting, pass, held, made, laneOf, serves, thread, ghosts, mishaps>>

(* collect(): running and ready consumers, and the stopped ones whose      *)
(* thread has gone. The log is stopped after it.                           *)
ReadyOnes == {ready[l] : l \in Lane} \ {None}
RunningOnes == {running[l] : l \in Lane} \ {None}
CollectsStarted == RunningOnes \cup ToSettle
Collects == RunningOnes \cup ReadyOnes \cup ToSettle
Collect ==
    /\ main = "collect" /\ at = "free"
    /\ Settles(Collects)
    /\ stopped' = stopped \ ToSettle
    /\ main' = "over"
    /\ UNCHANGED <<table_, options, callback, watch, read, shutting, pass, running, ready,
                   made, laneOf, serves, thread, sending, dropped, mishaps>>

----------------------------------------------------------------------------
(* A queue is created, renamed or deleted, while somebody may read it. *)
TableChanges ==
    /\ changes < MaxChanges /\ main \in {"build", "loop", "callback"}
    /\ changes' = changes + 1
    /\ \E q \in Queue, row \in Row : row # table[q] /\ table' = [table EXCEPT ![q] = row]
    /\ UNCHANGED <<process, pass, held, consumers, ghosts, mishaps>>

PassStep ==
    \/ \E l \in Lane : StopGone(l) \/ Follow(l) \/ Skip(l) \/ Start(l) \/ StartFails(l) \/ StopRunning(l)
    \/ Joined \/ SettleGone \/ PassEnds \/ StopEnds
MainStep ==
    \/ \E l \in Lane : BuildNext(l)
    \/ Handle \/ Built \/ StartConsuming \/ StopBegins \/ Close \/ Collect
WatchStep == WatchReads \/ WatchBegins \/ WatchEnds

ContainerNext ==
    \/ PassStep \/ MainStep \/ WatchStep \/ WatchCannotRead \/ Idle
    \/ \E l \in Lane : BuildRefused(l)
    \/ \E c \in Consumer : Sends(c) \/ SendFinishes(c) \/ ThreadEnds(c)
    \/ Signal \/ TableChanges

(* Threads run, and a call of a consumer's transport returns. *)
ContainerSpec ==
    /\ ContainerInit /\ [][ContainerNext]_containerVars
    /\ WF_containerVars(PassStep) /\ WF_containerVars(MainStep) /\ WF_containerVars(WatchStep)
    /\ \A c \in Consumer : WF_containerVars(SendFinishes(c)) /\ WF_containerVars(ThreadEnds(c))

----------------------------------------------------------------------------
(* Properties *)

(* Nobody settles a consumer but its own thread while that turns, and two  *)
(* threads never take from one lane: a lane that left, whose stop timed    *)
(* out, and that came back waits for the old thread (_still_turning).      *)
OneThreadALane ==
    /\ clash = {}
    /\ \A c, d \in 1..made : Alive(c) /\ Alive(d) /\ laneOf[c] = laneOf[d] => c = d

(* When the command is over, nothing it built goes on, and what a drained  *)
(* send or a reclaim left to settle is settled; except by consumers whose  *)
(* thread outlived its join, and those that were settled and forgotten     *)
(* with a send still out.                                                  *)
NothingLeftBehind ==
    main \in {"over", "refused"} =>
        \A c \in 1..made :
            /\ Alive(c) => c \in stopped
            /\ c \in owes => Alive(c) \/ c \in dropped

(* The container comes to serve what the table says, whatever it missed in *)
(* between: a failed read, a lane that would not start, a stop that timed  *)
(* out, a pass over an older table.                                        *)
Matches ==
    \A l \in Lane :
        IF Of(ServedBy(table), l) = {} THEN running[l] = None
        ELSE running[l] # None /\ serves[running[l]] = Of(ServedBy(table), l)
Bounded == made = MaxConsumers
Converges ==
    <>[](main # "loop" \/ watch \in {"none", "over"} \/ Bounded \/ Refuses(table) \/ Matches)
=============================================================================
