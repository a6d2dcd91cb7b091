---------------------------- MODULE Supervision ----------------------------
(***************************************************************************)
(* Which process serves which bot: the supervisor's passes                 *)
(* (runtime/supervisor.py) over the bots table read through its watermark  *)
(* (runtime/providers.py), the leases processes agree through              *)
(* (runtime/leases.py), and the quarantine a row shows a person            *)
(* (runtime/lifecycle.py).                                                 *)
(*                                                                         *)
(* A bot's row is 0 switched off, or the configuration it resolves to; an  *)
(* edit is stamped as it is saved and seen when its transaction commits.   *)
(* Leases and their ages count ticks of the database's clock.  A wait in   *)
(* quarantine ends at some moment nobody chooses.  Processes are exclusive *)
(* pollers that make one pass at a time: a poll's and a pushed notice's    *)
(* passes differ in when they begin, and here each begins at any time.     *)
(***************************************************************************)
EXTENDS Naturals, FiniteSets

CONSTANTS
    Process,   \* holders, by worker identity
    Bots,      \* how many bots, in the order the table gives them
    Lease,     \* BOT_LEASE_SECONDS, in ticks
    Ceiling,   \* MAX_BOTS_PER_WORKER, 0 for none
    Upsets,    \* bound: [number of bots with a row -> edits, failed reads and
               \* writes, refused starts, shutdowns and crashes together]
    Most       \* the largest of Upsets

ASSUME SupervisionAssumption ==
    /\ Bots \in Nat \ {0} /\ Lease \in Nat \ {0} /\ Ceiling \in Nat
    /\ Most \in Nat /\ Upsets \in [1..Bots -> 0..Most]
    /\ "nobody" \notin Process

Bot == 1..Bots
Nobody == "nobody"
Record == 0..2
Shown == {"clear", "held"}

(* The watermark: the latest change of a bot, and of a profile or a queue. *)
Moment == [at : 0..Most, other : 0..Most]
Never == [at |-> 0, other |-> 0]

VARIABLES
    row,     \* [Bot -> its committed configuration, 0 switched off]
    stamp,   \* [Bot -> updated_at]
    saving,  \* edits saved and not committed
    other,   \* updated_at of the profiles and the queues
    edits,
    shown,   \* [Bot -> what its row says of a quarantine]
    lease,   \* [Bot -> [holder, left]]
    up,      \* processes alive
    pc,      \* [Process -> where its pass is]
    mark,    \* [Process -> the watermark of this pass]
    want,    \* [Process -> [Bot -> Record]] wanted
    todo,    \* [Process -> bots the pass has still to come to]
    took,    \* [Process -> bots the claim holds so far]
    run,     \* [Process -> [Bot -> the record it is served from, 0 not]]
    quar,    \* [Process -> [Bot -> [kind, record]]]
    cache,   \* [Process -> [known, mark, rows]] _from_table
    said,    \* [Process -> _last_said]
    blank,   \* [Process -> answers without a bot in a row, 2 for more]
    kept,    \* [Process -> [Bot -> a state write refused, or "none"]]
    holding, \* [Process -> bots it has held a lease on]
    told,    \* [Bot -> the state last reported]
    crossed, \* bots whose row another process's older write reached
    age,     \* [Process -> [Bot -> ticks since it last took the lease]]
    left     \* upsets to come

table == <<row, stamp, saving, other, edits>>
notes == <<shown, kept, told, crossed>>
leases == <<lease, age, holding>>
pass == <<pc, mark, want, todo, took>>
mine == <<run, quar>>
reads == <<cache, said, blank>>
vars == <<table, notes, leases, pass, mine, reads, up, left>>

Off == [b \in Bot |-> 0]
On(rows) == {b \in Bot : rows[b] # 0}
Free == [kind |-> "no", record |-> 0]

TableTyped ==
    /\ row \in [Bot -> Record] /\ stamp \in [Bot -> 0..Most]
    /\ other \in 0..Most /\ edits \in 0..Most
    /\ saving \subseteq [bot : Bot, record : Record, at : 1..Most]
NotesTyped ==
    /\ shown \in [Bot -> Shown] /\ told \in [Bot -> Shown] /\ crossed \subseteq Bot
    /\ kept \in [Process -> [Bot -> Shown \cup {"none"}]]
LeasesTyped ==
    /\ lease \in [Bot -> [holder : Process \cup {Nobody}, left : 0..Lease]]
    /\ age \in [Process -> [Bot -> 0..Lease]] /\ holding \in [Process -> SUBSET Bot]
PassTyped ==
    /\ pc \in [Process -> {"rows", "lease", "act"}]
    /\ mark \in [Process -> Moment] /\ want \in [Process -> [Bot -> Record]]
    /\ todo \in [Process -> SUBSET Bot] /\ took \in [Process -> SUBSET Bot]
MineTyped ==
    /\ run \in [Process -> [Bot -> Record]]
    /\ quar \in [Process -> [Bot -> [kind : {"no", "wait", "due", "never"}, record : Record]]]
ReadsTyped ==
    /\ cache \in [Process -> [known : BOOLEAN, mark : Moment, rows : [Bot -> Record]]]
    /\ said \in [Process -> [Bot -> Record]] /\ blank \in [Process -> 0..2]
TypeOK ==
    /\ TableTyped /\ NotesTyped /\ LeasesTyped /\ PassTyped /\ MineTyped /\ ReadsTyped
    /\ up \subseteq Process /\ left \in 0..Most

(* A process as it starts: nothing read, nothing served. *)
Unread == [known |-> FALSE, mark |-> Never, rows |-> Off]

Init ==
    /\ \E n \in Bot : row = [b \in Bot |-> IF b <= n THEN 1 ELSE 0] /\ left = Upsets[n]
    /\ stamp = [b \in Bot |-> 0] /\ saving = {} /\ other = 0 /\ edits = 0
    /\ shown = [b \in Bot |-> "clear"] /\ told = shown /\ crossed = {}
    /\ kept = [p \in Process |-> [b \in Bot |-> "none"]]
    /\ lease = [b \in Bot |-> [holder |-> Nobody, left |-> 0]]
    /\ age = [p \in Process |-> [b \in Bot |-> Lease]]
    /\ holding = [p \in Process |-> {}]
    /\ up = Process
    /\ pc = [p \in Process |-> "act"] /\ mark = [p \in Process |-> Never]
    /\ want = [p \in Process |-> Off] /\ todo = [p \in Process |-> {}] /\ took = todo
    /\ run = want /\ quar = [p \in Process |-> [b \in Bot |-> Free]]
    /\ cache = [p \in Process |-> Unread] /\ said = want
    /\ blank = [p \in Process |-> 0]

(* The first of them in the order of the table. *)
Foremost(b, bots) == b \in bots /\ \A c \in bots : b <= c

Upset == left > 0 /\ left' = left - 1
Set(f, p, x) == [f EXCEPT ![p] = x]

----------------------------------------------------------------------------
(* The table *)

(* An edit of a bot's row is stamped as it is saved, and seen when its     *)
(* transaction commits.  A profile's or a queue's moves the watermark too. *)
Save(b, record) ==
    /\ row[b] # 0 \/ stamp[b] # 0
    /\ Upset /\ record # row[b] /\ \A s \in saving : s.bot # b
    /\ edits' = edits + 1
    /\ saving' = saving \cup {[bot |-> b, record |-> record, at |-> edits + 1]}
    /\ UNCHANGED <<row, stamp, other, notes, leases, pass, mine, reads, up>>

Commit ==
    /\ \E s \in saving :
        /\ row' = Set(row, s.bot, s.record) /\ stamp' = Set(stamp, s.bot, s.at)
        /\ saving' = saving \ {s}
    /\ UNCHANGED <<other, edits, notes, leases, pass, mine, reads, up, left>>

SaveOther ==
    /\ Upset
    /\ edits' = edits + 1 /\ other' = edits + 1
    /\ UNCHANGED <<row, stamp, saving, notes, leases, pass, mine, reads, up>>

Marks == [at : {stamp[b] : b \in Bot}, other : {other}]
Mark(now) == now \in Marks /\ \A b \in Bot : stamp[b] <= now.at

Tick ==
    /\ lease' = [b \in Bot |-> [lease[b] EXCEPT !.left = IF @ = 0 THEN 0 ELSE @ - 1]]
    /\ age' = [p \in Process |-> [b \in Bot |-> IF age[p][b] = Lease THEN Lease ELSE age[p][b] + 1]]
    /\ UNCHANGED <<table, notes, holding, pass, mine, reads, up, left>>

----------------------------------------------------------------------------
(* State writes: _attempt(), under the lock *)

Drops(p, b, state) == kept' = Set(kept, p, Set(kept[p], b, "none"))
Keeps(p, b, state) == kept' = Set(kept, p, Set(kept[p], b, state))

(* remember() and forget(): a write the database refused is kept. *)
Tell(p, b, state) ==
    /\ told' = Set(told, b, state)
    /\ \/ /\ shown' = Set(shown, b, state)
          /\ kept' = Set(kept, p, Set(kept[p], b, "none"))
          /\ crossed' = crossed \ {b}
       \/ /\ left > 0
          /\ Keeps(p, b, state)
          /\ UNCHANGED <<shown, crossed>>

(* flush(): the newest state of each bot, written if the database answers. *)
Held(p) == {b \in Bot : kept[p][b] # "none"}
Flush(p) ==
    \/ /\ shown' = [b \in Bot |-> IF b \in Held(p) THEN kept[p][b] ELSE shown[b]]
       /\ crossed' = crossed \cup {b \in Held(p) : kept[p][b] # told[b]}
       /\ kept' = Set(kept, p, [b \in Bot |-> "none"])
       /\ UNCHANGED <<told, left>>
    \/ /\ Held(p) # {} /\ Upset
       /\ UNCHANGED notes

----------------------------------------------------------------------------
(* desired() *)

(* A first empty answer after a full one is held back, and the next one is *)
(* honoured.                                                               *)
HoldsNothing(p, rows) == FALSE
HoldsBack(p, rows) == On(rows) = {} /\ On(said[p]) # {}
KeepsSaying(p, rows) == IF HoldsBack(p, rows) THEN said[p] ELSE rows
SaysNow(p, rows) == IF HoldsBack(p, rows) THEN Off ELSE rows
Wants(p, rows) ==
    /\ want' = Set(want, p, IF HoldsBack(p, rows) THEN said[p] ELSE rows)
    /\ said' = Set(said, p, SaysNow(p, rows))
    /\ blank' = Set(blank, p, IF On(rows) # {} THEN 0 ELSE IF blank[p] = 0 THEN 1 ELSE 2)
    /\ todo' = Set(todo, p, On(want'[p]))
    /\ took' = Set(took, p, {})
    /\ pc' = Set(pc, p, "lease")

(* The pass before has stopped and started what it had to. *)
Gone(p) == On(run[p]) \ On(want[p])
Idle(p) == p \in up /\ pc[p] = "act" /\ todo[p] = {} /\ Gone(p) = {}

(* reconcile() begins: what was kept is written, the watermark is read,    *)
(* and an unmoved one answers from the cache.                              *)
PassBegins(p) ==
    /\ Idle(p)
    /\ Flush(p)
    /\ \E now \in Marks :
        /\ Mark(now)
        /\ IF cache[p].known /\ cache[p].mark = now
           THEN Wants(p, cache[p].rows) /\ UNCHANGED mark
           ELSE /\ pc' = Set(pc, p, "rows") /\ mark' = Set(mark, p, now)
                /\ UNCHANGED <<want, todo, took, said, blank>>
    /\ UNCHANGED <<table, leases, mine, cache, up>>

ReadRows(p) ==
    /\ p \in up /\ pc[p] = "rows"
    /\ cache' = Set(cache, p, [known |-> TRUE, mark |-> mark[p], rows |-> row])
    /\ Wants(p, row)
    /\ mark' = Set(mark, p, Never)
    /\ UNCHANGED <<table, notes, leases, mine, up, left>>

(* The read failed and the pass is over, or it found another database,     *)
(* with no bots in it and no watermark of theirs.                          *)
ReadFails(p) ==
    /\ p \in up /\ pc[p] = "rows"
    /\ Upset
    /\ \/ /\ pc' = Set(pc, p, "act")
          /\ want' = Set(want, p, run[p])
          /\ UNCHANGED <<todo, took, reads>>
       \/ /\ cache' = Set(cache, p, Unread)
          /\ Wants(p, Off)
    /\ mark' = Set(mark, p, Never)
    /\ UNCHANGED <<table, notes, leases, mine, up>>

----------------------------------------------------------------------------
(* Leases *)

(* _leased(): the bots already served are asked for first. *)
First(p, b) ==
    Foremost(b, IF todo[p] \cap On(run[p]) # {} THEN todo[p] \cap On(run[p]) ELSE todo[p])

(* _take(): no row, this process's own, or a lapsed one. *)
Takes(p, b) == lease[b].holder \in {Nobody, p} \/ lease[b].left = 0

Full(p) == Ceiling # 0 /\ Cardinality(took[p]) >= Ceiling

Claim(p, b) ==
    /\ p \in up /\ pc[p] = "lease" /\ First(p, b) /\ ~Full(p)
    /\ todo' = Set(todo, p, todo[p] \ {b})
    /\ IF Takes(p, b)
       THEN /\ lease' = Set(lease, b, [holder |-> p, left |-> Lease])
            /\ age' = Set(age, p, Set(age[p], b, 0))
            /\ took' = Set(took, p, took[p] \cup {b})
       ELSE UNCHANGED <<lease, age, took>>
    /\ UNCHANGED <<table, notes, holding, pc, mark, want, mine, reads, up, left>>

(* What may not be polled is wanted no more, and its quarantine dropped    *)
(* with that of the bots no longer configured.                             *)
Allows(p, allowed) ==
    /\ holding' = Set(holding, p, holding[p] \cup allowed)
    /\ want' = Set(want, p, [b \in Bot |-> IF b \in allowed THEN want[p][b] ELSE 0])
    /\ quar' = Set(quar, p, [b \in Bot |-> IF b \in allowed THEN quar[p][b] ELSE Free])
    /\ pc' = Set(pc, p, "act")
    /\ todo' = Set(todo, p, allowed)
    /\ took' = Set(took, p, {})

Claimed(p) ==
    /\ p \in up /\ pc[p] = "lease" /\ (todo[p] = {} \/ Full(p))
    /\ Allows(p, took[p])
    /\ UNCHANGED <<table, notes, lease, age, mark, run, reads, up, left>>

(* The leases could not be reached: the bots already served stay. *)
ClaimFails(p) ==
    /\ p \in up /\ pc[p] = "lease" /\ todo[p] # {} /\ ~Full(p)
    /\ Upset
    /\ Allows(p, On(want[p]) \cap On(run[p]))
    /\ UNCHANGED <<table, notes, lease, age, mark, run, reads, up>>

----------------------------------------------------------------------------
(* Stopping and starting *)

(* _stop(): whether or not it refuses, the bot leaves the running set. *)
StopOne(p, b) ==
    /\ p \in up /\ pc[p] = "act" /\ Foremost(b, Gone(p))
    /\ run' = Set(run, p, Set(run[p], b, 0))
    /\ UNCHANGED <<table, notes, leases, pass, quar, reads, up, left>>

(* Everything that is gone is stopped before anything is started. *)
Coming(p, b) ==
    /\ p \in up /\ pc[p] = "act" /\ Foremost(b, todo[p])
    /\ Gone(p) = {}
Changed(p, b) == run[p][b] # want[p][b]

(* A quarantine earned by this very record: it waits, or nothing ends it. *)
Waits(p, b) ==
    quar[p][b].kind \in {"wait", "never"} /\ quar[p][b].record = want[p][b]

Pass(p, b) ==
    /\ Coming(p, b)
    /\ \/ ~Changed(p, b) /\ UNCHANGED run
       \/ Changed(p, b) /\ Waits(p, b) /\ run' = Set(run, p, Set(run[p], b, 0))
    /\ todo' = Set(todo, p, todo[p] \ {b})
    /\ UNCHANGED <<table, notes, leases, pc, mark, want, took, quar, reads, up, left>>

StartOne(p, b) ==
    /\ Coming(p, b) /\ Changed(p, b) /\ ~Waits(p, b)
    /\ run' = Set(run, p, Set(run[p], b, want[p][b]))
    /\ quar' = Set(quar, p, Set(quar[p], b, Free))
    /\ todo' = Set(todo, p, todo[p] \ {b})
    /\ IF quar[p][b] = Free THEN UNCHANGED <<notes, left>>
       ELSE Tell(p, b, "clear") /\ left' = left - IF kept'[p][b] = "none" THEN 0 ELSE 1
    /\ UNCHANGED <<table, leases, pc, mark, want, took, reads, up>>

(* A start that is refused: a revoked token is not tried again. *)
Fates == {"wait", "never"}
StartRefused(p, b) ==
    /\ Coming(p, b) /\ Changed(p, b) /\ ~Waits(p, b)
    /\ run' = Set(run, p, Set(run[p], b, 0))
    /\ \E fate \in Fates :
        quar' = Set(quar, p, Set(quar[p], b, [kind |-> fate, record |-> want[p][b]]))
    /\ todo' = Set(todo, p, todo[p] \ {b})
    /\ Tell(p, b, "held") /\ Upset
    /\ UNCHANGED <<table, leases, pc, mark, want, took, reads, up>>

WaitEnds(p, b) ==
    /\ quar[p][b].kind = "wait"
    /\ quar' = Set(quar, p, Set(quar[p], b, [quar[p][b] EXCEPT !.kind = "due"]))
    /\ UNCHANGED <<table, notes, leases, pass, run, reads, up, left>>

----------------------------------------------------------------------------
(* The end of a process, and its next life *)

Forgets(p) ==
    /\ p \in up /\ Upset
    /\ up' = up \ {p}
    /\ run' = Set(run, p, Off) /\ quar' = Set(quar, p, [b \in Bot |-> Free])
    /\ kept' = Set(kept, p, [b \in Bot |-> "none"])
    /\ told' = [b \in Bot |-> IF kept[p][b] = "none" THEN told[b] ELSE shown[b]]
    /\ cache' = Set(cache, p, Unread) /\ said' = Set(said, p, Off)
    /\ blank' = Set(blank, p, 0)
    /\ holding' = Set(holding, p, {})
    /\ pc' = Set(pc, p, "act") /\ want' = Set(want, p, Off)
    /\ todo' = Set(todo, p, {}) /\ took' = Set(took, p, {}) /\ mark' = Set(mark, p, Never)
    /\ UNCHANGED <<table, shown, crossed>>

Crash(p) ==
    /\ Forgets(p)
    /\ UNCHANGED <<lease, age>>

(* released(), between two passes: only this process's own rows go, or    *)
(* none where the database refuses.                                        *)
ReleasesAll(p) == holding[p]
Releases(p) == {b \in holding[p] : lease[b].holder = p}
Shutdown(p) ==
    /\ Idle(p)
    /\ Forgets(p)
    /\ lease' \in {lease, [b \in Bot |-> IF b \in Releases(p) THEN [holder |-> Nobody, left |-> 0] ELSE lease[b]]}
    /\ UNCHANGED age

Restart(p) ==
    /\ p \notin up
    /\ up' = up \cup {p}
    /\ UNCHANGED <<table, notes, leases, pass, mine, reads, left>>

----------------------------------------------------------------------------
PassStep(p) ==
    \/ PassBegins(p) \/ ReadRows(p) \/ Claimed(p)
    \/ \E b \in Bot : Claim(p, b) \/ StopOne(p, b) \/ Pass(p, b) \/ StartOne(p, b)

Next ==
    \/ \E p \in Process :
        \/ PassStep(p) \/ ReadFails(p) \/ ClaimFails(p)
        \/ Crash(p) \/ Shutdown(p) \/ Restart(p)
        \/ \E b \in Bot : StartRefused(p, b) \/ WaitEnds(p, b)
    \/ \E b \in Bot, r \in Record : Save(b, r)
    \/ Commit \/ SaveOther \/ Tick

(* Passes go on, the clock moves, an open transaction commits, a container *)
(* that ended is started again.                                            *)
Spec ==
    /\ Init /\ [][Next]_vars
    /\ WF_vars(Commit) /\ WF_vars(Tick)
    /\ \A p \in Process :
        /\ WF_vars(PassStep(p)) /\ WF_vars(Restart(p))
        /\ \A b \in Bot : WF_vars(WaitEnds(p, b))

----------------------------------------------------------------------------
(* Properties *)

(* Two processes poll one bot only while one of them has gone a whole      *)
(* lease without taking it anew: it was late, or could not reach the       *)
(* leases.  Neither a pass nor a shutdown takes a lease from its holder.   *)
OnePoller ==
    \A b \in Bot, p, q \in Process :
        p # q /\ run[p][b] # 0 /\ run[q][b] # 0 => age[p][b] = Lease \/ age[q][b] = Lease

(* A pass stops a bot for a cause: its row was edited, its lease is not    *)
(* this process's, or it was answered twice in a row that there is no bot. *)
(* A read that failed, an empty answer said once, leases that could not be *)
(* read and a full process are no cause.                                   *)
StopsForCause ==
    [][\A p \in Process, b \in Bot :
        run[p][b] # 0 /\ run'[p][b] = 0 /\ p \in up' =>
            stamp[b] # 0 \/ lease[b].holder # p \/ blank[p] = 2]_vars

(* What a row says of a quarantine catches up with what was last reported, *)
(* unless another process's older write has gone over it.                  *)
RowCatchesUp == \A b \in Bot : <>[](shown[b] = told[b] \/ b \in crossed)

(* Whatever was missed on the way, an enabled bot is served again and      *)
(* again from its own row and a switched-off one by nobody; but for a      *)
(* token that was refused for good, a watermark that did not move with an  *)
(* edit, and bots that one process may not hold together: passes late     *)
(* enough to lose a lease each time can go on over one of them for ever.   *)
Blind(p) == cache[p].known /\ Mark(cache[p].mark) /\ cache[p].rows # row
Right(b) ==
    IF row[b] = 0 THEN \A p \in Process : run[p][b] = 0
    ELSE \E p \in Process : run[p][b] = row[b]
Excused(b) ==
    \/ \E p \in Process : Blind(p) \/ quar[p][b].kind = "never"
    \/ Ceiling # 0 /\ Cardinality(On(row)) > Ceiling
Converges == \A b \in Bot : []<>(Right(b) \/ Excused(b))
=============================================================================
