------------------------------ MODULE Scheduled ------------------------------
(***************************************************************************)
(* Sends that wait for a time: producer/scheduling.py and the mover,       *)
(* management/commands/tgbot_dispatch_scheduled.py.                        *)
(*                                                                         *)
(* A row is one message.  Movers select the rows that are due and free,    *)
(* claim them one by one with a compare-and-set, and then publish, judge   *)
(* or give up on each.  A claim is a lease: it lapses, and the row is free *)
(* again while the mover that lost it may still be publishing.             *)
(*                                                                         *)
(* Time is relative.  A row keeps its age since it came due and what is    *)
(* left of its claim, a mover the time since it read the clock and since   *)
(* its call began; Tick moves them all.                                    *)
(***************************************************************************)
EXTENDS Integers, Sequences, FiniteSets

CONSTANTS
    Rows,       \* how many rows producers write; a row is its id
    Mover,      \* the processes running the command
    NoMover,    \* the claimed_by of a row nobody claimed
    Bot,        \* the bots rows are written for
    NoBot,      \* the bot_id of a row that names none
    Never,      \* the claimed_until of a claim that does not lapse
    Settings,   \* what a deployment may be: the flags of each mover, and
                \* which movers are slow
    Ceiling,    \* Broker.call_ceiling, in ticks: no publish lasts longer
    MaxDelay,   \* bound: how far ahead a row is scheduled
    MaxAge,     \* bound: ages stop here, past every grace
    MaxPass,    \* bound: the ticks between reading the clock and a claim
    MaxFaults   \* bound: publishes that raise and movers that die

(* A mover that is not slow spends no time outside a publish or its sleep. *)
Flags == [limit : Nat \ {0}, lease : Nat, grace : Nat, attempts : Nat, bots : SUBSET Bot]
Deployment == [flags : [Mover -> Flags], slow : SUBSET Mover]

ASSUME ScheduledAssumption ==
    /\ Rows \in Nat /\ Ceiling \in Nat \ {0} /\ MaxDelay \in Nat
    /\ MaxAge \in Nat /\ MaxPass \in Nat /\ MaxFaults \in Nat
    /\ NoMover \notin Mover /\ NoBot \notin Bot /\ Never \notin Int
    /\ Settings \subseteq Deployment
    /\ \A d \in Settings : \A m \in Mover : d.flags[m].grace < MaxAge

Row == 1..Rows

VARIABLES
    dep,        \* the deployment, which does not change
    row,        \* row[r]: "unwritten", "here" in the table or "gone"
    age,        \* age[r]: now - due_at
    column,     \* column[r]: the row's bot_id
    claimedBy,  \* claimedBy[r]: claimed_by, NoMover where claimed_at is null
    left,       \* left[r]: claimed_until - now, Never where it is null
    attempts,   \* attempts[r]: the row's counter of failed publishes
    pc,         \* pc[m]: where m's pass is
    picked,     \* picked[m]: rows m selected and has not tried to claim
    batch,      \* batch[m]: rows m won and has not dealt with, the head first
    stamped,    \* stamped[m]: rows whose claim is the one m carries
    since,      \* since[m]: how long ago claim() read the clock
    calling,    \* calling[m]: how long m's publish has lasted
    landed,     \* landed[m]: the transport has the message of m's publish
    sent,       \* history: rows the transport accepted
    dropped,    \* dropped[r]: events that say r was given up on
    cancelled,  \* history: rows cancel() deleted
    unrecorded, \* history: rows whose mover died before it recorded the drop
    faults

table == <<row, age, column, claimedBy, left, attempts>>
movers == <<pc, picked, batch, stamped, since, calling, landed>>
history == <<sent, dropped, cancelled, unrecorded>>
vars == <<dep, table, movers, history, faults>>

Busy == {"next", "call", "delete", "count", "giveup", "record"}
Labels == Busy \cup {"idle", "claim", "down"}

Flag(m) == dep.flags[m]

TypeOK ==
    /\ dep \in Settings
    /\ row \in [Row -> {"unwritten", "here", "gone"}]
    /\ age \in [Row -> Int] /\ \A r \in Row : age[r] <= MaxAge
    /\ column \in [Row -> Bot \cup {NoBot}]
    /\ claimedBy \in [Row -> Mover \cup {NoMover}]
    /\ left \in [Row -> Int \cup {Never}]
    /\ attempts \in [Row -> Nat]
    /\ pc \in [Mover -> Labels]
    /\ picked \in [Mover -> Seq(Row)]
    /\ batch \in [Mover -> Seq(Row)]
    /\ \A m \in Mover : pc[m] \in Busy => batch[m] # <<>>
    /\ \A m \in Mover : pc[m] = "claim" => picked[m] # <<>>
    /\ stamped \in [Mover -> SUBSET Row]
    /\ since \in [Mover -> 0..MaxPass]
    /\ calling \in [Mover -> 0..Ceiling]
    /\ landed \in [Mover -> BOOLEAN]
    /\ sent \subseteq Row /\ cancelled \subseteq Row /\ unrecorded \subseteq Row
    /\ dropped \in [Row -> Nat]
    /\ faults \in 0..MaxFaults

Init ==
    /\ dep \in Settings
    /\ row = [r \in Row |-> "unwritten"]
    /\ age = [r \in Row |-> 0]
    /\ column = [r \in Row |-> NoBot]
    /\ claimedBy = [r \in Row |-> NoMover]
    /\ left = [r \in Row |-> 0]
    /\ attempts = [r \in Row |-> 0]
    /\ pc = [m \in Mover |-> "idle"]
    /\ picked = [m \in Mover |-> <<>>] /\ batch = [m \in Mover |-> <<>>]
    /\ stamped = [m \in Mover |-> {}]
    /\ since = [m \in Mover |-> 0] /\ calling = [m \in Mover |-> 0]
    /\ landed = [m \in Mover |-> FALSE]
    /\ sent = {} /\ cancelled = {} /\ unrecorded = {}
    /\ dropped = [r \in Row |-> 0]
    /\ faults = 0

-----------------------------------------------------------------------------
(* Producers *)

(* schedule: the row as _rows builds it, which does not set bot_id. *)
Schedule(r) ==
    /\ row[r] = "unwritten" /\ \A q \in Row : q < r => row[q] # "unwritten"
    /\ row' = [row EXCEPT ![r] = "here"]
    /\ \E ahead \in 0..MaxDelay : age' = [age EXCEPT ![r] = -ahead]
    /\ UNCHANGED <<dep, column, claimedBy, left, attempts, movers, history, faults>>

(* mutant of Unheld: the claim's lapse is not looked at *)
NeverClaimed(r, ago) == claimedBy[r] = NoMover

(* unheld(moment), read `ago` ticks after the moment *)
Unheld(r, ago) ==
    \/ claimedBy[r] = NoMover
    \/ left[r] # Never /\ left[r] + ago <= 0

(* r leaves the table, and its columns with it. *)
Remove(r) ==
    /\ row' = [row EXCEPT ![r] = "gone"]
    /\ age' = [age EXCEPT ![r] = 0] /\ left' = [left EXCEPT ![r] = 0]
    /\ claimedBy' = [claimedBy EXCEPT ![r] = NoMover]
    /\ attempts' = [attempts EXCEPT ![r] = 0]
    /\ UNCHANGED column

(* mutant of Cancel: it looks at no claim *)
CancelHeld(r) ==
    /\ row[r] = "here"
    /\ Remove(r)
    /\ cancelled' = cancelled \cup {r}
    /\ UNCHANGED <<dep, movers, sent, dropped, unrecorded, faults>>

(* cancel: rows nobody holds. *)
Cancel(r) ==
    /\ row[r] = "here" /\ Unheld(r, 0)
    /\ Remove(r)
    /\ cancelled' = cancelled \cup {r}
    /\ UNCHANGED <<dep, movers, sent, dropped, unrecorded, faults>>

-----------------------------------------------------------------------------
(* claim *)

Due(m) == {r \in Row :
    /\ row[r] = "here" /\ age[r] >= 0 /\ Unheld(r, 0)
    /\ Flag(m).bots = {} \/ column[r] \in Flag(m).bots}

(* due_at and then id.  Rows whose ages both stopped at MaxAge come in any *)
(* order: which was due first is no longer known.                          *)
Before(q, r) ==
    \/ age[q] > age[r]
    \/ age[q] = age[r] /\ (q < r \/ (age[q] = MaxAge /\ q # r))

(* The first `limit` of what is due, ordered by due_at and id. *)
Oldest(m, s) ==
    /\ \A i, j \in DOMAIN s : i < j => Before(s[i], s[j])
    /\ \A i \in DOMAIN s : s[i] \in Due(m)
    /\ \A r \in Due(m) : r \in {s[i] : i \in DOMAIN s} \/
          (Len(s) = Flag(m).limit /\ \A i \in DOMAIN s : Before(s[i], r))
    /\ Len(s) <= Flag(m).limit

Orders == UNION {[1..n -> Row] : n \in 0..Rows}

Select(m) ==
    /\ pc[m] = "idle" /\ Due(m) # {}
    /\ \E s \in Orders : Oldest(m, s) /\ picked' = [picked EXCEPT ![m] = s]
    /\ pc' = [pc EXCEPT ![m] = "claim"]
    /\ UNCHANGED <<dep, table, batch, stamped, since, calling, landed, history, faults>>

(* Where the pass goes with what is left of its batch: an empty one ends it. *)
Onward(rows) == IF rows = <<>> THEN "idle" ELSE "next"

(* The update filtered on the condition of the select, for one row; a win  *)
(* is stamped on the object the mover keeps.  Two claims of one row are a  *)
(* lease apart, so (claimed_at, claimed_by) tells them apart.              *)
Claim(m) ==
    /\ pc[m] = "claim"
    /\ LET r == Head(picked[m])
       IN  IF row[r] = "here" /\ Unheld(r, since[m])
           THEN /\ claimedBy' = [claimedBy EXCEPT ![r] = m]
                /\ left' = [left EXCEPT ![r] =
                      IF Flag(m).lease = 0 THEN Never ELSE Flag(m).lease - since[m]]
                /\ batch' = [batch EXCEPT ![m] = Append(@, r)]
                /\ stamped' = [n \in Mover |->
                      IF n = m THEN stamped[n] \cup {r} ELSE stamped[n] \ {r}]
           ELSE UNCHANGED <<claimedBy, left, batch, stamped>>
    /\ picked' = [picked EXCEPT ![m] = Tail(@)]
    /\ IF Len(picked[m]) = 1
       THEN pc' = [pc EXCEPT ![m] = Onward(batch'[m])] /\ since' = [since EXCEPT ![m] = 0]
       ELSE UNCHANGED <<pc, since>>
    /\ UNCHANGED <<dep, row, age, column, attempts, calling, landed, history, faults>>

-----------------------------------------------------------------------------
(* _one_pass *)

Current(m) == Head(batch[m])
Late(m) == Flag(m).grace # 0 /\ age[Current(m)] > Flag(m).grace

(* The mover is done with the row at the head of its batch. *)
Advance(m) ==
    /\ pc' = [pc EXCEPT ![m] = Onward(Tail(batch[m]))]
    /\ batch' = [batch EXCEPT ![m] = Tail(@)]
    /\ stamped' = [stamped EXCEPT ![m] = @ \ {Current(m)}]
    /\ UNCHANGED <<picked, since, calling, landed>>

At(m, label) ==
    /\ pc' = [pc EXCEPT ![m] = label]
    /\ UNCHANGED <<picked, batch, stamped, since, calling, landed>>

(* still_held_by *)
StillHeld(m) == row[Current(m)] = "here" /\ Current(m) \in stamped[m]

(* mutant of DeleteHeld: by primary key, recorded whatever it took *)
DeleteAnyway(m) == Remove(Current(m)) /\ At(m, "record")

(* A delete filtered on the claim; the event that says so comes after it. *)
DeleteHeld(m) ==
    IF StillHeld(m)
    THEN Remove(Current(m)) /\ At(m, "record")
    ELSE Advance(m) /\ UNCHANGED table

DropLate(m) ==
    /\ pc[m] = "next" /\ Late(m)
    /\ DeleteHeld(m)
    /\ UNCHANGED <<dep, history, faults>>

Publish(m) ==
    /\ pc[m] = "next" /\ ~Late(m)
    /\ At(m, "call")
    /\ UNCHANGED <<dep, table, history, faults>>

(* The transport accepts the message, at some moment of the call. *)
Lands(m) ==
    /\ pc[m] = "call" /\ ~landed[m]
    /\ landed' = [landed EXCEPT ![m] = TRUE]
    /\ sent' = sent \cup {Current(m)}
    /\ UNCHANGED <<dep, table, pc, picked, batch, stamped, since, calling,
                   dropped, cancelled, unrecorded, faults>>

(* The call is over, and the mover goes on to label. *)
Ends(m, label) ==
    /\ pc' = [pc EXCEPT ![m] = label]
    /\ calling' = [calling EXCEPT ![m] = 0]
    /\ landed' = [landed EXCEPT ![m] = FALSE]
    /\ UNCHANGED <<dep, table, picked, batch, stamped, since, history>>

Returns(m) ==
    /\ pc[m] = "call" /\ landed[m]
    /\ Ends(m, "delete")
    /\ UNCHANGED faults

(* mutant of Raises: the exception is swallowed and the row deleted *)
RaisesUnheard(m) ==
    /\ pc[m] = "call" /\ faults < MaxFaults
    /\ faults' = faults + 1
    /\ Ends(m, "delete")

(* The call raises, whether or not the transport has the message. *)
Raises(m) ==
    /\ pc[m] = "call" /\ faults < MaxFaults
    /\ faults' = faults + 1
    /\ Ends(m, "count")

(* row.delete(), by primary key and whoever holds the row now. *)
Delete(m) ==
    /\ pc[m] = "delete"
    /\ Remove(Current(m))
    /\ Advance(m)
    /\ UNCHANGED <<dep, history, faults>>

(* _count_failure, its transaction *)
CountFailure(m) ==
    /\ pc[m] = "count"
    /\ LET r == Current(m)
           bound == Flag(m).attempts
       IN  /\ attempts' = [attempts EXCEPT ![r] = IF StillHeld(m) THEN @ + 1 ELSE @]
           /\ IF StillHeld(m) /\ bound # 0 /\ attempts'[r] >= bound
              THEN At(m, "giveup")
              ELSE Advance(m)
    /\ UNCHANGED <<dep, row, age, column, claimedBy, left, history, faults>>

GiveUp(m) ==
    /\ pc[m] = "giveup"
    /\ DeleteHeld(m)
    /\ UNCHANGED <<dep, history, faults>>

Record(m) ==
    /\ pc[m] = "record"
    /\ dropped' = [dropped EXCEPT ![Current(m)] = @ + 1]
    /\ Advance(m)
    /\ UNCHANGED <<dep, table, sent, cancelled, unrecorded, faults>>

-----------------------------------------------------------------------------
(* Processes and time *)

(* The process is killed, or SIGTERM raises KeyboardInterrupt wherever the  *)
(* pass is, which nothing below _run catches.                               *)
Crash(m) ==
    /\ pc[m] # "down" /\ faults < MaxFaults
    /\ faults' = faults + 1
    /\ pc' = [pc EXCEPT ![m] = "down"]
    /\ picked' = [picked EXCEPT ![m] = <<>>] /\ batch' = [batch EXCEPT ![m] = <<>>]
    /\ stamped' = [stamped EXCEPT ![m] = {}]
    /\ since' = [since EXCEPT ![m] = 0] /\ calling' = [calling EXCEPT ![m] = 0]
    /\ landed' = [landed EXCEPT ![m] = FALSE]
    /\ unrecorded' = IF pc[m] = "record" THEN unrecorded \cup {Current(m)} ELSE unrecorded
    /\ UNCHANGED <<dep, table, sent, dropped, cancelled>>

Restart(m) ==
    /\ pc[m] = "down"
    /\ At(m, "idle")
    /\ UNCHANGED <<dep, table, history, faults>>

(* A second passes.  No call outlasts its deadline; ages stop where nothing *)
(* reads them any further.                                                  *)
Older(r) == IF row[r] = "here" /\ age[r] < MaxAge THEN age[r] + 1 ELSE age[r]
Shorter(r) ==
    IF claimedBy[r] = NoMover \/ left[r] = Never \/ left[r] <= -MaxPass THEN left[r] ELSE left[r] - 1

Tick ==
    /\ \A m \in Mover :
          /\ pc[m] = "call" => calling[m] < Ceiling
          /\ pc[m] = "claim" => since[m] < MaxPass
          /\ m \notin dep.slow => pc[m] \in {"call", "idle", "down"}
    /\ age' = [r \in Row |-> Older(r)]
    /\ left' = [r \in Row |-> Shorter(r)]
    /\ since' = [m \in Mover |-> IF pc[m] = "claim" THEN since[m] + 1 ELSE since[m]]
    /\ calling' = [m \in Mover |-> IF pc[m] = "call" THEN calling[m] + 1 ELSE calling[m]]
    /\ UNCHANGED <<dep, row, column, claimedBy, attempts, pc, picked, batch, stamped,
                   landed, history, faults>>

-----------------------------------------------------------------------------
(* Specification *)

Works(m) ==
    \/ Select(m) \/ Claim(m)
    \/ DropLate(m) \/ Publish(m) \/ Lands(m) \/ Returns(m)
    \/ Delete(m) \/ CountFailure(m) \/ GiveUp(m) \/ Record(m) \/ Restart(m)

Next ==
    \/ \E r \in Row : Schedule(r) \/ Cancel(r)
    \/ \E m \in Mover : Works(m) \/ Raises(m) \/ Crash(m)
    \/ Tick

(* A mover under --loop, or run again and again, is scheduled; a call ends; *)
(* and the clock moves.                                                     *)
Fairness == WF_vars(Tick) /\ \A m \in Mover : WF_vars(Works(m))

Spec == Init /\ [][Next]_vars
FairSpec == Spec /\ Fairness

-----------------------------------------------------------------------------
(* Properties *)

(* A row that left the table was published, called off, or given up on with *)
(* an event that says so - unless the mover that gave up died between its   *)
(* delete and its event, the one silent loss the code leaves open.          *)
(* _publish deletes after the publish, _count_failure and _drop_late delete *)
(* before they record.                                                      *)
NothingLost ==
    \A r \in Row : row[r] = "gone" =>
        \/ r \in sent \cup cancelled \cup unrecorded
        \/ dropped[r] > 0
        \/ \E m \in Mover : pc[m] = "record" /\ Current(m) = r

(* However the leases of the movers lapse, the event feed says of a row at  *)
(* most once that it was given up on: _count_failure and _drop_late record  *)
(* only where their own delete took the row.                                *)
GivenUpOnce == \A r \in Row : dropped[r] <= 1

Live(r) == row[r] = "here" /\ claimedBy[r] # NoMover /\ (left[r] = Never \/ left[r] > 0)

(* The arithmetic that closes the window.  A mover that loses no time       *)
(* between its calls and whose lease is longer than a whole batch of them - *)
(* not than one, which is all that the command compares it with - is behind *)
(* a live claim of its own for as long as a publish lasts, however slow the *)
(* other movers are and whatever their leases: the row can go under it only *)
(* by the row.delete() of a mover that published it before.                 *)
RoomForBatch(m) ==
    m \notin dep.slow /\ (Flag(m).lease = 0 \/ Flag(m).lease > Flag(m).limit * Ceiling)
Covered(m) == Live(Current(m)) /\ claimedBy[Current(m)] = m /\ Current(m) \in stamped[m]
LeaseCoversCall == \A m \in Mover : RoomForBatch(m) /\ pc[m] = "call" =>
    Covered(m) \/ (row[Current(m)] = "gone" /\ Current(m) \in sent)

(* Every row leaves the table: whatever publishes fail and whichever movers *)
(* die, a lapsed claim is taken again.  Three deployments are excepted.  A  *)
(* claim that does not lapse (--lease 0) strands its row once its mover     *)
(* failed or died.  Under --grace, movers slower than their lease can take  *)
(* a late row from each other for ever, each too late to delete it.  And    *)
(* movers that are all told which bots to move for move nothing, for no row *)
(* names a bot.                                                             *)
Stranded(r) == left[r] = Never /\ \A m \in Mover : r \notin stamped[m]
Hurried == \A m \in Mover : RoomForBatch(m) \/ Flag(m).grace = 0
Selected(r) == \E m \in Mover : Flag(m).bots = {} \/ column[r] \in Flag(m).bots
Moved == \A r \in Row : (row[r] = "here" /\ Hurried /\ Selected(r)) ~> (row[r] = "gone" \/ Stranded(r))
==============================================================================
