------------------------------- MODULE Replay -------------------------------
(***************************************************************************)
(* manage.py tgbot_replay: runs that put failed sends back on the queue,   *)
(* side by side, over the endings the event log holds and the claims they  *)
(* agree through (models.TelegramReplayClaim).                             *)
(*                                                                         *)
(* A message stands for its correlation id with the bot it is filed under, *)
(* which is what a claim is unique on.  An ending is one row of the        *)
(* selection; a message can have several, and can be delivered after all   *)
(* while a run walks past it.  A claim is named by the run and the ending  *)
(* it was taken for.  A run may end anywhere: it is killed, or refused by  *)
(* the database.                                                           *)
(***************************************************************************)
EXTENDS Naturals, Sequences, FiniteSets

CONSTANTS
    Run,      \* invocations of the command
    Endings,  \* the selection, in order: [message, code]
    Unargued, \* the sets of messages whose arguments the feed may not have
    Late,     \* messages that may be delivered after all
    Window,   \* WINDOW
    Attempts, \* CLAIM_ATTEMPTS
    Lease,    \* --claim-lease, in ticks; 0 for never
    Limit,    \* --limit; 0 for no bound
    Setup,    \* ways the project may be set up: "ready", "no log", "disabled", "no kind"
    MaxTime   \* bound: ticks

Message == {Endings[i].message : i \in DOMAIN Endings}
Row == 1..Len(Endings)
Of(i) == Endings[i].message

ASSUME ReplayAssumption ==
    /\ Window \in Nat \ {0} /\ Attempts \in Nat \ {0}
    /\ Lease \in Nat /\ Limit \in Nat /\ MaxTime \in Nat
    /\ IsFiniteSet(Run)
    /\ Endings \in Seq([message : Message, code : {"lost", "deliberate", "unacknowledged"}])
    /\ UNION Unargued \cup Late \subseteq Message
    /\ Setup \subseteq {"ready", "no log", "disabled", "no kind"}

NoClaim == [by |-> <<>>, at |-> 0, queued |-> FALSE]
Claim == [by : {<<>>} \cup (Run \X Row), at : 0..MaxTime, queued : BOOLEAN]

VARIABLES
    now,
    claim,   \* [Message -> the claim on it, or NoClaim]
    copies,  \* [Message -> replacements that reached the queue]
    joined,  \* [Message -> outbound.replayed rows that name it]
    setup,   \* the settings the runs were started under
    unargued,\* messages with no row that carries their arguments, or a lossy one
    sent,    \* messages with an outbound.sent row
    pc,      \* [Run -> where it is]
    dry,     \* runs with --dry-run
    started, \* [Run -> _started]
    at,      \* [Run -> the ending it is at]
    done,    \* [Run -> messages of the window found delivered]
    tries,   \* [Run -> claims tried for this ending]
    seen,    \* [Run -> the lapsed claim it read]
    would,   \* [Run -> _simulated]
    replayed,\* [Run -> how many it reports replayed]
    went,    \* [Run -> how many of them went]
    lied,    \* something was reported that was not so
    taken,   \* [Message -> claims taken over]
    told     \* what the runs told of: a message that may have gone "twice", or
             \* with a "hole" in its history; or died without telling

world == <<now, claim, copies, joined, sent, taken>>
walk == <<pc, at, tries, seen>>
report == <<would, replayed, went, lied, told>>
options == <<setup, unargued, dry, started>>
vars == <<world, walk, report, options, done>>

\* Where a run can be: at a window, at a row of it, at a step of putting it
\* back, or at an end.
Place == {"new", "window", "row", "look", "delete", "insert", "enqueue", "mark", "record",
          "over", "refused", "dead"}

TypeOK ==
    /\ now \in 0..MaxTime /\ sent \subseteq Message
    /\ claim \in [Message -> Claim] /\ seen \in [Run -> Claim]
    /\ setup \in Setup /\ unargued \in Unargued /\ told \subseteq Message \X {"twice", "hole"}
    /\ {copies, joined, taken} \subseteq [Message -> Nat]
    /\ pc \in [Run -> Place]
    /\ dry \subseteq Run /\ started \in [Run -> 0..MaxTime]
    /\ at \in [Run -> 0..Len(Endings) + 1] /\ tries \in [Run -> 0..Attempts]
    /\ {done, would} \subseteq [Run -> SUBSET Message]
    /\ {replayed, went} \subseteq [Run -> 0..Len(Endings)] /\ lied \in BOOLEAN

Init ==
    /\ now = 0 /\ claim = [m \in Message |-> NoClaim]
    /\ copies = [m \in Message |-> 0] /\ taken = copies /\ joined = copies /\ sent = {}
    /\ setup \in Setup /\ unargued \in Unargued /\ told = {}
    /\ pc = [r \in Run |-> "new"] /\ dry = {} /\ started = [r \in Run |-> 0]
    /\ at = [r \in Run |-> 0] /\ done = [r \in Run |-> {}] /\ tries = started
    /\ seen = [r \in Run |-> NoClaim] /\ would = done /\ replayed = started
    /\ went = started /\ lied = FALSE

Set(f, r, x) == [f EXCEPT ![r] = x]
Goes(r, where) == pc' = Set(pc, r, where)
M(r) == Of(at[r])

----------------------------------------------------------------------------
(* The walk *)

(* Where there is nothing to read, or nothing would be sent or recorded. *)
Refuses(isDry) == setup = "no log" \/ (~isDry /\ setup \in {"disabled", "no kind"})

(* handle(): the moment a claim's age is read against is the run's start. *)
Begin(r, isDry) ==
    /\ pc[r] = "new"
    /\ started' = Set(started, r, now)
    /\ dry' = IF isDry THEN dry \cup {r} ELSE dry
    /\ IF Refuses(isDry)
       THEN Goes(r, "refused") /\ UNCHANGED at
       ELSE Goes(r, "window") /\ at' = Set(at, r, 1)
    /\ UNCHANGED <<setup, unargued, world, tries, seen, report, done>>

Spent(r) == Limit # 0 /\ replayed[r] >= Limit

(* _report(): the run is over with its counts said, the holes in the       *)
(* history and the claims taken over among them; nothing is written.       *)
Report(r) == Goes(r, "over")

(* A window is read, and what Telegram already has of it. *)
ReadWindow(r) ==
    /\ pc[r] = "window"
    /\ IF Spent(r) \/ at[r] > Len(Endings)
       THEN Report(r) /\ UNCHANGED done
       ELSE /\ Goes(r, "row")
            /\ done' = Set(done, r, {Of(i) : i \in {j \in Row : at[r] <= j /\ j < at[r] + Window}} \cap sent)
    /\ UNCHANGED <<world, at, tries, seen, report, options>>

(* One ending is over, with what is reported of it. *)
Counts(r, word) == replayed' = IF word = "replayed" THEN Set(replayed, r, replayed[r] + 1) ELSE replayed
True(r, word) ==
    CASE word \in {"replayed", "already"} -> r \in dry \/ copies[M(r)] > 0
      [] word = "delivered" -> M(r) \in sent
      [] OTHER -> TRUE
Says(r, word) ==
    /\ Counts(r, word)
    /\ went' = IF word = "replayed" THEN Set(went, r, went[r] + 1) ELSE went
    /\ lied' = (lied \/ ~True(r, word))
    /\ at' = Set(at, r, at[r] + 1)
    /\ Goes(r, IF at[r] % Window = 0 \/ at[r] = Len(Endings) THEN "window" ELSE "row")
    /\ tries' = Set(tries, r, 0) /\ seen' = Set(seen, r, NoClaim)

Discarded(i) == Endings[i].code # "lost"

(* Nothing to do: delivered, discarded on purpose, still with the transport. *)
Nothing(r) == M(r) \in done[r] \/ Discarded(at[r])
PassOver(r) ==
    /\ pc[r] = "row" /\ ~Spent(r) /\ Nothing(r)
    /\ Says(r, IF M(r) \in done[r] THEN "delivered" ELSE "deliberate")
    /\ UNCHANGED <<world, would, told, options, done>>

(* _arguments_for(): what the message is to be made from is not in the feed. *)
Argued(r) == M(r) \notin unargued
Refuse(r) ==
    /\ pc[r] = "row" /\ ~Spent(r) /\ ~Nothing(r) /\ ~Argued(r)
    /\ Says(r, "refused")
    /\ UNCHANGED <<world, would, told, options, done>>

BoundSpent(r) ==
    /\ pc[r] = "row" /\ Spent(r)
    /\ Report(r)
    /\ UNCHANGED <<world, at, tries, seen, report, options, done>>

----------------------------------------------------------------------------
(* The claim *)

Lapsed(r, c) == Lease # 0 /\ c.at + Lease < started[r]
Standing(r, c) == c # NoClaim /\ (c.queued \/ ~Lapsed(r, c))
Held(c) == IF c.queued THEN "already" ELSE "claimed"

(* An ending to be put back, or one whose claim was lost to another run. *)
Looks(r) == pc[r] = "look" \/ (pc[r] = "row" /\ ~Spent(r) /\ ~Nothing(r) /\ Argued(r))

(* _claim_on(): what stands in the way is reported; a lapsed claim is to   *)
(* be taken over.                                                          *)
Look(r) ==
    /\ Looks(r) /\ r \notin dry
    /\ LET c == claim[M(r)] IN
       \/ /\ Standing(r, c)
          /\ Says(r, Held(c))
          /\ UNCHANGED <<would, told>>
       \/ /\ ~Standing(r, c)
          /\ seen' = Set(seen, r, c)
          /\ Goes(r, IF c = NoClaim THEN "insert" ELSE "delete")
          /\ UNCHANGED <<at, tries, report>>
    /\ UNCHANGED <<world, options, done>>

(* _would_replay(): a dry run answers the same and writes nothing. *)
LookDry(r) ==
    /\ Looks(r) /\ r \in dry
    /\ LET c == claim[M(r)] IN
       Says(r, IF Standing(r, c) THEN Held(c) ELSE IF M(r) \in would[r] THEN "already" ELSE "replayed")
    /\ would' = Set(would, r, would[r] \cup {M(r)})
    /\ UNCHANGED <<world, told, options, done>>

(* The delete decides, not the read: it takes that claim, not marked since. *)
WhateverIsThere(r) == claim[M(r)].by = seen[r].by
StillOpen(r) == claim[M(r)].by = seen[r].by /\ ~claim[M(r)].queued
TakeOver(r) ==
    /\ pc[r] = "delete"
    /\ \/ /\ StillOpen(r)
          /\ claim' = Set(claim, M(r), NoClaim) /\ taken' = Set(taken, M(r), taken[M(r)] + 1)
          /\ Goes(r, "insert")
          /\ UNCHANGED <<at, tries, seen, report>>
       \/ /\ ~StillOpen(r) /\ claim[M(r)].by = seen[r].by
          /\ Says(r, "already")
          /\ UNCHANGED <<claim, taken, would, told>>
       \/ /\ ~StillOpen(r) /\ claim[M(r)].by # seen[r].by
          /\ Goes(r, "insert")
          /\ UNCHANGED <<claim, taken, at, tries, seen, report>>
    /\ UNCHANGED <<now, copies, joined, sent, options, done>>

(* One INSERT against the unique pair; a run that lost it looks again. *)
Insert(r) ==
    /\ pc[r] = "insert"
    /\ \/ /\ claim[M(r)] = NoClaim
          /\ claim' = Set(claim, M(r), [by |-> <<r, at[r]>>, at |-> now, queued |-> FALSE])
          /\ Goes(r, "enqueue")
          /\ UNCHANGED <<at, tries, seen, report>>
       \/ /\ claim[M(r)] # NoClaim /\ tries[r] + 1 < Attempts
          /\ tries' = Set(tries, r, tries[r] + 1)
          /\ Goes(r, "look")
          /\ UNCHANGED <<claim, at, seen, report>>
       \/ /\ claim[M(r)] # NoClaim /\ tries[r] + 1 = Attempts
          /\ Says(r, "contested")
          /\ UNCHANGED <<claim, would, told>>
    /\ UNCHANGED <<now, copies, joined, sent, taken, options, done>>

----------------------------------------------------------------------------
(* The queue write *)

(* With ENABLED off enqueue() answers with an id and queues nothing. *)
Arrives(r) == copies' = Set(copies, M(r), IF setup = "disabled" THEN copies[M(r)] ELSE copies[M(r)] + 1)

Enqueue(r) ==
    /\ pc[r] = "enqueue"
    /\ Arrives(r)
    /\ Goes(r, "mark")
    /\ UNCHANGED <<now, claim, joined, sent, taken, at, tries, seen, report, options, done>>

(* It raised, which does not say the message stayed out of the queue: the  *)
(* claim stands until its lease.                                           *)
Releases(r) == claim' = Set(claim, M(r), NoClaim)
Stands(r) == UNCHANGED claim
EnqueueRaises(r) ==
    /\ pc[r] = "enqueue"
    /\ Arrives(r) \/ UNCHANGED copies
    /\ Stands(r)
    /\ Says(r, "raised")
    /\ told' = told \cup ({M(r)} \X {"twice", "hole"})
    /\ UNCHANGED <<now, joined, sent, taken, would, options, done>>

(* The claim is marked where it is still this run's, and warned of where   *)
(* it is not.                                                              *)
Kept(r) == claim[M(r)].by = <<r, at[r]>>
WarnsNever(r) == {}
Warns(r) == IF Kept(r) THEN {} ELSE {<<M(r), "twice">>}
MarkQueued(r) ==
    /\ pc[r] = "mark"
    /\ claim' = IF Kept(r) THEN [claim EXCEPT ![M(r)].queued = TRUE] ELSE claim
    /\ told' = told \cup Warns(r)
    /\ Goes(r, "record")
    /\ UNCHANGED <<now, copies, joined, sent, taken, at, tries, seen, would, replayed, went, lied,
                   options, done>>

(* _record_replay(): the row that joins the replacement to the failure is  *)
(* written here and now; one the feed refuses is counted into the report.  *)
RecordReplay(r, lands) ==
    /\ pc[r] = "record"
    /\ joined' = IF lands THEN Set(joined, M(r), joined[M(r)] + 1) ELSE joined
    /\ told' = IF lands THEN told ELSE told \cup {<<M(r), "hole">>}
    /\ Says(r, "replayed")
    /\ UNCHANGED <<now, claim, copies, sent, taken, would, options, done>>

----------------------------------------------------------------------------
(* What a run knew dies with it. *)
Killed(r) ==
    /\ pc[r] \notin {"new", "over", "refused", "dead"}
    /\ told' = IF pc[r] \in {"mark", "record"} THEN told \cup ({M(r)} \X {"twice", "hole"}) ELSE told
    /\ Goes(r, "dead")
    /\ at' = Set(at, r, 0) /\ tries' = Set(tries, r, 0) /\ seen' = Set(seen, r, NoClaim)
    /\ done' = Set(done, r, {}) /\ would' = Set(would, r, {}) /\ replayed' = Set(replayed, r, 0)
    /\ went' = Set(went, r, 0)
    /\ UNCHANGED <<world, options, lied>>

DeliveredLate(m) ==
    /\ m \in Late \ sent
    /\ sent' = sent \cup {m}
    /\ UNCHANGED <<now, claim, copies, joined, taken, walk, report, options, done>>

Tick ==
    /\ now < MaxTime
    /\ now' = now + 1
    /\ UNCHANGED <<claim, copies, joined, sent, taken, walk, report, options, done>>

Step(r) ==
    \/ Begin(r, TRUE) \/ Begin(r, FALSE) \/ ReadWindow(r) \/ PassOver(r) \/ Refuse(r) \/ BoundSpent(r)
    \/ Look(r) \/ LookDry(r) \/ TakeOver(r) \/ Insert(r)
    \/ Enqueue(r) \/ EnqueueRaises(r) \/ MarkQueued(r)
    \/ RecordReplay(r, TRUE) \/ RecordReplay(r, FALSE)

Next ==
    \/ \E r \in Run : Step(r) \/ Killed(r)
    \/ \E m \in Message : DeliveredLate(m)
    \/ Tick

Spec == Init /\ [][Next]_vars

----------------------------------------------------------------------------
(* Properties *)

(* One failure gets one replacement, however many runs and endings of it   *)
(* meet: another copy takes a claim that was taken over, its queue write   *)
(* never having answered within the lease.                                 *)
OneReplacement == \A m \in Message : copies[m] <= 1 + taken[m]

(* A claim whose message reached the queue is never removed or changed: a  *)
(* run that read it open and lapsed finds at its delete that it is not.    *)
FinishedStands ==
    [][\A m \in Message : claim[m].queued => claim'[m] = claim[m]]_vars

(* What a run reports is so: a message said to be replayed, now or         *)
(* already, is on the queue, whatever the project turned off.  The bound   *)
(* is spent on messages that went: a run that ends before it has come to   *)
(* every ending has put back as many as it was let.  And what went wrong   *)
(* beside is told: a message that went twice, and one whose replacement    *)
(* has no row joining it to the failure, unless the run died before.       *)
At(m, states) == \E r \in Run : pc[r] \in states /\ M(r) = m
ReportTells ==
    /\ ~lied
    /\ \A r \in Run : pc[r] = "over" => at[r] > Len(Endings) \/ went[r] = Limit
    /\ \A m \in Message :
        /\ copies[m] > 1 => <<m, "twice">> \in told \/ At(m, {"mark"})
        /\ copies[m] > joined[m] => <<m, "hole">> \in told \/ At(m, {"mark", "record"})
=============================================================================
