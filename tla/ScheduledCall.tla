---------------------------- MODULE ScheduledCall ----------------------------
(***************************************************************************)
(* A scheduled send from the call that makes it: schedule and aschedule    *)
(* (producer/scheduling.py), whose row is its caller's own write, and the  *)
(* event that says so, which waits for the caller's commit                 *)
(* (producer/committing.py).  Movers (Scheduled) see the row once it is    *)
(* committed: a step of this module is a step of Scheduled or none of its. *)
(*                                                                         *)
(* One thread calls schedule, in transactions of its own; coroutines call  *)
(* aschedule on connections that are in none.  A row that was rolled back  *)
(* gives its id to the next.  A process that dies before its hook runs     *)
(* takes only the event with it, and is left out.                          *)
(***************************************************************************)
EXTENDS Scheduled

CONSTANT Followed  \* bound: the deployments in which schedule is called; in
                   \* the others aschedule is

VARIABLES
    block,  \* the thread's transaction: "none", "atomic", or "manual" where
            \* autocommit is off; "committed" while it stays off after commit()
    wrote,  \* the row written in it and not committed, 0 for none
            \* (bound: a transaction has one)
    hook,   \* the row whose event is on the connection's commit hooks
    fed     \* fed[r]: the "scheduled" events of the row

calls == <<block, wrote, hook, fed>>

CallTypeOK ==
    /\ block \in {"none", "atomic", "manual", "committed"}
    /\ {wrote, hook} \subseteq Row \cup {0} /\ fed \in [Row -> Nat]

CallInit == Init /\ block = "none" /\ wrote = 0 /\ hook = 0 /\ fed = [r \in Row |-> 0]

Feed(r) == fed' = [fed EXCEPT ![r] = @ + 1]
NextRow(r) == row[r] = "unwritten" /\ \A q \in Row : q < r => row[q] # "unwritten"

(* A transaction in which a send is scheduled, if its caller comes to it. *)
Enters(kind) ==
    /\ dep \in Followed /\ \E r \in Row : row[r] = "unwritten"
    /\ block = "none" /\ hook = 0 /\ block' = kind
    /\ UNCHANGED <<vars, wrote, hook, fed>>

(* mutant of AfterCommit: the event is recorded where the call stands *)
RecordedInline(r) == Feed(r) /\ hook' = 0

(* after_commit, in the block schedule opens: the hook is the connection's, *)
(* and runs at the caller's commit, or once autocommit is on again.        *)
AfterCommit(r) == hook' = r /\ UNCHANGED fed

(* _record: what it waits for is the transaction the row was written in. *)
RecordIt(r) == AfterCommit(r)

(* schedule() in a transaction: the row and its hook. *)
WritesInBlock(r) ==
    /\ block \in {"atomic", "manual"} /\ wrote = 0 /\ NextRow(r)
    /\ wrote' = r /\ RecordIt(r)
    /\ UNCHANGED <<vars, block>>

(* schedule() in none: its own block commits on its exit. *)
WritesAlone(r) ==
    /\ dep \in Followed /\ block = "none" /\ hook = 0
    /\ Schedule(r) /\ RecordIt(r)
    /\ UNCHANGED <<block, wrote>>

(* aschedule(): the insert commits by itself, and no block holds the event. *)
WritesAwaited(r) ==
    /\ block = "none"
    /\ Schedule(r) /\ Feed(r)
    /\ UNCHANGED <<block, wrote, hook>>

Commits ==
    /\ block \in {"atomic", "manual"}
    /\ IF wrote = 0 THEN UNCHANGED vars ELSE Schedule(wrote)
    /\ wrote' = 0 /\ block' = IF block = "manual" /\ hook # 0 THEN "committed" ELSE "none"
    /\ UNCHANGED <<hook, fed>>

(* The write goes, and the hooks with it. *)
RollsBack ==
    /\ block \in {"atomic", "manual"}
    /\ block' = "none" /\ wrote' = 0 /\ hook' = 0
    /\ UNCHANGED <<vars, fed>>

AutocommitOn ==
    /\ block = "committed" /\ block' = "none"
    /\ UNCHANGED <<vars, wrote, hook, fed>>

(* record_them, on the thread that committed. *)
HookRuns ==
    /\ block = "none" /\ hook # 0
    /\ Feed(hook) /\ hook' = 0
    /\ UNCHANGED <<vars, block, wrote>>

BlockEnds == Commits \/ RollsBack \/ AutocommitOn \/ HookRuns

(* Bound: movers and the clock stand still while a block is open: what is  *)
(* written in it is not there for them.                                    *)
Standing == block \in {"atomic", "manual"}
CallNext ==
    \/ Enters("atomic") \/ Enters("manual") \/ BlockEnds
    \/ \E r \in Row : WritesInBlock(r) \/ WritesAlone(r) \/ WritesAwaited(r)
    \/ ~Standing /\ (\E r \in Row : Cancel(r)) /\ UNCHANGED calls
    \/ ~Standing /\ (\E m \in Mover : Works(m) \/ Raises(m) \/ Crash(m)) /\ UNCHANGED calls
    \/ ~Standing /\ Tick /\ UNCHANGED calls

(* As in Scheduled, and a block that was opened ends. *)
CallSpec ==
    /\ CallInit /\ [][CallNext]_<<vars, calls>>
    /\ Fairness /\ WF_<<vars, calls>>(BlockEnds)

-----------------------------------------------------------------------------
(* Properties *)

(* The feed says of no send that it was scheduled before its row is        *)
(* committed, or after a rollback took it away, and says it once.          *)
Announced ==
    [][\A r \in Row : fed'[r] # fed[r] => fed[r] = 0 /\ row'[r] # "unwritten"]_<<vars, calls>>

(* A send that was scheduled for sure is moved. *)
ScheduledIsMoved == Announced /\ Moved
==============================================================================
