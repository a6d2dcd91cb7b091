--------------------------- MODULE ScheduledProofs ---------------------------
(***************************************************************************)
(* That no scheduled row is lost, none is given up on twice and a lease    *)
(* longer than a batch covers every call, for every number of rows, movers *)
(* and faults, every lease and every other flag; and that the callers with *)
(* their transactions add nothing to the table but rows they wrote.        *)
(***************************************************************************)
EXTENDS ScheduledCall, SequenceTheorems, TLAPS

USE ScheduledAssumption

-----------------------------------------------------------------------------
(* Sequences *)

(* Taking the first row of a selection, or of a batch. *)
LEMMA PopType ==
    ASSUME NEW S, NEW q \in Seq(S), q # <<>>
    PROVE  /\ Head(q) \in S /\ Tail(q) \in Seq(S) /\ Len(q) \in Nat
           /\ Len(q) # 1 => Tail(q) # <<>>
<1>1. Head(q) \in S /\ Tail(q) \in Seq(S) /\ Len(q) \in Nat
  OBVIOUS
<1>2. Len(q) # 0 /\ Len(Tail(q)) = Len(q) - 1
  BY EmptySeq, HeadTailProperties
<1>3. Tail(q) = <<>> => Len(Tail(q)) = 0
  BY <1>1, EmptySeq
<1>4. Len(q) # 1 => Len(Tail(q)) # 0
  BY <1>1, <1>2
<1> QED
  BY <1>1, <1>3, <1>4

(* Adding a row to a batch. *)
LEMMA PushType ==
    ASSUME NEW S, NEW q \in Seq(S), NEW e \in S
    PROVE  Append(q, e) \in Seq(S) /\ Append(q, e) # <<>>
  OBVIOUS

-----------------------------------------------------------------------------
(* Types *)

(* What a mover was started with. *)
LEMMA FlagType ==
    ASSUME TypeOK, NEW m \in Mover
    PROVE  /\ Flag(m).limit \in Nat \ {0} /\ Flag(m).lease \in Nat
           /\ Flag(m).grace \in Nat /\ Flag(m).attempts \in Nat
<1>1. dep \in Deployment
  BY DEF TypeOK
<1>2. dep.flags[m] \in Flags
  BY <1>1 DEF Deployment
<1> QED
  BY <1>2 DEF Flag, Flags

(* A pass that is dealing with rows has one at the head of its batch. *)
LEMMA CurrentType ==
    ASSUME TypeOK, NEW m \in Mover, pc[m] \in Busy
    PROVE  Current(m) \in Row /\ Tail(batch[m]) \in Seq(Row)
<1>1. batch[m] \in Seq(Row) /\ batch[m] # <<>>
  BY DEF TypeOK
<1> QED
  BY <1>1 DEF Current

(* Moving to another place of the pass keeps the types. *)
LEMMA AtType ==
    ASSUME TypeOK, NEW m \in Mover, NEW label \in Labels, At(m, label),
           label \in Busy => batch[m] # <<>>, label # "claim"
    PROVE  /\ pc' \in [Mover -> Labels]
           /\ picked' \in [Mover -> Seq(Row)] /\ batch' \in [Mover -> Seq(Row)]
           /\ \A n \in Mover : pc'[n] \in Busy => batch'[n] # <<>>
           /\ \A n \in Mover : pc'[n] = "claim" => picked'[n] # <<>>
           /\ stamped' \in [Mover -> SUBSET Row] /\ since' \in [Mover -> 0..MaxPass]
           /\ calling' \in [Mover -> 0..Ceiling] /\ landed' \in [Mover -> BOOLEAN]
  BY DEF At, TypeOK

(* Being done with a row keeps them. *)
LEMMA AdvanceType ==
    ASSUME TypeOK, NEW m \in Mover, pc[m] \in Busy, Advance(m)
    PROVE  /\ pc' \in [Mover -> Labels]
           /\ picked' \in [Mover -> Seq(Row)] /\ batch' \in [Mover -> Seq(Row)]
           /\ \A n \in Mover : pc'[n] \in Busy => batch'[n] # <<>>
           /\ \A n \in Mover : pc'[n] = "claim" => picked'[n] # <<>>
           /\ stamped' \in [Mover -> SUBSET Row] /\ since' \in [Mover -> 0..MaxPass]
           /\ calling' \in [Mover -> 0..Ceiling] /\ landed' \in [Mover -> BOOLEAN]
<1>1. Current(m) \in Row /\ Tail(batch[m]) \in Seq(Row)
  BY CurrentType
<1>2. batch' = [batch EXCEPT ![m] = Tail(batch[m])] /\ pc' = [pc EXCEPT ![m] = Onward(Tail(batch[m]))]
  BY DEF Advance
<1>3. Onward(Tail(batch[m])) \in {"idle", "next"} /\ (Tail(batch[m]) = <<>> => Onward(Tail(batch[m])) = "idle")
  BY DEF Onward
<1>4. batch' \in [Mover -> Seq(Row)] /\ pc' \in [Mover -> Labels]
  BY <1>1, <1>2, <1>3 DEF TypeOK, Labels, Busy
<1>5. \A n \in Mover : pc'[n] \in Busy => batch'[n] # <<>>
  BY <1>2, <1>3 DEF TypeOK, Busy
<1>6. \A n \in Mover : pc'[n] = "claim" => picked'[n] # <<>>
  BY <1>2, <1>3 DEF TypeOK, Advance
<1>7. stamped' \in [Mover -> SUBSET Row]
  BY DEF TypeOK, Advance
<1> QED
  BY <1>4, <1>5, <1>6, <1>7 DEF TypeOK, Advance

(* A row leaving the table keeps them. *)
LEMMA RemoveType ==
    ASSUME TypeOK, NEW r \in Row, Remove(r)
    PROVE  /\ row' \in [Row -> {"unwritten", "here", "gone"}]
           /\ age' \in [Row -> Int] /\ \A q \in Row : age'[q] <= MaxAge
           /\ column' \in [Row -> Bot \cup {NoBot}]
           /\ claimedBy' \in [Row -> Mover \cup {NoMover}]
           /\ left' \in [Row -> Int \cup {Never}] /\ attempts' \in [Row -> Nat]
  BY DEF Remove, TypeOK

(* The type invariant holds at first. *)
LEMMA TypeInit == Init => TypeOK
<1> SUFFICES ASSUME Init PROVE TypeOK
  OBVIOUS
<1> QED
  BY DEF Init, TypeOK, Labels, Busy

(* No step breaks the types. *)
LEMMA TypeNext == TypeOK /\ [Next]_vars => TypeOK'
<1> SUFFICES ASSUME TypeOK, [Next]_vars PROVE TypeOK'
  OBVIOUS
<1> USE DEF table, movers, history
<1>1. ASSUME NEW r \in Row, Schedule(r) PROVE TypeOK'
  BY <1>1 DEF Schedule, TypeOK
<1>2. ASSUME NEW r \in Row, Cancel(r) PROVE TypeOK'
  BY <1>2, RemoveType DEF Cancel, TypeOK
<1>3. ASSUME NEW m \in Mover, Select(m) PROVE TypeOK'
  <2>1. PICK s \in Orders : Oldest(m, s) /\ picked' = [picked EXCEPT ![m] = s]
    BY <1>3 DEF Select
  <2>2. s \in Seq(Row) /\ (s = <<>> => Len(s) = 0)
    <3>1. PICK n \in 0..Rows : s \in [1..n -> Row]
      BY DEF Orders
    <3> QED
      BY <3>1, SeqDef
  <2>3. s # <<>>
    <3>1. PICK r \in Row : r \in Due(m)
      BY <1>3 DEF Select, Due
    <3>2. CASE r \in {s[i] : i \in DOMAIN s}
      BY <3>2
    <3>3. CASE Len(s) = Flag(m).limit
      BY <2>2, <3>3, FlagType
    <3> QED
      BY <2>1, <3>1, <3>2, <3>3 DEF Oldest
  <2>4. picked' \in [Mover -> Seq(Row)] /\ pc' \in [Mover -> Labels]
    BY <1>3, <2>1, <2>2 DEF Select, TypeOK, Labels
  <2>5. \A n \in Mover : pc'[n] = "claim" => picked'[n] # <<>>
    BY <1>3, <2>1, <2>3 DEF Select, TypeOK
  <2>6. \A n \in Mover : pc'[n] \in Busy => batch'[n] # <<>>
    BY <1>3 DEF Select, TypeOK, Busy
  <2> QED
    BY <1>3, <2>4, <2>5, <2>6 DEF Select, TypeOK
<1>4. ASSUME NEW m \in Mover, Claim(m) PROVE TypeOK'
  <2> DEFINE r == Head(picked[m])
  <2>1. picked[m] \in Seq(Row) /\ picked[m] # <<>> /\ batch[m] \in Seq(Row)
    BY <1>4 DEF Claim, TypeOK
  <2>2. r \in Row /\ Tail(picked[m]) \in Seq(Row) /\ Len(picked[m]) \in Nat
    BY <2>1, PopType
  <2>9. Append(batch[m], r) \in Seq(Row) /\ Append(batch[m], r) # <<>>
    BY <2>1, <2>2, PushType
  <2>3. Len(picked[m]) # 1 => Tail(picked[m]) # <<>>
    BY <2>1, PopType
  <2>4. since[m] \in Int /\ (IF Flag(m).lease = 0 THEN Never ELSE Flag(m).lease - since[m]) \in Int \cup {Never}
    <3>1. since[m] \in 0..MaxPass
      BY DEF TypeOK
    <3>2. Flag(m).lease \in Nat
      BY FlagType
    <3>3. since[m] \in Int /\ Flag(m).lease - since[m] \in Int
      BY <3>1, <3>2
    <3> QED
      BY <3>3
  <2>5. /\ claimedBy' \in [Row -> Mover \cup {NoMover}]
        /\ left' \in [Row -> Int \cup {Never}]
        /\ batch' \in [Mover -> Seq(Row)]
        /\ stamped' \in [Mover -> SUBSET Row]
        /\ \A n \in Mover : batch[n] # <<>> => batch'[n] # <<>>
    <3> HIDE DEF r
    <3>1. CASE row[r] = "here" /\ Unheld(r, since[m])
      <4>1. /\ claimedBy' = [claimedBy EXCEPT ![r] = m]
            /\ left' = [left EXCEPT ![r] = IF Flag(m).lease = 0 THEN Never ELSE Flag(m).lease - since[m]]
            /\ batch' = [batch EXCEPT ![m] = Append(@, r)]
            /\ stamped' = [n \in Mover |-> IF n = m THEN stamped[n] \cup {r} ELSE stamped[n] \ {r}]
        BY <1>4, <3>1 DEF Claim, r
      <4> QED
        BY <2>1, <2>2, <2>4, <2>9, <4>1 DEF TypeOK
    <3>2. CASE ~(row[r] = "here" /\ Unheld(r, since[m]))
      BY <1>4, <3>2 DEF Claim, TypeOK, r
    <3> QED
      BY <3>1, <3>2
  <2>6. picked' = [picked EXCEPT ![m] = Tail(picked[m])] /\ picked' \in [Mover -> Seq(Row)]
    BY <1>4, <2>2 DEF Claim, TypeOK
  <2>7. /\ pc' \in [Mover -> Labels] /\ since' \in [Mover -> 0..MaxPass]
        /\ \A n \in Mover : pc'[n] \in Busy => batch'[n] # <<>>
        /\ \A n \in Mover : pc'[n] = "claim" => picked'[n] # <<>>
    <3>1. CASE Len(picked[m]) = 1
      <4>1. pc' = [pc EXCEPT ![m] = Onward(batch'[m])] /\ since' = [since EXCEPT ![m] = 0]
        BY <1>4, <3>1 DEF Claim
      <4>2. Onward(batch'[m]) \in {"idle", "next"} /\ (batch'[m] = <<>> => Onward(batch'[m]) = "idle")
        BY DEF Onward
      <4>3. pc' \in [Mover -> Labels] /\ since' \in [Mover -> 0..MaxPass]
        BY <4>1, <4>2 DEF TypeOK, Labels, Busy
      <4>4. ASSUME NEW n \in Mover, pc'[n] \in Busy PROVE batch'[n] # <<>>
        <5>1. CASE n = m
          BY <4>1, <4>2, <4>4, <5>1 DEF TypeOK, Busy
        <5>2. CASE n # m
          BY <2>5, <4>1, <4>4, <5>2 DEF TypeOK
        <5> QED
          BY <5>1, <5>2
      <4>5. ASSUME NEW n \in Mover, pc'[n] = "claim" PROVE picked'[n] # <<>>
        <5>1. n # m
          BY <4>1, <4>2, <4>5 DEF TypeOK
        <5> QED
          BY <2>6, <4>1, <4>5, <5>1 DEF TypeOK
      <4> QED
        BY <4>3, <4>4, <4>5
    <3>2. CASE Len(picked[m]) # 1
      BY <1>4, <2>3, <2>5, <2>6, <3>2 DEF Claim, TypeOK, Busy
    <3> QED
      BY <3>1, <3>2
  <2> QED
    BY <1>4, <2>5, <2>6, <2>7 DEF Claim, TypeOK
<1>5. ASSUME NEW m \in Mover, pc[m] \in Busy, DeleteHeld(m), UNCHANGED <<dep, history, faults>>
      PROVE  TypeOK'
  <2>1. Current(m) \in Row /\ batch[m] # <<>>
    BY <1>5, CurrentType DEF TypeOK
  <2>2. CASE StillHeld(m)
    <3>1. Remove(Current(m)) /\ At(m, "record")
      BY <1>5, <2>2 DEF DeleteHeld
    <3> QED
      BY <1>5, <2>1, <3>1, RemoveType, AtType DEF TypeOK, Labels, Busy
  <2>3. CASE ~StillHeld(m)
    <3>1. Advance(m) /\ UNCHANGED table
      BY <1>5, <2>3 DEF DeleteHeld
    <3> QED
      BY <1>5, <3>1, AdvanceType DEF TypeOK
  <2> QED
    BY <2>2, <2>3
<1>6. ASSUME NEW m \in Mover, DropLate(m) \/ GiveUp(m) PROVE TypeOK'
  BY <1>5, <1>6 DEF DropLate, GiveUp, Busy
<1>7. ASSUME NEW m \in Mover, Publish(m) PROVE TypeOK'
  <2>1. batch[m] # <<>> /\ At(m, "call") /\ UNCHANGED <<dep, table, history, faults>>
    BY <1>7 DEF Publish, TypeOK, Busy
  <2> QED
    BY <2>1, AtType DEF TypeOK, Labels, Busy
<1>8. ASSUME NEW m \in Mover, Lands(m) PROVE TypeOK'
  <2>1. Current(m) \in Row
    BY <1>8, CurrentType DEF Lands, Busy
  <2> QED
    BY <1>8, <2>1 DEF Lands, TypeOK
<1>9. ASSUME NEW m \in Mover, Returns(m) \/ Raises(m) PROVE TypeOK'
  <2>1. pc[m] = "call" /\ (Ends(m, "delete") \/ Ends(m, "count")) /\ faults' \in 0..MaxFaults
    BY <1>9 DEF Returns, Raises, TypeOK
  <2>2. batch[m] # <<>>
    BY <2>1 DEF TypeOK, Busy
  <2>3. pc' \in [Mover -> Labels] /\ (\A n \in Mover : pc'[n] \in Busy => batch'[n] # <<>>)
        /\ \A n \in Mover : pc'[n] = "claim" => picked'[n] # <<>>
    BY <2>1, <2>2 DEF Ends, TypeOK, Labels, Busy
  <2>4. calling' \in [Mover -> 0..Ceiling] /\ landed' \in [Mover -> BOOLEAN]
    <3>1. calling' = [calling EXCEPT ![m] = 0] /\ landed' = [landed EXCEPT ![m] = FALSE]
      BY <2>1 DEF Ends
    <3> QED
      BY <3>1 DEF TypeOK
  <2>5. UNCHANGED <<dep, table, picked, batch, stamped, since, history>>
    BY <2>1 DEF Ends
  <2> QED
    BY <2>1, <2>3, <2>4, <2>5 DEF TypeOK
<1>10. ASSUME NEW m \in Mover, Delete(m) PROVE TypeOK'
  <2>1. Current(m) \in Row /\ Remove(Current(m)) /\ Advance(m) /\ pc[m] \in Busy
    BY <1>10, CurrentType DEF Delete, Busy
  <2> QED
    BY <1>10, <2>1, RemoveType, AdvanceType DEF Delete, TypeOK
<1>11. ASSUME NEW m \in Mover, CountFailure(m) PROVE TypeOK'
  <2>1. Current(m) \in Row /\ pc[m] \in Busy /\ batch[m] # <<>>
    BY <1>11, CurrentType DEF CountFailure, Busy, TypeOK
  <2>2. attempts' \in [Row -> Nat]
    <3>1. attempts' = [attempts EXCEPT ![Current(m)] = IF StillHeld(m) THEN @ + 1 ELSE @]
      BY <1>11 DEF CountFailure
    <3> HIDE DEF StillHeld
    <3>2. attempts[Current(m)] \in Nat
      BY <2>1 DEF TypeOK
    <3>3. (IF StillHeld(m) THEN attempts[Current(m)] + 1 ELSE attempts[Current(m)]) \in Nat
      BY <3>2
    <3> QED
      BY <2>1, <3>1, <3>3 DEF TypeOK
  <2>3. At(m, "giveup") \/ Advance(m)
    BY <1>11 DEF CountFailure
  <2> QED
    BY <1>11, <2>1, <2>2, <2>3, AtType, AdvanceType DEF CountFailure, TypeOK, Labels, Busy
<1>12. ASSUME NEW m \in Mover, Record(m) PROVE TypeOK'
  <2>1. Current(m) \in Row /\ pc[m] \in Busy /\ Advance(m)
    BY <1>12, CurrentType DEF Record, Busy
  <2>2. dropped' \in [Row -> Nat]
    BY <1>12, <2>1 DEF Record, TypeOK
  <2> QED
    BY <1>12, <2>1, <2>2, AdvanceType DEF Record, TypeOK
<1>13. ASSUME NEW m \in Mover, Crash(m) PROVE TypeOK'
  <2>1. unrecorded' \subseteq Row
    BY <1>13, CurrentType DEF Crash, TypeOK, Busy
  <2>2. /\ pc' \in [Mover -> Labels] /\ picked' \in [Mover -> Seq(Row)] /\ batch' \in [Mover -> Seq(Row)]
        /\ \A n \in Mover : pc'[n] \in Busy => batch'[n] # <<>>
        /\ \A n \in Mover : pc'[n] = "claim" => picked'[n] # <<>>
    BY <1>13 DEF Crash, TypeOK, Labels, Busy
  <2>3. faults' \in 0..MaxFaults
    BY <1>13 DEF Crash, TypeOK
  <2> QED
    BY <1>13, <2>1, <2>2, <2>3 DEF Crash, TypeOK
<1>14. ASSUME NEW m \in Mover, Restart(m) PROVE TypeOK'
  BY <1>14, AtType DEF Restart, TypeOK, Labels, Busy
<1>15. ASSUME Tick PROVE TypeOK'
  <2>1. age' \in [Row -> Int] /\ \A r \in Row : age'[r] <= MaxAge
    BY <1>15 DEF Tick, TypeOK, Older
  <2>2. left' \in [Row -> Int \cup {Never}]
    BY <1>15 DEF Tick, TypeOK, Shorter
  <2>3. since' \in [Mover -> 0..MaxPass] /\ calling' \in [Mover -> 0..Ceiling]
    BY <1>15 DEF Tick, TypeOK
  <2> QED
    BY <1>15, <2>1, <2>2, <2>3 DEF Tick, TypeOK
<1>16. CASE UNCHANGED vars
  BY <1>16 DEF vars, TypeOK
<1> QED
  BY <1>1, <1>2, <1>3, <1>4, <1>6, <1>7, <1>8, <1>9, <1>10, <1>11, <1>12, <1>13, <1>14,
     <1>15, <1>16 DEF Next, Works

(* Rows, claims and passes keep their types: what the mover reads back is   *)
(* always a row, and it is never at a row of an empty batch.                *)
THEOREM TypeCorrect == Spec => []TypeOK
  BY TypeInit, TypeNext, PTL DEF Spec

-----------------------------------------------------------------------------
(* How rows end *)

(* What a pass knows of the row it deals with, and what the row's end leaves *)
(* behind: what NothingLost and GivenUpOnce need to be inductive.             *)
LandedCalls == \A m \in Mover : landed[m] => pc[m] = "call"
SentBeforeDelete == \A m \in Mover : landed[m] \/ pc[m] = "delete" => Current(m) \in sent
RecordsRemoved == \A m \in Mover : pc[m] = "record" =>
    row[Current(m)] = "gone" /\ dropped[Current(m)] = 0
OneRecorder == \A m, n \in Mover :
    pc[m] = "record" /\ pc[n] = "record" /\ Current(m) = Current(n) => m = n
DroppedRemoved == \A r \in Row : dropped[r] # 0 => row[r] = "gone"
EndsInv == /\ NothingLost /\ GivenUpOnce /\ LandedCalls /\ SentBeforeDelete
           /\ RecordsRemoved /\ OneRecorder /\ DroppedRemoved

(* The parts hold while no row was written. *)
LEMMA EndsInit == Init => EndsInv
  BY DEF Init, EndsInv, NothingLost, GivenUpOnce, LandedCalls, SentBeforeDelete,
         RecordsRemoved, OneRecorder, DroppedRemoved

(* A step in which the movers of S move, none of them from or to the        *)
(* recording of a drop, and a row leaves the table only if it was sent or    *)
(* called off.                                                               *)
LEMMA QuietStep ==
    ASSUME TypeOK, EndsInv, NEW S \in SUBSET Mover,
           \A n \in Mover \ S : pc'[n] = pc[n] /\ batch'[n] = batch[n] /\ landed'[n] = landed[n],
           \A n \in S : pc[n] # "record" /\ pc'[n] # "record",
           \A n \in S : landed'[n] => pc'[n] = "call",
           \A n \in S : landed'[n] \/ pc'[n] = "delete" => Head(batch'[n]) \in sent',
           sent \subseteq sent', cancelled \subseteq cancelled',
           unrecorded' = unrecorded, dropped' = dropped,
           \A r \in Row : row[r] = "gone" => row'[r] = "gone",
           \A r \in Row : row'[r] = "gone" => row[r] = "gone" \/ r \in sent' \cup cancelled'
    PROVE  EndsInv'
<1>1. \A n \in Mover : pc'[n] = "record" =>
          n \notin S /\ pc[n] = "record" /\ Head(batch'[n]) = Current(n)
  BY DEF Current
<1>2. \A n \in Mover : pc[n] = "record" => pc'[n] = "record" /\ Head(batch'[n]) = Current(n)
  BY DEF Current
<1>3. NothingLost'
  BY <1>2 DEF EndsInv, NothingLost, Current
<1>4. GivenUpOnce' /\ DroppedRemoved'
  BY DEF EndsInv, GivenUpOnce, DroppedRemoved
<1>5. LandedCalls'
  BY DEF EndsInv, LandedCalls
<1>6. SentBeforeDelete'
  BY DEF EndsInv, SentBeforeDelete, Current
<1>7. RecordsRemoved'
  <2> SUFFICES ASSUME NEW n \in Mover, pc'[n] = "record"
               PROVE  row'[Current(n)'] = "gone" /\ dropped'[Current(n)'] = 0
    BY DEF RecordsRemoved
  <2>1. Current(n)' = Current(n) /\ pc[n] = "record"
    BY <1>1 DEF Current
  <2>2. Current(n) \in Row
    BY <2>1, CurrentType DEF Busy
  <2> QED
    BY <2>1, <2>2 DEF EndsInv, RecordsRemoved
<1>8. OneRecorder'
  BY <1>1 DEF EndsInv, OneRecorder, Current
<1> QED
  BY <1>3, <1>4, <1>5, <1>6, <1>7, <1>8 DEF EndsInv

(* A pass that is done with a row it was not recording. *)
LEMMA AdvanceEnds ==
    ASSUME TypeOK, EndsInv, NEW m \in Mover, pc[m] \in Busy, pc[m] # "record", ~landed[m],
           Advance(m), UNCHANGED history,
           \A r \in Row : row[r] = "gone" => row'[r] = "gone",
           \A r \in Row : row'[r] = "gone" => row[r] = "gone" \/ r \in sent
    PROVE  EndsInv'
<1>1. pc'[m] \in {"idle", "next"} /\ landed'[m] = landed[m]
  BY DEF Advance, Onward, TypeOK
<1>2. \A n \in Mover \ {m} : pc'[n] = pc[n] /\ batch'[n] = batch[n] /\ landed'[n] = landed[n]
  BY DEF Advance, TypeOK
<1>3. UNCHANGED <<sent, cancelled, unrecorded, dropped>>
  BY DEF history
<1>4. {m} \in SUBSET Mover
  OBVIOUS
<1> QED
  BY <1>1, <1>2, <1>3, <1>4, QuietStep

(* Giving up on a row: its delete, and the place where the drop is recorded. *)
LEMMA DeleteHeldEnds ==
    ASSUME TypeOK, EndsInv, NEW m \in Mover, pc[m] \in {"next", "giveup"}, DeleteHeld(m),
           UNCHANGED history
    PROVE  EndsInv'
<1>1. ~landed[m] /\ pc[m] \in Busy /\ pc[m] # "record"
  BY DEF EndsInv, LandedCalls, Busy
<1>2. CASE ~StillHeld(m)
  <2>1. Advance(m) /\ row' = row
    BY <1>2 DEF DeleteHeld, table
  <2> QED
    BY <1>1, <2>1, AdvanceEnds
<1>3. CASE StillHeld(m)
  <2> DEFINE r == Current(m)
  <2>1. /\ row' = [row EXCEPT ![r] = "gone"]
        /\ pc' = [pc EXCEPT ![m] = "record"] /\ batch' = batch /\ landed' = landed
        /\ sent' = sent /\ dropped' = dropped /\ cancelled' = cancelled /\ unrecorded' = unrecorded
    BY <1>3 DEF DeleteHeld, Remove, At, history
  <2>2. r \in Row /\ row[r] = "here"
    BY <1>1, <1>3, CurrentType DEF StillHeld
  <2>3. \A n \in Mover : Current(n)' = Current(n)
    BY <2>1 DEF Current
  <2>4. dropped[r] = 0 /\ \A n \in Mover : pc[n] = "record" => Current(n) # r
    BY <2>2 DEF EndsInv, DroppedRemoved, RecordsRemoved
  <2> HIDE DEF r
  <2>5. pc'[m] = "record" /\ \A n \in Mover : n # m => pc'[n] = pc[n]
    BY <2>1 DEF TypeOK
  <2>6. row'[r] = "gone" /\ \A q \in Row : q # r => row'[q] = row[q]
    BY <2>1, <2>2 DEF TypeOK
  <2>7. Current(m)' = r
    BY <2>3 DEF r
  <2>8. NothingLost'
    <3> SUFFICES ASSUME NEW q \in Row, row'[q] = "gone"
                 PROVE  \/ q \in sent' \cup cancelled' \cup unrecorded' \/ dropped'[q] > 0
                        \/ \E n \in Mover : pc'[n] = "record" /\ Current(n)' = q
      BY DEF NothingLost
    <3>1. CASE q = r
      BY <2>5, <2>7, <3>1
    <3>2. CASE q # r
      <4>1. row[q] = "gone"
        BY <2>6, <3>2
      <4>2. \A n \in Mover : pc[n] = "record" => pc'[n] = "record" /\ Current(n)' = Current(n)
        BY <1>1, <2>3, <2>5
      <4> QED
        BY <2>1, <4>1, <4>2 DEF EndsInv, NothingLost
    <3> QED
      BY <3>1, <3>2
  <2>9. GivenUpOnce'
    BY <2>1 DEF EndsInv, GivenUpOnce
  <2>10. LandedCalls'
    BY <1>1, <2>1, <2>5 DEF EndsInv, LandedCalls
  <2>11. SentBeforeDelete'
    BY <1>1, <2>1, <2>3, <2>5 DEF EndsInv, SentBeforeDelete
  <2>12. RecordsRemoved'
    <3> SUFFICES ASSUME NEW n \in Mover, pc'[n] = "record"
                 PROVE  row'[Current(n)'] = "gone" /\ dropped'[Current(n)'] = 0
      BY DEF RecordsRemoved
    <3>1. CASE n = m
      BY <2>1, <2>4, <2>6, <2>7, <3>1
    <3>2. CASE n # m
      <4>1. pc[n] = "record" /\ Current(n)' = Current(n)
        BY <2>3, <2>5, <3>2
      <4>2. Current(n) \in Row /\ Current(n) # r
        BY <2>4, <4>1, CurrentType DEF Busy
      <4>3. row'[Current(n)] = row[Current(n)]
        BY <2>6, <4>2
      <4> QED
        BY <2>1, <4>1, <4>3 DEF EndsInv, RecordsRemoved
    <3> QED
      BY <3>1, <3>2
  <2>13. OneRecorder'
    BY <2>3, <2>4, <2>5, <2>7 DEF EndsInv, OneRecorder
  <2>14. DroppedRemoved'
    BY <2>1, <2>6 DEF EndsInv, DroppedRemoved
  <2> QED
    BY <2>8, <2>9, <2>10, <2>11, <2>12, <2>13, <2>14 DEF EndsInv
<1> QED
  BY <1>2, <1>3

(* The drop is recorded, or its mover dies before it was. *)
LEMMA RecordEnds ==
    ASSUME TypeOK, EndsInv, NEW m \in Mover, pc[m] = "record", pc'[m] \in {"idle", "next", "down"},
           ~landed'[m], row' = row, sent' = sent, cancelled' = cancelled,
           \A n \in Mover \ {m} : pc'[n] = pc[n] /\ batch'[n] = batch[n] /\ landed'[n] = landed[n],
           unrecorded \subseteq unrecorded',
           \/ dropped' = [dropped EXCEPT ![Current(m)] = @ + 1]
           \/ dropped' = dropped /\ Current(m) \in unrecorded'
    PROVE  EndsInv'
<1> DEFINE r == Current(m)
<1>1. r \in Row /\ row[r] = "gone" /\ dropped[r] = 0
  BY CurrentType DEF Busy, EndsInv, RecordsRemoved
<1>2. \A n \in Mover : pc'[n] = "record" =>
          n # m /\ pc[n] = "record" /\ Current(n)' = Current(n) /\ Current(n) # r
  BY DEF EndsInv, OneRecorder, Current
<1>3. \A n \in Mover : pc[n] = "record" /\ Current(n) # r =>
          pc'[n] = "record" /\ Current(n)' = Current(n)
  BY DEF Current
<1>4. (dropped'[r] = 0 /\ r \in unrecorded') \/ dropped'[r] = 1
  BY <1>1 DEF TypeOK
<1>5. \A q \in Row : q # r => dropped'[q] = dropped[q]
  BY <1>1 DEF TypeOK
<1> HIDE DEF r
<1>6. NothingLost'
  <2> SUFFICES ASSUME NEW q \in Row, row'[q] = "gone"
               PROVE  \/ q \in sent' \cup cancelled' \cup unrecorded' \/ dropped'[q] > 0
                      \/ \E n \in Mover : pc'[n] = "record" /\ Current(n)' = q
    BY DEF NothingLost
  <2>1. CASE q = r
    BY <1>4, <2>1
  <2>2. CASE q # r
    BY <1>3, <1>5, <2>2 DEF EndsInv, NothingLost
  <2> QED
    BY <2>1, <2>2
<1>7. GivenUpOnce'
  BY <1>4, <1>5 DEF EndsInv, GivenUpOnce
<1>8. LandedCalls' /\ SentBeforeDelete'
  <2> SUFFICES ASSUME NEW n \in Mover
               PROVE  /\ landed'[n] => pc'[n] = "call"
                      /\ landed'[n] \/ pc'[n] = "delete" => Current(n)' \in sent'
    BY DEF LandedCalls, SentBeforeDelete
  <2>1. CASE n = m
    BY <2>1
  <2>2. CASE n # m
    BY <2>2 DEF EndsInv, LandedCalls, SentBeforeDelete, Current
  <2> QED
    BY <2>1, <2>2
<1>9. RecordsRemoved'
  <2> SUFFICES ASSUME NEW n \in Mover, pc'[n] = "record"
               PROVE  row'[Current(n)'] = "gone" /\ dropped'[Current(n)'] = 0
    BY DEF RecordsRemoved
  <2>1. pc[n] = "record" /\ Current(n)' = Current(n) /\ Current(n) # r
    BY <1>2
  <2>2. Current(n) \in Row
    BY <2>1, CurrentType DEF Busy
  <2> QED
    BY <1>5, <2>1, <2>2 DEF EndsInv, RecordsRemoved
<1>10. OneRecorder'
  BY <1>2 DEF EndsInv, OneRecorder
<1>11. DroppedRemoved'
  BY <1>1, <1>5 DEF EndsInv, DroppedRemoved
<1> QED
  BY <1>6, <1>7, <1>8, <1>9, <1>10, <1>11 DEF EndsInv

(* No step breaks the parts. *)
LEMMA EndsNext == TypeOK /\ EndsInv /\ [Next]_vars => EndsInv'
<1> SUFFICES ASSUME TypeOK, EndsInv, [Next]_vars PROVE EndsInv'
  OBVIOUS
<1> USE DEF table, movers, history
<1>0. {} \in SUBSET Mover /\ \A m \in Mover : {m} \in SUBSET Mover
  OBVIOUS
<1>1. ASSUME NEW r \in Row, Schedule(r) PROVE EndsInv'
  <2>1. UNCHANGED <<pc, batch, landed, sent, cancelled, unrecorded, dropped>>
    BY <1>1 DEF Schedule
  <2>2. \A q \in Row : row'[q] = "gone" <=> row[q] = "gone"
    BY <1>1 DEF Schedule, TypeOK
  <2> QED
    BY <1>0, <2>1, <2>2, QuietStep
<1>2. ASSUME NEW r \in Row, Cancel(r) PROVE EndsInv'
  <2>1. UNCHANGED <<pc, batch, landed, sent, unrecorded, dropped>> /\ cancelled' = cancelled \cup {r}
    BY <1>2 DEF Cancel
  <2>2. \A q \in Row : (row[q] = "gone" => row'[q] = "gone") /\ (row'[q] = "gone" => row[q] = "gone" \/ q = r)
    BY <1>2 DEF Cancel, Remove, TypeOK
  <2> QED
    BY <1>0, <2>1, <2>2, QuietStep
<1>3. ASSUME NEW m \in Mover, Select(m) \/ Claim(m) PROVE EndsInv'
  <2>1. UNCHANGED <<row, landed, sent, cancelled, unrecorded, dropped>>
    BY <1>3 DEF Select, Claim
  <2>2. pc[m] \in {"idle", "claim"} /\ pc'[m] \in {"idle", "claim", "next"}
    BY <1>3 DEF Select, Claim, TypeOK, Onward
  <2>3. \A n \in Mover \ {m} : pc'[n] = pc[n] /\ batch'[n] = batch[n] /\ landed'[n] = landed[n]
    BY <1>3, <2>1 DEF Select, Claim, TypeOK
  <2>4. ~landed'[m]
    BY <2>1, <2>2 DEF EndsInv, LandedCalls
  <2> QED
    BY <1>0, <2>1, <2>2, <2>3, <2>4, QuietStep
<1>4. ASSUME NEW m \in Mover, DropLate(m) \/ GiveUp(m) PROVE EndsInv'
  BY <1>4, DeleteHeldEnds DEF DropLate, GiveUp
<1>5. ASSUME NEW m \in Mover, Publish(m) \/ Restart(m) PROVE EndsInv'
  <2>1. UNCHANGED <<row, batch, landed, sent, cancelled, unrecorded, dropped>>
    BY <1>5 DEF Publish, Restart, At
  <2>2. pc[m] \in {"next", "down"} /\ pc'[m] \in {"call", "idle"} /\ \A n \in Mover \ {m} : pc'[n] = pc[n]
    BY <1>5 DEF Publish, Restart, At, TypeOK
  <2>3. ~landed'[m]
    BY <2>1, <2>2 DEF EndsInv, LandedCalls
  <2> QED
    BY <1>0, <2>1, <2>2, <2>3, QuietStep
<1>6. ASSUME NEW m \in Mover, Lands(m) PROVE EndsInv'
  <2>1. UNCHANGED <<row, pc, batch, cancelled, unrecorded, dropped>> /\ sent' = sent \cup {Current(m)}
        /\ pc[m] = "call" /\ \A n \in Mover \ {m} : landed'[n] = landed[n]
    BY <1>6 DEF Lands, TypeOK
  <2>2. Head(batch'[m]) \in sent'
    BY <2>1 DEF Current
  <2> QED
    BY <1>0, <2>1, <2>2, QuietStep
<1>7. ASSUME NEW m \in Mover, Returns(m) \/ Raises(m) PROVE EndsInv'
  <2>1. /\ UNCHANGED <<row, batch, sent, cancelled, unrecorded, dropped>>
        /\ pc[m] = "call" /\ ~landed'[m] /\ pc'[m] \in {"delete", "count"}
        /\ pc'[m] = "delete" => landed[m]
    BY <1>7 DEF Returns, Raises, Ends, TypeOK
  <2>2. \A n \in Mover \ {m} : pc'[n] = pc[n] /\ landed'[n] = landed[n]
    BY <1>7 DEF Returns, Raises, Ends, TypeOK
  <2>3. pc'[m] = "delete" => Head(batch'[m]) \in sent'
    BY <2>1 DEF EndsInv, SentBeforeDelete, Current
  <2> QED
    BY <1>0, <2>1, <2>2, <2>3, QuietStep
<1>8. ASSUME NEW m \in Mover, Delete(m) PROVE EndsInv'
  <2>1. pc[m] = "delete" /\ ~landed[m] /\ Current(m) \in sent /\ pc[m] \in Busy /\ Current(m) \in Row
    BY <1>8, CurrentType DEF Delete, EndsInv, SentBeforeDelete, LandedCalls, Busy
  <2>2. Advance(m) /\ UNCHANGED history
    BY <1>8 DEF Delete
  <2>3. \A q \in Row : (row[q] = "gone" => row'[q] = "gone")
            /\ (row'[q] = "gone" => row[q] = "gone" \/ q \in sent)
    BY <1>8, <2>1 DEF Delete, Remove, TypeOK
  <2> QED
    BY <2>1, <2>2, <2>3, AdvanceEnds
<1>9. ASSUME NEW m \in Mover, CountFailure(m) PROVE EndsInv'
  <2>1. pc[m] = "count" /\ ~landed[m] /\ pc[m] \in Busy /\ UNCHANGED <<row, history>>
    BY <1>9 DEF CountFailure, EndsInv, LandedCalls, Busy
  <2>2. At(m, "giveup") \/ Advance(m)
    BY <1>9 DEF CountFailure
  <2>3. CASE At(m, "giveup")
    <3>1. batch' = batch /\ landed' = landed /\ pc'[m] = "giveup" /\ \A n \in Mover \ {m} : pc'[n] = pc[n]
      BY <2>3 DEF At, TypeOK
    <3> QED
      BY <1>0, <2>1, <3>1, QuietStep
  <2>4. CASE Advance(m)
    BY <2>1, <2>4, AdvanceEnds
  <2> QED
    BY <2>2, <2>3, <2>4
<1>10. ASSUME NEW m \in Mover, Record(m) PROVE EndsInv'
  <2>1. /\ pc[m] = "record" /\ row' = row /\ sent' = sent /\ cancelled' = cancelled
        /\ unrecorded' = unrecorded /\ dropped' = [dropped EXCEPT ![Current(m)] = @ + 1] /\ Advance(m)
    BY <1>10 DEF Record
  <2>2. pc'[m] \in {"idle", "next"} /\ ~landed'[m]
    BY <2>1 DEF Advance, Onward, TypeOK, EndsInv, LandedCalls
  <2>3. \A n \in Mover \ {m} : pc'[n] = pc[n] /\ batch'[n] = batch[n] /\ landed'[n] = landed[n]
    BY <2>1 DEF Advance, TypeOK
  <2> QED
    BY <2>1, <2>2, <2>3, RecordEnds
<1>11. ASSUME NEW m \in Mover, Crash(m) PROVE EndsInv'
  <2>1. /\ row' = row /\ sent' = sent /\ cancelled' = cancelled /\ dropped' = dropped
        /\ unrecorded' = IF pc[m] = "record" THEN unrecorded \cup {Current(m)} ELSE unrecorded
    BY <1>11 DEF Crash
  <2>2. /\ pc'[m] = "down" /\ ~landed'[m]
        /\ \A n \in Mover \ {m} : pc'[n] = pc[n] /\ batch'[n] = batch[n] /\ landed'[n] = landed[n]
    BY <1>11 DEF Crash, TypeOK
  <2>3. CASE pc[m] = "record"
    BY <2>1, <2>2, <2>3, RecordEnds
  <2>4. CASE pc[m] # "record"
    BY <1>0, <2>1, <2>2, <2>4, QuietStep
  <2> QED
    BY <2>3, <2>4
<1>12. ASSUME Tick \/ UNCHANGED vars PROVE EndsInv'
  <2>1. UNCHANGED <<row, pc, batch, landed, sent, cancelled, unrecorded, dropped>>
    BY <1>12 DEF Tick, vars
  <2> QED
    BY <1>0, <2>1, QuietStep
<1> QED
  BY <1>1, <1>2, <1>3, <1>4, <1>5, <1>6, <1>7, <1>8, <1>9, <1>10, <1>11, <1>12 DEF Next, Works

(* A row that left the table was sent, called off, or given up on with an    *)
(* event that says so, unless its mover died between the delete and the      *)
(* event: whatever fails in _publish, _count_failure and _drop_late, and     *)
(* however many movers share a row whose claim lapsed.                       *)
THEOREM RowsNotLost == Spec => []NothingLost
<1>1. TypeOK /\ EndsInv /\ [Next]_vars => (TypeOK /\ EndsInv)'
  BY TypeNext, EndsNext
<1>2. EndsInv => NothingLost
  BY DEF EndsInv
<1> QED
  BY TypeInit, EndsInit, <1>1, <1>2, PTL DEF Spec

(* And the event feed says so at most once. *)
THEOREM GivenUpAtMostOnce == Spec => []GivenUpOnce
<1>1. TypeOK /\ EndsInv /\ [Next]_vars => (TypeOK /\ EndsInv)'
  BY TypeNext, EndsNext
<1>2. EndsInv => GivenUpOnce
  BY DEF EndsInv
<1> QED
  BY TypeInit, EndsInit, <1>1, <1>2, PTL DEF Spec

-----------------------------------------------------------------------------
(* Leases *)

Entries(s) == {s[i] : i \in DOMAIN s}
Distinct(s) == \A i, j \in DOMAIN s : s[i] = s[j] => i = j

(* What the mover has still to call for, and how long that may take. *)
Spent(m) == pc[m] \in {"delete", "count", "giveup", "record"}
ToDo(m) == Len(picked[m]) + Len(batch[m]) - IF Spent(m) THEN 1 ELSE 0
Need(m) == ToDo(m) * Ceiling - calling[m]

(* A pass that is over left nothing, a selection is tried before a row is  *)
(* published, and only a call lasts; no row is in a pass twice, nor more    *)
(* rows than the pass takes; and a mover that is not slow claims in the     *)
(* moment that it read.                                                     *)
StillOf(m) ==
    /\ pc[m] \in {"idle", "down"} => batch[m] = <<>>
    /\ pc[m] # "claim" => picked[m] = <<>>
    /\ pc[m] # "call" => calling[m] = 0
SinglyOf(m) == Distinct(picked[m]) /\ Distinct(batch[m]) /\ Entries(picked[m]) \cap Entries(batch[m]) = {}
WithinOf(m) == Len(picked[m]) + Len(batch[m]) <= Flag(m).limit
FreshOf(m) == m \notin dep.slow => since[m] = 0
PassOf(m) == StillOf(m) /\ SinglyOf(m) /\ WithinOf(m) /\ FreshOf(m)
PassInv == \A m \in Mover : PassOf(m)

(* A row carries the claim of one mover. *)
OneStamp == \A m, n \in Mover : \A r \in Row : r \in stamped[m] /\ r \in stamped[n] => m = n

(* The row is m's for longer than what m has to do. *)
Held(m, r) ==
    /\ row[r] = "here" /\ claimedBy[r] = m /\ r \in stamped[m]
    /\ left[r] = Never \/ left[r] > Need(m)

CoverOf(m) == RoomForBatch(m) =>
    \A r \in Entries(batch[m]) :
        \/ pc[m] = "record" /\ r = Current(m)
        \/ Held(m, r)
        \/ row[r] = "gone" /\ r \in sent
CoverInv == \A m \in Mover : CoverOf(m)

(* Less to do takes no longer. *)
LEMMA Times ==
    ASSUME NEW a \in Nat, NEW b \in Nat, NEW c \in Nat, a <= b
    PROVE  a * c <= b * c /\ a * c \in Nat /\ (a + 1) * c = a * c + c
  OBVIOUS

(* The rows that are left when the first was taken. *)
LEMMA PopEntries ==
    ASSUME NEW S, NEW q \in Seq(S), q # <<>>, Distinct(q)
    PROVE  /\ Head(q) \in Entries(q) /\ Entries(Tail(q)) = Entries(q) \ {Head(q)}
           /\ Distinct(Tail(q)) /\ Len(Tail(q)) = Len(q) - 1 /\ Len(q) \in Nat \ {0}
<1>1. Len(q) \in Nat \ {0} /\ DOMAIN q = 1..Len(q) /\ Head(q) = q[1]
  BY EmptySeq, HeadTailProperties
<1>2. Len(Tail(q)) = Len(q) - 1 /\ DOMAIN Tail(q) = 1..(Len(q) - 1)
  BY <1>1, HeadTailProperties
<1>3. \A i \in 1..(Len(q) - 1) : Tail(q)[i] = q[i + 1]
  BY <1>1, HeadTailProperties
<1>4. Distinct(Tail(q))
  BY <1>1, <1>2, <1>3 DEF Distinct
<1>5. Head(q) \in Entries(q)
  BY <1>1 DEF Entries
<1>6. ASSUME NEW e \in Entries(Tail(q)) PROVE e \in Entries(q) /\ e # Head(q)
  <2>1. PICK i \in 1..(Len(q) - 1) : e = q[i + 1]
    BY <1>2, <1>3 DEF Entries
  <2>2. i + 1 \in DOMAIN q /\ 1 \in DOMAIN q /\ i + 1 # 1
    BY <1>1
  <2> QED
    BY <1>1, <2>1, <2>2 DEF Entries, Distinct
<1>7. ASSUME NEW e \in Entries(q), e # Head(q) PROVE e \in Entries(Tail(q))
  <2>1. PICK i \in 1..Len(q) : e = q[i]
    BY <1>1 DEF Entries
  <2>2. i - 1 \in 1..(Len(q) - 1) /\ (i - 1) + 1 = i
    BY <1>1, <1>7, <2>1
  <2>3. Tail(q)[i - 1] = e
    BY <1>3, <2>1, <2>2
  <2> QED
    BY <1>2, <2>2, <2>3 DEF Entries
<1> QED
  BY <1>1, <1>2, <1>4, <1>5, <1>6, <1>7

(* The rows of a batch that won another. *)
LEMMA PushEntries ==
    ASSUME NEW S, NEW q \in Seq(S), NEW e \in S
    PROVE  /\ Entries(Append(q, e)) = Entries(q) \cup {e} /\ Len(Append(q, e)) = Len(q) + 1
           /\ Distinct(q) /\ e \notin Entries(q) => Distinct(Append(q, e))
<1>1. Len(q) \in Nat /\ DOMAIN q = 1..Len(q) /\ Len(Append(q, e)) = Len(q) + 1
  OBVIOUS
<1>2. DOMAIN Append(q, e) = 1..(Len(q) + 1)
  BY <1>1
<1>3. /\ \A i \in 1..Len(q) : Append(q, e)[i] = q[i]
      /\ Append(q, e)[Len(q) + 1] = e
  BY <1>1
<1>4. \A i \in 1..(Len(q) + 1) : i \in 1..Len(q) \/ i = Len(q) + 1
  BY <1>1
<1>5. 1..Len(q) \subseteq 1..(Len(q) + 1) /\ Len(q) + 1 \in 1..(Len(q) + 1)
  BY <1>1
<1> DEFINE a == Append(q, e)
           k == Len(q) + 1
<1> HIDE DEF a, k
<1>6. /\ DOMAIN a = 1..k /\ \A i \in DOMAIN q : a[i] = q[i] /\ i \in DOMAIN a
      /\ a[k] = e /\ k \in DOMAIN a /\ \A i \in DOMAIN a : i \in DOMAIN q \/ i = k
  BY <1>1, <1>2, <1>3, <1>4, <1>5 DEF a, k
<1>7. Entries(a) = Entries(q) \cup {e}
  BY <1>6 DEF Entries
<1>8. Distinct(q) /\ e \notin Entries(q) => Distinct(a)
  BY <1>6 DEF Entries, Distinct
<1> QED
  BY <1>1, <1>7, <1>8 DEF a


(* A selection names no row twice, and no more rows than the pass takes. *)
LEMMA SelectionIsSingle ==
    ASSUME TypeOK, NEW m \in Mover, NEW s \in Orders, Oldest(m, s)
    PROVE  s \in Seq(Row) /\ Distinct(s) /\ Len(s) <= Flag(m).limit
<1>1. PICK n \in 0..Rows : s \in [1..n -> Row]
  BY DEF Orders
<1>2. s \in Seq(Row) /\ DOMAIN s = 1..n
  BY <1>1, SeqDef
<1>3. \A i \in DOMAIN s : s[i] \in Row /\ ~Before(s[i], s[i])
  <2>1. \A r \in Row : age[r] \in Int /\ r \in Int
    BY DEF TypeOK, Row
  <2>2. \A r \in Row : ~Before(r, r)
    BY <2>1 DEF Before
  <2>3. \A i \in DOMAIN s : s[i] \in Row
    BY <1>1
  <2> QED
    BY <2>2, <2>3
<1>4. ASSUME NEW i \in DOMAIN s, NEW j \in DOMAIN s, s[i] = s[j], i # j PROVE FALSE
  <2>1. i < j \/ j < i
    BY <1>2, <1>4
  <2> QED
    BY <1>3, <1>4, <2>1 DEF Oldest
<1> QED
  BY <1>2, <1>4 DEF Oldest, Distinct

(* A pass that goes on as it was. *)
LEMMA SamePass ==
    ASSUME NEW n \in Mover, PassOf(n), dep' = dep, batch'[n] = batch[n],
           picked'[n] = picked[n] \/ (picked'[n] = <<>> /\ TypeOK),
           since'[n] = since[n] \/ since'[n] = 0,
           pc'[n] \in {"idle", "down"} => batch[n] = <<>>,
           pc'[n] # "claim" => picked'[n] = <<>>, pc'[n] # "call" => calling'[n] = 0
    PROVE  PassOf(n)'
<1>1. StillOf(n)' /\ FreshOf(n)'
  BY DEF PassOf, StillOf, FreshOf
<1>2. CASE picked'[n] = picked[n]
  BY <1>1, <1>2 DEF PassOf, SinglyOf, WithinOf, Flag
<1>3. CASE picked'[n] = <<>> /\ TypeOK
  <2>1. picked[n] \in Seq(Row) /\ batch[n] \in Seq(Row) /\ Flag(n).limit \in Nat
    BY <1>3, FlagType DEF TypeOK
  <2>2. Len(picked[n]) \in Nat /\ Len(batch[n]) \in Nat /\ Len(picked'[n]) = 0
    BY <1>3, <2>1
  <2>3. Distinct(picked'[n]) /\ Entries(picked'[n]) = {}
    BY <1>3 DEF Distinct, Entries
  <2>4. SinglyOf(n)'
    BY <2>3 DEF PassOf, SinglyOf
  <2>5. WithinOf(n)'
    <3>1. Flag(n)' = Flag(n)
      BY DEF Flag
    <3>2. Len(picked[n]) + Len(batch[n]) <= Flag(n).limit
      BY DEF PassOf, WithinOf
    <3> DEFINE a == Len(picked[n])
               b == Len(batch[n])
               k == Flag(n).limit
    <3>3. a \in Nat /\ b \in Nat /\ k \in Nat /\ a + b <= k
      BY <2>1, <2>2, <3>2
    <3> HIDE DEF a, b, k
    <3>4. 0 + b <= k
      BY <3>3
    <3>5. Len(picked'[n]) + Len(batch'[n]) = 0 + b /\ Flag(n)'.limit = k
      BY <2>2, <3>1 DEF b, k
    <3> QED
      BY <3>4, <3>5 DEF WithinOf
  <2> QED
    BY <1>1, <2>4, <2>5 DEF PassOf
<1> QED
  BY <1>2, <1>3

(* Being done with a row keeps the pass in order. *)
LEMMA AdvancePass ==
    ASSUME TypeOK, PassInv, NEW m \in Mover, pc[m] \in Busy \ {"call"}, Advance(m), dep' = dep
    PROVE  PassInv'
<1>1. batch[m] \in Seq(Row) /\ batch[m] # <<>> /\ Distinct(batch[m]) /\ picked[m] = <<>> /\ calling[m] = 0
  BY DEF TypeOK, PassInv, PassOf, StillOf, SinglyOf, Busy
<1>2. /\ batch'[m] = Tail(batch[m]) /\ pc'[m] = Onward(Tail(batch[m]))
      /\ \A n \in Mover \ {m} : batch'[n] = batch[n] /\ pc'[n] = pc[n]
      /\ picked' = picked /\ since' = since /\ calling' = calling
  BY DEF Advance, TypeOK
<1>3. ASSUME NEW n \in Mover, n # m PROVE PassOf(n)'
  BY <1>2, <1>3, SamePass DEF PassInv, PassOf, StillOf
<1>4. PassOf(m)'
  <2>1. /\ Entries(batch'[m]) \subseteq Entries(batch[m]) /\ Distinct(batch'[m])
        /\ Len(batch'[m]) = Len(batch[m]) - 1 /\ Len(batch[m]) \in Nat
    BY <1>1, <1>2, PopEntries
  <2>2. StillOf(m)' /\ FreshOf(m)'
    BY <1>1, <1>2 DEF StillOf, FreshOf, PassInv, PassOf, Onward
  <2>3. SinglyOf(m)'
    BY <1>2, <2>1 DEF SinglyOf, PassInv, PassOf
  <2>4. Len(picked[m]) \in Nat /\ Flag(m).limit \in Nat /\ Flag(m)' = Flag(m)
    <3>1. picked[m] \in Seq(Row)
      BY DEF TypeOK
    <3> QED
      BY <3>1, FlagType DEF Flag
  <2>5. WithinOf(m)'
    <3>1. Len(picked[m]) + Len(batch[m]) <= Flag(m).limit
      BY DEF PassInv, PassOf, WithinOf
    <3> DEFINE a == Len(picked[m])
               b == Len(batch[m])
               k == Flag(m).limit
    <3>2. a \in Nat /\ b \in Nat /\ k \in Nat /\ a + b <= k
      BY <2>1, <2>4, <3>1
    <3> HIDE DEF a, b, k
    <3>3. a + (b - 1) <= k
      BY <3>2
    <3>4. Len(picked'[m]) = a /\ Len(batch'[m]) = b - 1 /\ Flag(m)'.limit = k
      BY <1>2, <2>1, <2>4 DEF a, b, k
    <3> QED
      BY <3>3, <3>4 DEF WithinOf
  <2> QED
    BY <2>2, <2>3, <2>5 DEF PassOf
<1> QED
  BY <1>3, <1>4 DEF PassInv

LEMMA PassInit == Init => PassInv /\ OneStamp
<1> SUFFICES ASSUME Init PROVE PassInv /\ OneStamp
  OBVIOUS
<1>1. Entries(<<>>) = {} /\ Distinct(<<>>) /\ Len(<<>>) = 0
  BY DEF Entries, Distinct
<1>2. TypeOK
  BY TypeInit
<1>3. ASSUME NEW m \in Mover PROVE PassOf(m)
  <2>1. picked[m] = <<>> /\ batch[m] = <<>> /\ since[m] = 0 /\ calling[m] = 0 /\ pc[m] = "idle"
    BY DEF Init
  <2>2. Flag(m).limit \in Nat
    BY <1>2, FlagType
  <2> QED
    BY <1>1, <2>1, <2>2 DEF PassOf, StillOf, SinglyOf, WithinOf, FreshOf
<1> QED
  BY <1>3 DEF PassInv, OneStamp, Init

(* No step takes a pass out of order. *)
LEMMA PassNext == TypeOK /\ PassInv /\ [Next]_vars => PassInv'
<1> SUFFICES ASSUME TypeOK, PassInv, [Next]_vars PROVE PassInv'
  OBVIOUS
<1> USE DEF table, movers, history
<1>1. ASSUME UNCHANGED <<dep, pc, picked, batch, since, calling>> PROVE PassInv'
  BY <1>1, SamePass DEF PassInv, PassOf, StillOf
<1>2. ASSUME NEW m \in Mover, UNCHANGED <<dep, batch, since, picked>>, NEW label, pc' = [pc EXCEPT ![m] = label],
             calling' = [calling EXCEPT ![m] = IF label = "call" THEN @ ELSE 0] \/ calling' = calling,
             label # "claim", label \in {"idle", "down"} => batch[m] = <<>>,
             picked[m] = <<>>, label # "call" => calling'[m] = 0
      PROVE  PassInv'
  <2>1. ASSUME NEW n \in Mover PROVE PassOf(n)'
    <3>1. PassOf(n) /\ StillOf(n)
      BY DEF PassInv, PassOf
    <3>2. CASE n = m
      <4>1. pc'[n] = label
        BY <1>2, <3>2 DEF TypeOK
      <4> QED
        BY <1>2, <3>1, <3>2, <4>1, SamePass
    <3>3. CASE n # m
      <4>1. pc'[n] = pc[n] /\ calling'[n] = calling[n]
        BY <1>2, <3>3 DEF TypeOK
      <4> QED
        BY <1>2, <3>1, <4>1, SamePass DEF StillOf
    <3> QED
      BY <3>2, <3>3
  <2> QED
    BY <2>1 DEF PassInv
<1>3. ASSUME NEW r \in Row, Schedule(r) \/ Cancel(r) PROVE PassInv'
  BY <1>1, <1>3 DEF Schedule, Cancel
<1>4. ASSUME NEW m \in Mover, Select(m) PROVE PassInv'
  <2>1. PICK s \in Orders : Oldest(m, s) /\ picked' = [picked EXCEPT ![m] = s]
    BY <1>4 DEF Select
  <2>2. Distinct(s) /\ Len(s) <= Flag(m).limit /\ Len(s) \in Nat
    BY <2>1, SelectionIsSingle
  <2>3. /\ pc' = [pc EXCEPT ![m] = "claim"] /\ batch[m] = <<>> /\ calling[m] = 0
        /\ UNCHANGED <<dep, batch, since, calling>>
    BY <1>4 DEF Select, PassInv, PassOf, StillOf
  <2>4. ASSUME NEW n \in Mover, n # m PROVE PassOf(n)'
    <3>1. pc'[n] = pc[n] /\ picked'[n] = picked[n] /\ PassOf(n) /\ StillOf(n)
      BY <2>1, <2>3, <2>4 DEF TypeOK, PassInv, PassOf
    <3> QED
      BY <2>3, <3>1, SamePass DEF StillOf
  <2>5. PassOf(m)'
    <3>1. pc'[m] = "claim" /\ picked'[m] = s /\ PassOf(m)
      BY <2>1, <2>3 DEF TypeOK, PassInv
    <3>2. Entries(<<>>) = {} /\ Distinct(<<>>) /\ Len(<<>>) = 0
      BY DEF Entries, Distinct
    <3>3. StillOf(m)' /\ FreshOf(m)'
      BY <2>3, <3>1 DEF StillOf, FreshOf, PassOf
    <3>4. SinglyOf(m)'
      BY <2>2, <2>3, <3>1, <3>2 DEF SinglyOf
    <3>5. WithinOf(m)'
      BY <2>2, <2>3, <3>1, <3>2 DEF WithinOf, Flag
    <3> QED
      BY <3>3, <3>4, <3>5 DEF PassOf
  <2> QED
    BY <2>4, <2>5 DEF PassInv
<1>5. ASSUME NEW m \in Mover, Claim(m) PROVE PassInv'
  <2> DEFINE r == Head(picked[m])
  <2>1. picked[m] \in Seq(Row) /\ picked[m] # <<>> /\ batch[m] \in Seq(Row) /\ pc[m] = "claim" /\ PassOf(m)
    BY <1>5 DEF Claim, TypeOK, PassInv
  <2>2. /\ r \in Row /\ r \in Entries(picked[m]) /\ Entries(Tail(picked[m])) = Entries(picked[m]) \ {r}
        /\ Distinct(Tail(picked[m])) /\ Len(Tail(picked[m])) = Len(picked[m]) - 1 /\ Len(picked[m]) \in Nat \ {0}
        /\ Len(picked[m]) = 1 => Tail(picked[m]) = <<>>
    <3>1. Distinct(picked[m])
      BY <2>1 DEF PassOf, SinglyOf
    <3>2. Tail(picked[m]) \in Seq(Row) /\ r \in Row
      BY <2>1, PopType
    <3>3. /\ r \in Entries(picked[m]) /\ Entries(Tail(picked[m])) = Entries(picked[m]) \ {r}
          /\ Distinct(Tail(picked[m])) /\ Len(Tail(picked[m])) = Len(picked[m]) - 1
          /\ Len(picked[m]) \in Nat \ {0}
      BY <2>1, <3>1, PopEntries
    <3>4. Len(picked[m]) = 1 => Len(Tail(picked[m])) = 0
      BY <3>3
    <3> QED
      BY <3>2, <3>3, <3>4, EmptySeq
  <2>3. /\ picked' = [picked EXCEPT ![m] = Tail(picked[m])] /\ dep' = dep /\ calling' = calling
        /\ batch' = batch \/ batch' = [batch EXCEPT ![m] = Append(batch[m], r)]
    BY <1>5 DEF Claim
  <2>4. IF Len(picked[m]) = 1
        THEN pc' = [pc EXCEPT ![m] = Onward(batch'[m])] /\ since' = [since EXCEPT ![m] = 0]
        ELSE pc' = pc /\ since' = since
    BY <1>5 DEF Claim
  <2> HIDE DEF r
  <2>5. /\ Distinct(batch'[m]) /\ Entries(batch'[m]) \subseteq Entries(batch[m]) \cup {r}
        /\ Len(batch'[m]) <= Len(batch[m]) + 1 /\ Len(batch[m]) \in Nat /\ Len(batch'[m]) \in Nat
    <3>0. r \notin Entries(batch[m]) /\ Distinct(batch[m]) /\ Len(batch[m]) \in Nat
      BY <2>1, <2>2 DEF PassOf, SinglyOf
    <3>1. CASE batch' = batch
      BY <3>0, <3>1
    <3>2. CASE batch' = [batch EXCEPT ![m] = Append(batch[m], r)]
      <4>1. batch'[m] = Append(batch[m], r)
        BY <3>2 DEF TypeOK
      <4>2. Entries(Append(batch[m], r)) = Entries(batch[m]) \cup {r} /\ Len(Append(batch[m], r)) = Len(batch[m]) + 1
            /\ Distinct(Append(batch[m], r))
        BY <2>1, <2>2, <3>0, PushEntries
      <4> QED
        BY <3>0, <4>1, <4>2
    <3> QED
      BY <2>3, <3>1, <3>2
  <2>6. ASSUME NEW n \in Mover, n # m PROVE PassOf(n)'
    <3>1. /\ pc'[n] = pc[n] /\ picked'[n] = picked[n] /\ batch'[n] = batch[n] /\ since'[n] = since[n]
          /\ PassOf(n) /\ StillOf(n)
      BY <2>3, <2>4, <2>6 DEF TypeOK, PassInv, PassOf
    <3> QED
      BY <2>3, <3>1, SamePass DEF StillOf
  <2>7. PassOf(m)'
    <3>1. picked'[m] = Tail(picked[m])
      BY <2>3 DEF TypeOK
    <3>2. SinglyOf(m)'
      BY <2>1, <2>2, <2>5, <3>1 DEF SinglyOf, PassOf
    <3>3. Flag(m).limit \in Nat
      BY FlagType
    <3>4. WithinOf(m)'
      <4>1. Flag(m)' = Flag(m)
        BY <2>3 DEF Flag
      <4>2. Len(picked[m]) + Len(batch[m]) <= Flag(m).limit
        BY <2>1 DEF PassOf, WithinOf
      <4> DEFINE a == Len(picked[m])
                 b == Len(batch[m])
                 c == Len(batch'[m])
                 k == Flag(m).limit
      <4>3. a \in Nat /\ b \in Nat /\ c \in Nat /\ k \in Nat /\ a + b <= k /\ c <= b + 1
        BY <2>2, <2>5, <3>3, <4>2
      <4> HIDE DEF a, b, c, k
      <4>4. (a - 1) + c <= k
        BY <4>3
      <4>5. Len(picked'[m]) = a - 1 /\ Len(batch'[m]) = c /\ Flag(m)'.limit = k
        BY <2>2, <3>1, <4>1 DEF a, c, k
      <4> QED
        BY <4>4, <4>5 DEF WithinOf
    <3>5. FreshOf(m)'
      BY <2>1, <2>3, <2>4 DEF FreshOf, PassOf, TypeOK
    <3>6. StillOf(m)'
      BY <2>1, <2>2, <2>3, <2>4, <3>1 DEF StillOf, PassOf, Onward, TypeOK
    <3> QED
      BY <3>2, <3>4, <3>5, <3>6 DEF PassOf
  <2> QED
    BY <2>6, <2>7 DEF PassInv
<1>6. ASSUME NEW m \in Mover, DropLate(m) \/ GiveUp(m) PROVE PassInv'
  <2>1. pc[m] \in {"next", "giveup"} /\ dep' = dep /\ (At(m, "record") \/ Advance(m))
    BY <1>6 DEF DropLate, GiveUp, DeleteHeld
  <2>2. CASE At(m, "record")
    <3>1. picked[m] = <<>> /\ calling[m] = 0
      BY <2>1 DEF PassInv, PassOf, StillOf
    <3> QED
      BY <1>2, <2>1, <2>2, <3>1 DEF At
  <2>3. CASE Advance(m)
    BY <2>1, <2>3, AdvancePass DEF Busy
  <2> QED
    BY <2>1, <2>2, <2>3
<1>7. ASSUME NEW m \in Mover, Publish(m) \/ Restart(m) PROVE PassInv'
  <2>1. /\ dep' = dep /\ pc[m] \in {"next", "down"}
        /\ At(m, "call") \/ (At(m, "idle") /\ pc[m] = "down")
    BY <1>7 DEF Publish, Restart
  <2>2. picked[m] = <<>> /\ calling[m] = 0 /\ (pc[m] = "down" => batch[m] = <<>>)
    BY <2>1 DEF PassInv, PassOf, StillOf
  <2> QED
    BY <1>2, <2>1, <2>2 DEF At
<1>8. ASSUME NEW m \in Mover, Lands(m) PROVE PassInv'
  BY <1>1, <1>8 DEF Lands
<1>9. ASSUME NEW m \in Mover, Returns(m) \/ Raises(m) PROVE PassInv'
  <2>1. pc[m] = "call" /\ (Ends(m, "delete") \/ Ends(m, "count"))
    BY <1>9 DEF Returns, Raises
  <2>2. picked[m] = <<>> /\ calling'[m] = 0
    BY <2>1 DEF PassInv, PassOf, StillOf, Ends, TypeOK
  <2> QED
    BY <1>2, <2>1, <2>2 DEF Ends
<1>10. ASSUME NEW m \in Mover, Delete(m) \/ Record(m) PROVE PassInv'
  BY <1>10, AdvancePass DEF Delete, Record, Busy
<1>11. ASSUME NEW m \in Mover, CountFailure(m) PROVE PassInv'
  <2>1. pc[m] = "count" /\ dep' = dep /\ (At(m, "giveup") \/ Advance(m))
    BY <1>11 DEF CountFailure
  <2>2. picked[m] = <<>> /\ calling[m] = 0
    BY <2>1 DEF PassInv, PassOf, StillOf
  <2>3. CASE At(m, "giveup")
    BY <1>2, <2>1, <2>2, <2>3 DEF At
  <2>4. CASE Advance(m)
    BY <2>1, <2>4, AdvancePass DEF Busy
  <2> QED
    BY <2>1, <2>3, <2>4
<1>12. ASSUME NEW m \in Mover, Crash(m) PROVE PassInv'
  <2>1. ASSUME NEW n \in Mover, n # m PROVE PassOf(n)'
    <3>1. /\ pc'[n] = pc[n] /\ picked'[n] = picked[n] /\ batch'[n] = batch[n] /\ since'[n] = since[n]
          /\ calling'[n] = calling[n] /\ dep' = dep /\ PassOf(n) /\ StillOf(n)
      BY <1>12, <2>1 DEF Crash, TypeOK, PassInv, PassOf
    <3> QED
      BY <3>1, SamePass DEF StillOf
  <2>2. PassOf(m)'
    <3>1. picked'[m] = <<>> /\ batch'[m] = <<>> /\ since'[m] = 0 /\ calling'[m] = 0 /\ pc'[m] = "down" /\ dep' = dep
      BY <1>12 DEF Crash, TypeOK
    <3>2. Flag(m).limit \in Nat
      BY FlagType
    <3>3. Entries(<<>>) = {} /\ Distinct(<<>>) /\ Len(<<>>) = 0
      BY DEF Entries, Distinct
    <3> QED
      BY <3>1, <3>2, <3>3 DEF PassOf, StillOf, SinglyOf, WithinOf, FreshOf, Flag
  <2> QED
    BY <2>1, <2>2 DEF PassInv
<1>13. ASSUME Tick PROVE PassInv'
  <2>1. UNCHANGED <<dep, pc, picked, batch>>
    BY <1>13 DEF Tick
  <2>2. ASSUME NEW n \in Mover PROVE PassOf(n)'
    <3>1. PassOf(n) /\ StillOf(n)
      BY DEF PassInv, PassOf
    <3>2. pc[n] # "call" => calling'[n] = calling[n]
      BY <1>13 DEF Tick
    <3>3. CASE since'[n] = since[n]
      BY <2>1, <3>1, <3>2, <3>3, SamePass DEF StillOf
    <3>4. CASE since'[n] # since[n]
      <4>1. pc[n] = "claim" /\ n \in dep.slow
        BY <1>13, <3>4 DEF Tick
      <4> QED
        BY <2>1, <3>1, <3>2, <4>1 DEF PassOf, StillOf, SinglyOf, WithinOf, FreshOf, Flag
    <3> QED
      BY <3>3, <3>4
  <2> QED
    BY <2>2 DEF PassInv
<1>14. ASSUME UNCHANGED vars PROVE PassInv'
  BY <1>1, <1>14 DEF vars
<1> QED
  BY <1>3, <1>4, <1>5, <1>6, <1>7, <1>8, <1>9, <1>10, <1>11, <1>12, <1>13, <1>14 DEF Next, Works


(* A claim is taken from whoever carried it. *)
LEMMA StampNext == TypeOK /\ OneStamp /\ [Next]_vars => OneStamp'
<1> SUFFICES ASSUME TypeOK, OneStamp, [Next]_vars PROVE OneStamp'
  OBVIOUS
<1> USE DEF table, movers, history
<1>1. ASSUME \A n \in Mover : stamped'[n] \subseteq stamped[n] PROVE OneStamp'
  BY <1>1 DEF OneStamp
<1>2. ASSUME NEW m \in Mover, At(m, "record") \/ At(m, "call") \/ At(m, "giveup") \/ At(m, "idle") \/ Advance(m)
      PROVE  \A n \in Mover : stamped'[n] \subseteq stamped[n]
  <2>1. stamped' = stamped \/ stamped' = [stamped EXCEPT ![m] = @ \ {Current(m)}]
    BY <1>2 DEF At, Advance
  <2>2. stamped \in [Mover -> SUBSET Row]
    BY DEF TypeOK
  <2> QED
    BY <2>1, <2>2
<1>3. ASSUME NEW m \in Mover, Claim(m) PROVE OneStamp'
  <2> DEFINE r == Head(picked[m])
  <2>1. \/ stamped' = stamped
        \/ stamped' = [n \in Mover |-> IF n = m THEN stamped[n] \cup {r} ELSE stamped[n] \ {r}]
    BY <1>3 DEF Claim
  <2> HIDE DEF r
  <2> QED
    BY <2>1 DEF OneStamp
<1>4. ASSUME NEW m \in Mover, DropLate(m) \/ GiveUp(m) \/ Publish(m) \/ Restart(m) \/ CountFailure(m)
                              \/ Delete(m) \/ Record(m)
      PROVE  OneStamp'
  <2>1. At(m, "record") \/ At(m, "call") \/ At(m, "giveup") \/ At(m, "idle") \/ Advance(m)
    BY <1>4 DEF DropLate, GiveUp, DeleteHeld, Publish, Restart, CountFailure, Delete, Record
  <2> QED
    BY <1>1, <1>2, <2>1
<1>5. ASSUME NEW m \in Mover, Crash(m) PROVE OneStamp'
  BY <1>1, <1>5 DEF Crash, TypeOK
<1>6. ASSUME UNCHANGED stamped PROVE OneStamp'
  BY <1>1, <1>6
<1>7. ASSUME NEW r \in Row, Schedule(r) \/ Cancel(r) PROVE OneStamp'
  BY <1>6, <1>7 DEF Schedule, Cancel
<1>8. ASSUME NEW m \in Mover, Select(m) \/ Lands(m) \/ Returns(m) \/ Raises(m) PROVE OneStamp'
  BY <1>6, <1>8 DEF Select, Lands, Returns, Raises, Ends
<1>9. ASSUME Tick \/ UNCHANGED vars PROVE OneStamp'
  BY <1>6, <1>9 DEF Tick, vars
<1> QED
  BY <1>3, <1>4, <1>5, <1>7, <1>8, <1>9 DEF Next, Works

(* What a mover has to do takes no less than no time. *)
LEMMA NeedType ==
    ASSUME TypeOK, PassInv, NEW m \in Mover
    PROVE  /\ ToDo(m) \in Nat /\ Need(m) \in Nat /\ ToDo(m) * Ceiling \in Nat
           /\ calling[m] \in 0..Ceiling /\ Need(m) = ToDo(m) * Ceiling - calling[m]
<1>1. picked[m] \in Seq(Row) /\ batch[m] \in Seq(Row) /\ calling[m] \in 0..Ceiling
  BY DEF TypeOK
<1>2. pc[m] \in Busy => batch[m] # <<>>
  BY DEF TypeOK
<1>3. Len(picked[m]) \in Nat /\ Len(batch[m]) \in Nat /\ (batch[m] # <<>> => Len(batch[m]) # 0)
  BY <1>1, EmptySeq
<1>4. ToDo(m) \in Nat /\ (pc[m] = "call" => ToDo(m) >= 1)
  <2> DEFINE p == Len(picked[m])
             b == Len(batch[m])
  <2>1. p \in Nat /\ b \in Nat /\ (pc[m] \in Busy => b # 0)
    BY <1>2, <1>3
  <2>2. ToDo(m) = p + b - IF Spent(m) THEN 1 ELSE 0
    BY DEF ToDo
  <2> HIDE DEF p, b
  <2>3. CASE Spent(m)
    BY <2>1, <2>2, <2>3 DEF Spent, Busy
  <2>4. CASE ~Spent(m)
    BY <2>1, <2>2, <2>4 DEF Busy
  <2> QED
    BY <2>3, <2>4
<1>5. pc[m] # "call" => calling[m] = 0
  BY DEF PassInv, PassOf, StillOf
<1>6. ToDo(m) * Ceiling \in Nat /\ (ToDo(m) >= 1 => 1 * Ceiling <= ToDo(m) * Ceiling)
  <2>1. Ceiling \in Nat /\ 1 \in Nat
    OBVIOUS
  <2>2. \A a \in Nat : a * Ceiling \in Nat /\ (1 <= a => 1 * Ceiling <= a * Ceiling)
    BY <2>1, Times
  <2> QED
    BY <1>4, <2>2
<1> DEFINE a == ToDo(m) * Ceiling
           c == calling[m]
<1>7. a \in Nat /\ c \in 0..Ceiling /\ (pc[m] = "call" => Ceiling <= a) /\ (pc[m] # "call" => c = 0)
      /\ Need(m) = a - c
  BY <1>1, <1>4, <1>5, <1>6 DEF Need
<1> HIDE DEF a, c
<1>8. a - c \in Nat
  BY <1>7
<1> QED
  BY <1>4, <1>6, <1>7, <1>8 DEF a, c

(* A row that a mover with room holds is not free, now or a while ago. *)
LEMMA HeldIsNotFree ==
    ASSUME TypeOK, PassInv, NEW m \in Mover, NEW r \in Row, Held(m, r), NEW ago \in Nat
    PROVE  ~Unheld(r, ago)
<1>1. claimedBy[r] # NoMover
  BY DEF Held
<1>2. left[r] \in Int \cup {Never} /\ Need(m) \in Nat
  BY NeedType DEF TypeOK
<1>3. left[r] = Never \/ left[r] > Need(m)
  BY DEF Held
<1>4. left[r] # Never => left[r] + ago > 0
  BY <1>2, <1>3
<1>5. left[r] # Never => ~(left[r] + ago <= 0)
  BY <1>2, <1>4
<1> QED
  BY <1>1, <1>5 DEF Unheld

(* A mover whose pass stands where it was keeps its rows, if they are its *)
(* own after the step or were taken by a mover that had published them.   *)
LEMMA OthersCover ==
    ASSUME TypeOK, PassInv, NEW n \in Mover, CoverOf(n), dep' = dep,
           pc'[n] = pc[n], picked'[n] = picked[n], batch'[n] = batch[n], calling'[n] = calling[n],
           sent \subseteq sent',
           \A r \in Row : row[r] = "gone" => row'[r] = "gone",
           \A r \in Row : Held(n, r) =>
               \/ row'[r] = "here" /\ claimedBy'[r] = n /\ r \in stamped'[n] /\ left'[r] = left[r]
               \/ row'[r] = "gone" /\ r \in sent'
    PROVE  CoverOf(n)'
<1>1. Need(n)' = Need(n) /\ Current(n)' = Current(n)
  BY DEF Need, ToDo, Spent, Current
<1>2. RoomForBatch(n)' = RoomForBatch(n)
  BY DEF RoomForBatch, Flag
<1>3. Entries(batch[n]) \subseteq Row
  <2>1. batch[n] \in Seq(Row)
    BY DEF TypeOK
  <2> QED
    BY <2>1 DEF Entries
<1>6. Entries(batch'[n]) = Entries(batch[n])
  OBVIOUS
<1> SUFFICES ASSUME RoomForBatch(n), NEW r \in Entries(batch[n])
             PROVE  \/ pc'[n] = "record" /\ r = Current(n)'
                    \/ Held(n, r)'
                    \/ row'[r] = "gone" /\ r \in sent'
  BY <1>2, <1>6 DEF CoverOf
<1>4. \/ pc[n] = "record" /\ r = Current(n)
      \/ Held(n, r)
      \/ row[r] = "gone" /\ r \in sent
  BY DEF CoverOf
<1>5. ASSUME Held(n, r) PROVE Held(n, r)' \/ (row'[r] = "gone" /\ r \in sent')
  BY <1>1, <1>3, <1>5 DEF Held
<1> QED
  BY <1>1, <1>3, <1>4, <1>5


(* A row less to do, or none more where no call has begun, takes no longer. *)
LEMMA LessNeed ==
    ASSUME TypeOK, PassInv, NEW m \in Mover, ToDo(m)' \in Nat, calling'[m] = 0,
           (ToDo(m)' <= ToDo(m) /\ calling[m] = 0) \/ ToDo(m)' + 1 <= ToDo(m)
    PROVE  Need(m)' \in Nat /\ Need(m)' <= Need(m)
<1> DEFINE a == ToDo(m)'
           b == ToDo(m)
           c == calling[m]
<1>1. a \in Nat /\ b \in Nat /\ c \in 0..Ceiling /\ Ceiling \in Nat /\ a * Ceiling \in Nat /\ b * Ceiling \in Nat
      /\ Need(m) = b * Ceiling - c /\ Need(m)' = a * Ceiling - 0
  <2>1. b \in Nat /\ b * Ceiling \in Nat /\ c \in 0..Ceiling /\ Need(m) = b * Ceiling - c
    BY NeedType
  <2>2. a * Ceiling \in Nat
    <3>1. \A k \in Nat : k * Ceiling \in Nat
      BY Times
    <3> QED
      BY <3>1
  <2>3. Need(m)' = a * Ceiling - 0
    BY DEF Need
  <2> QED
    BY <2>1, <2>2, <2>3
<1>2. (a <= b /\ c = 0) \/ a + 1 <= b
  OBVIOUS
<1> HIDE DEF a, b, c
<1>3. CASE a <= b /\ c = 0
  <2>1. a * Ceiling <= b * Ceiling
    BY <1>1, <1>3, Times
  <2> DEFINE x == a * Ceiling
             y == b * Ceiling
  <2>2. x \in Nat /\ y \in Nat /\ x <= y /\ Need(m) = y - c /\ Need(m)' = x - 0
    BY <1>1, <2>1
  <2> HIDE DEF x, y
  <2> QED
    BY <1>3, <2>2
<1>4. CASE a + 1 <= b
  <2>1. (a + 1) * Ceiling <= b * Ceiling /\ (a + 1) * Ceiling = a * Ceiling + Ceiling
    <3>1. a + 1 \in Nat
      BY <1>1
    <3>2. (a + 1) * Ceiling <= b * Ceiling
      BY <1>1, <1>4, <3>1, Times
    <3>3. a <= a /\ (a + 1) * Ceiling = a * Ceiling + Ceiling
      BY <1>1, Times
    <3> QED
      BY <3>2, <3>3
  <2> DEFINE x == a * Ceiling
             y == b * Ceiling
             z == (a + 1) * Ceiling
  <2>2. x \in Nat /\ y \in Nat /\ z = x + Ceiling /\ z <= y /\ Need(m) = y - c /\ Need(m)' = x - 0
    BY <1>1, <2>1
  <2> HIDE DEF x, y, z
  <2> QED
    BY <1>1, <2>2
<1> QED
  BY <1>2, <1>3, <1>4

(* A mover keeps the rows of its batch that the step leaves to it. *)
LEMMA OwnCover ==
    ASSUME TypeOK, PassInv, NEW m \in Mover, CoverOf(m), dep' = dep, sent \subseteq sent',
           Need(m)' \in Nat, Need(m)' <= Need(m), Entries(batch'[m]) \subseteq Entries(batch[m]),
           pc[m] = "record" => Current(m) \notin Entries(batch'[m]),
           \A r \in Entries(batch'[m]) :
               \/ pc'[m] = "record" /\ r = Current(m)'
               \/ /\ row'[r] = row[r] /\ claimedBy'[r] = claimedBy[r] /\ left'[r] = left[r]
                  /\ r \in stamped[m] => r \in stamped'[m]
    PROVE  CoverOf(m)'
<1>1. RoomForBatch(m)' = RoomForBatch(m)
  BY DEF RoomForBatch, Flag
<1>2. Entries(batch[m]) \subseteq Row
  <2>1. batch[m] \in Seq(Row)
    BY DEF TypeOK
  <2> QED
    BY <2>1 DEF Entries
<1>3. Entries(batch[m])' = Entries(batch'[m])
  BY DEF Entries
<1> SUFFICES ASSUME RoomForBatch(m), NEW r \in Entries(batch'[m]), ~(pc'[m] = "record" /\ r = Current(m)')
             PROVE  Held(m, r)' \/ (row'[r] = "gone" /\ r \in sent')
  BY <1>1, <1>3 DEF CoverOf
<1>4. Held(m, r) \/ (row[r] = "gone" /\ r \in sent)
  BY DEF CoverOf
<1>5. /\ row'[r] = row[r] /\ claimedBy'[r] = claimedBy[r] /\ left'[r] = left[r]
      /\ r \in stamped[m] => r \in stamped'[m]
  OBVIOUS
<1>6. ASSUME Held(m, r) PROVE Held(m, r)'
  <2>1. left[r] \in Int \cup {Never} /\ Need(m) \in Nat
    BY <1>2, NeedType DEF TypeOK
  <2>2. left[r] = Never \/ left[r] > Need(m)
    BY <1>6 DEF Held
  <2>3. left'[r] = Never \/ left'[r] > Need(m)'
    BY <1>5, <2>1, <2>2
  <2> QED
    BY <1>5, <1>6, <2>3 DEF Held
<1> QED
  BY <1>4, <1>5, <1>6

(* Being done with a row keeps the others. *)
LEMMA AdvanceCover ==
    ASSUME TypeOK, PassInv, NEW m \in Mover, CoverOf(m), pc[m] \in Busy \ {"call"}, Advance(m),
           dep' = dep, sent \subseteq sent',
           \A r \in Row : r # Current(m) =>
               row'[r] = row[r] /\ claimedBy'[r] = claimedBy[r] /\ left'[r] = left[r]
    PROVE  CoverOf(m)'
<1>1. batch[m] \in Seq(Row) /\ batch[m] # <<>> /\ Distinct(batch[m]) /\ picked[m] \in Seq(Row) /\ calling[m] = 0
  BY DEF TypeOK, PassInv, PassOf, StillOf, SinglyOf, Busy
<1>2. /\ batch'[m] = Tail(batch[m]) /\ pc'[m] = Onward(Tail(batch[m])) /\ stamped'[m] = stamped[m] \ {Current(m)}
      /\ picked' = picked /\ calling' = calling
  BY DEF Advance, TypeOK
<1>3. /\ Entries(batch'[m]) = Entries(batch[m]) \ {Current(m)}
      /\ Len(batch'[m]) = Len(batch[m]) - 1 /\ Len(batch[m]) \in Nat \ {0}
  BY <1>1, <1>2, PopEntries DEF Current
<1>4. Entries(batch[m]) \subseteq Row
  BY <1>1 DEF Entries
<1>5. ToDo(m)' \in Nat /\ ToDo(m)' <= ToDo(m)
  <2> DEFINE p == Len(picked[m])
             b == Len(batch[m])
  <2>1. p \in Nat /\ b \in Nat \ {0}
    BY <1>1, <1>3
  <2>2. ToDo(m) = p + b - IF Spent(m) THEN 1 ELSE 0
    BY DEF ToDo
  <2>3. ~Spent(m)'
    BY <1>2 DEF Spent, Onward
  <2>4. ToDo(m)' = p + (b - 1) - 0
    BY <1>2, <1>3, <2>3 DEF ToDo
  <2> HIDE DEF p, b
  <2> QED
    BY <2>1, <2>2, <2>4
<1>6. Need(m)' \in Nat /\ Need(m)' <= Need(m)
  BY <1>1, <1>2, <1>5, LessNeed
<1> QED
  BY <1>2, <1>3, <1>4, <1>6, OwnCover

(* A mover that only goes on in its pass keeps its batch. *)
LEMMA GoesOnCover ==
    ASSUME TypeOK, PassInv, NEW m \in Mover, CoverOf(m), pc[m] \in Busy \ {"record"},
           batch'[m] = batch[m], picked'[m] = picked[m],
           calling'[m] = 0, dep' = dep, sent \subseteq sent', pc'[m] # "record" => UNCHANGED <<row, claimedBy, left>>,
           Spent(m) => Spent(m)', pc[m] = "call" => Spent(m)',
           UNCHANGED stamped,
           \A r \in Row : r # Current(m) =>
               row'[r] = row[r] /\ claimedBy'[r] = claimedBy[r] /\ left'[r] = left[r]
    PROVE  CoverOf(m)'
<1>1. batch[m] \in Seq(Row) /\ batch[m] # <<>> /\ picked[m] \in Seq(Row) /\ (pc[m] # "call" => calling[m] = 0)
  BY DEF TypeOK, PassInv, PassOf, StillOf
<1>2. ToDo(m)' \in Nat /\ ((ToDo(m)' <= ToDo(m) /\ calling[m] = 0) \/ ToDo(m)' + 1 <= ToDo(m))
  <2> DEFINE p == Len(picked[m])
             b == Len(batch[m])
  <2>1. p \in Nat /\ b \in Nat \ {0}
    BY <1>1, EmptySeq
  <2>2. ToDo(m) = p + b - (IF Spent(m) THEN 1 ELSE 0) /\ ToDo(m)' = p + b - (IF Spent(m)' THEN 1 ELSE 0)
    BY DEF ToDo
  <2> HIDE DEF p, b
  <2>3. CASE pc[m] = "call"
    <3>1. ~Spent(m) /\ Spent(m)'
      BY <2>3 DEF Spent
    <3> QED
      BY <2>1, <2>2, <3>1
  <2>4. CASE pc[m] # "call"
    BY <1>1, <2>1, <2>2, <2>4
  <2> QED
    BY <2>3, <2>4
<1>3. Need(m)' \in Nat /\ Need(m)' <= Need(m)
  BY <1>2, LessNeed
<1>4. Entries(batch[m]) \subseteq Row /\ Current(m)' = Current(m)
  BY <1>1 DEF Entries, Current
<1> QED
  BY <1>3, <1>4, OwnCover


LEMMA CoverInit == Init => CoverInv
<1> SUFFICES ASSUME Init, NEW m \in Mover PROVE CoverOf(m)
  BY DEF CoverInv
<1>1. Entries(batch[m]) = {}
  BY DEF Init, Entries
<1> QED
  BY <1>1 DEF CoverOf

(* A row that a mover deletes by the claim it carries is no other's. *)
LEMMA DeleteHeldCover ==
    ASSUME TypeOK, PassInv, OneStamp, CoverInv, NEW m \in Mover, pc[m] \in {"next", "giveup"},
           DeleteHeld(m), dep' = dep, sent' = sent
    PROVE  CoverInv'
<1>1. Current(m) \in Row /\ pc[m] \in Busy \ {"call", "record"} /\ calling[m] = 0
  BY CurrentType DEF Busy, PassInv, PassOf, StillOf
<1>2. CASE StillHeld(m)
  <2>1. Remove(Current(m)) /\ At(m, "record")
    BY <1>2 DEF DeleteHeld
  <2>2. \A r \in Row : r # Current(m) =>
            row'[r] = row[r] /\ claimedBy'[r] = claimedBy[r] /\ left'[r] = left[r]
    BY <2>1 DEF Remove, TypeOK
  <2>3. row'[Current(m)] = "gone" /\ row[Current(m)] = "here" /\ Current(m) \in stamped[m]
    BY <1>1, <1>2, <2>1 DEF Remove, StillHeld, TypeOK
  <2>4. /\ pc'[m] = "record" /\ \A n \in Mover \ {m} : pc'[n] = pc[n]
        /\ UNCHANGED <<picked, batch, stamped, calling>>
    BY <2>1 DEF At, TypeOK
  <2>5. CoverOf(m)'
    <3>1. Spent(m)'
      BY <2>4 DEF Spent
    <3> QED
      BY <1>1, <2>2, <2>4, <3>1, GoesOnCover DEF CoverInv
  <2>6. ASSUME NEW n \in Mover, n # m PROVE CoverOf(n)'
    <3>1. ~Held(n, Current(m))
      BY <1>1, <2>3, <2>6 DEF Held, OneStamp
    <3>2. \A r \in Row : Held(n, r) => row'[r] = "here" /\ claimedBy'[r] = n /\ r \in stamped'[n] /\ left'[r] = left[r]
      BY <2>2, <2>4, <3>1 DEF Held
    <3>3. \A r \in Row : row[r] = "gone" => row'[r] = "gone"
      BY <2>2, <2>3
    <3> QED
      BY <2>4, <2>6, <3>2, <3>3, OthersCover DEF CoverInv
  <2> QED
    BY <2>5, <2>6 DEF CoverInv
<1>3. CASE ~StillHeld(m)
  <2>1. Advance(m) /\ UNCHANGED table
    BY <1>3 DEF DeleteHeld
  <2>2. UNCHANGED <<row, claimedBy, left>>
    BY <2>1 DEF table
  <2>3. CoverOf(m)'
    BY <1>1, <2>1, <2>2, AdvanceCover DEF CoverInv
  <2>4. ASSUME NEW n \in Mover, n # m PROVE CoverOf(n)'
    <3>1. /\ pc'[n] = pc[n] /\ batch'[n] = batch[n] /\ stamped'[n] = stamped[n]
          /\ picked' = picked /\ calling' = calling
      BY <2>1, <2>4 DEF Advance, TypeOK
    <3>2. CoverOf(n) /\ \A r \in Row : Held(n, r) => row[r] = "here" /\ claimedBy[r] = n /\ r \in stamped[n]
      BY DEF Held, CoverInv
    <3> QED
      BY <2>2, <3>1, <3>2, OthersCover
  <2> QED
    BY <2>3, <2>4 DEF CoverInv
<1> QED
  BY <1>2, <1>3

(* A mover that wins a row holds it for its whole pass; and no mover wins  *)
(* the row that another holds.                                              *)
LEMMA ClaimCover ==
    ASSUME TypeOK, PassInv, CoverInv, NEW m \in Mover, Claim(m)
    PROVE  CoverInv'
<1> DEFINE r == Head(picked[m])
<1>1. /\ picked[m] \in Seq(Row) /\ picked[m] # <<>> /\ batch[m] \in Seq(Row) /\ pc[m] = "claim"
      /\ r \in Row /\ Len(Tail(picked[m])) = Len(picked[m]) - 1 /\ Len(picked[m]) \in Nat \ {0}
      /\ Len(batch[m]) \in Nat /\ calling[m] = 0
  <2>1. picked[m] \in Seq(Row) /\ picked[m] # <<>> /\ batch[m] \in Seq(Row) /\ pc[m] = "claim" /\ Distinct(picked[m])
        /\ calling[m] = 0
    BY DEF Claim, TypeOK, PassInv, PassOf, SinglyOf, StillOf
  <2>2. Len(Tail(picked[m])) = Len(picked[m]) - 1 /\ Len(picked[m]) \in Nat \ {0}
    BY <2>1, PopEntries
  <2>3. r \in Row
    BY <2>1, PopType
  <2> QED
    BY <2>1, <2>2, <2>3
<1>2. /\ picked' = [picked EXCEPT ![m] = Tail(picked[m])] /\ dep' = dep /\ calling' = calling
      /\ row' = row /\ sent' = sent
      /\ pc' = [pc EXCEPT ![m] = Onward(batch'[m])] \/ pc' = pc
  BY DEF Claim, history
<1>3. picked'[m] = Tail(picked[m]) /\ \A n \in Mover \ {m} : picked'[n] = picked[n] /\ pc'[n] = pc[n]
  BY <1>2 DEF TypeOK
<1>4. ~Spent(m) /\ ~Spent(m)' /\ pc'[m] # "record"
  BY <1>1, <1>2 DEF Spent, Onward, TypeOK
<1>5. since[m] \in Nat
  BY DEF TypeOK
<1>6. Entries(batch[m]) \subseteq Row
  BY <1>1 DEF Entries
<1>7. CASE row[r] = "here" /\ Unheld(r, since[m])
  <2>1. /\ claimedBy' = [claimedBy EXCEPT ![r] = m]
        /\ left' = [left EXCEPT ![r] = IF Flag(m).lease = 0 THEN Never ELSE Flag(m).lease - since[m]]
        /\ batch' = [batch EXCEPT ![m] = Append(@, r)]
        /\ stamped' = [n \in Mover |-> IF n = m THEN stamped[n] \cup {r} ELSE stamped[n] \ {r}]
    BY <1>7 DEF Claim
  <2> HIDE DEF r
  <2>2. /\ \A q \in Row : q # r => claimedBy'[q] = claimedBy[q] /\ left'[q] = left[q]
        /\ claimedBy'[r] = m
        /\ left'[r] = IF Flag(m).lease = 0 THEN Never ELSE Flag(m).lease - since[m]
        /\ batch'[m] = Append(batch[m], r) /\ \A n \in Mover \ {m} : batch'[n] = batch[n]
        /\ stamped'[m] = stamped[m] \cup {r} /\ \A n \in Mover \ {m} : stamped'[n] = stamped[n] \ {r}
    BY <1>1, <2>1 DEF TypeOK
  <2>3. \A n \in Mover : ~Held(n, r)
    BY <1>1, <1>5, <1>7, HeldIsNotFree
  <2>4. ASSUME NEW n \in Mover, n # m PROVE CoverOf(n)'
    <3>1. \A q \in Row : Held(n, q) =>
              row'[q] = "here" /\ claimedBy'[q] = n /\ q \in stamped'[n] /\ left'[q] = left[q]
      BY <1>2, <2>2, <2>3, <2>4 DEF Held
    <3> QED
      BY <1>2, <1>3, <2>2, <2>4, <3>1, OthersCover DEF CoverInv
  <2>5. CoverOf(m)'
    <3>1. Entries(batch'[m]) = Entries(batch[m]) \cup {r} /\ Len(batch'[m]) = Len(batch[m]) + 1
      BY <1>1, <2>2, PushEntries
    <3>2. ToDo(m)' = ToDo(m)
      <4> DEFINE p == Len(picked[m])
                 b == Len(batch[m])
      <4>1. p \in Nat \ {0} /\ b \in Nat /\ ToDo(m) = p + b - 0 /\ ToDo(m)' = (p - 1) + (b + 1) - 0
        BY <1>1, <1>3, <1>4, <3>1 DEF ToDo
      <4> HIDE DEF p, b
      <4> QED
        BY <4>1
    <3>3. Need(m)' = Need(m) /\ Need(m) = ToDo(m) * Ceiling - calling[m] /\ Need(m) \in Nat
      BY <1>2, <3>2, NeedType DEF Need
    <3>4. RoomForBatch(m)' = RoomForBatch(m)
      BY <1>2 DEF RoomForBatch, Flag
    <3> SUFFICES ASSUME RoomForBatch(m), NEW q \in Entries(batch'[m])
                 PROVE  Held(m, q)' \/ (row'[q] = "gone" /\ q \in sent')
      BY <3>4 DEF CoverOf, Entries
    <3>5. CASE q = r
      <4>1. since[m] = 0 /\ (Flag(m).lease = 0 \/ Flag(m).lease > Flag(m).limit * Ceiling)
        BY DEF RoomForBatch, PassInv, PassOf, FreshOf
      <4>2. Need(m) <= Flag(m).limit * Ceiling
        <5>1. ToDo(m) <= Flag(m).limit /\ ToDo(m) \in Nat /\ Flag(m).limit \in Nat
          <6>1. Len(picked[m]) + Len(batch[m]) <= Flag(m).limit
            BY DEF PassInv, PassOf, WithinOf
          <6>2. ToDo(m) = Len(picked[m]) + Len(batch[m]) - 0
            BY <1>4 DEF ToDo
          <6>3. Flag(m).limit \in Nat
            BY FlagType
          <6> DEFINE p == Len(picked[m])
                     b == Len(batch[m])
          <6>4. p \in Nat /\ b \in Nat /\ ToDo(m) = p + b - 0 /\ p + b <= Flag(m).limit
            BY <1>1, <6>1, <6>2
          <6> HIDE DEF p, b
          <6>5. ToDo(m) = p + b /\ p + b \in Nat
            BY <6>4
          <6> QED
            BY <6>3, <6>4, <6>5
        <5>2. ToDo(m) * Ceiling <= Flag(m).limit * Ceiling /\ ToDo(m) * Ceiling \in Nat
          BY <5>1, Times
        <5> DEFINE x == ToDo(m) * Ceiling
        <5>3. x \in Nat /\ Need(m) = x - 0 /\ x <= Flag(m).limit * Ceiling
          BY <1>1, <3>3, <5>2
        <5> HIDE DEF x
        <5> QED
          BY <5>3
      <4>3. left'[r] = Never \/ left'[r] > Need(m)
        <5>1. Flag(m).lease \in Nat /\ Flag(m).limit * Ceiling \in Nat
          <6>1. Flag(m).limit \in Nat
            BY FlagType
          <6>2. Flag(m).limit <= Flag(m).limit
            BY <6>1
          <6>3. Flag(m).limit * Ceiling \in Nat
            BY <6>1, <6>2, Times
          <6> QED
            BY <6>3, FlagType
        <5> DEFINE x == Flag(m).limit * Ceiling
                   l == Flag(m).lease
        <5>2. x \in Nat /\ l \in Nat /\ Need(m) \in Nat /\ Need(m) <= x /\ (l = 0 \/ l > x)
              /\ left'[r] = IF l = 0 THEN Never ELSE l - 0
          BY <2>2, <3>3, <4>1, <4>2, <5>1
        <5> HIDE DEF x, l
        <5> QED
          BY <5>2
      <4> QED
        BY <1>2, <1>7, <2>2, <3>3, <3>5, <4>3 DEF Held
    <3>6. CASE q # r
      <4>1. q \in Entries(batch[m]) /\ q \in Row
        BY <1>6, <3>1, <3>6
      <4>2. Held(m, q) \/ (row[q] = "gone" /\ q \in sent)
        BY <1>1, <4>1 DEF CoverInv, CoverOf
      <4> QED
        BY <1>2, <2>2, <3>3, <3>6, <4>1, <4>2 DEF Held
    <3> QED
      BY <3>5, <3>6
  <2> QED
    BY <2>4, <2>5 DEF CoverInv
<1>8. CASE ~(row[r] = "here" /\ Unheld(r, since[m]))
  <2>1. UNCHANGED <<claimedBy, left, batch, stamped>>
    BY <1>8 DEF Claim
  <2>2. ASSUME NEW n \in Mover, n # m PROVE CoverOf(n)'
    <3>1. \A q \in Row : Held(n, q) =>
              row'[q] = "here" /\ claimedBy'[q] = n /\ q \in stamped'[n] /\ left'[q] = left[q]
      BY <1>2, <2>1 DEF Held
    <3> QED
      BY <1>2, <1>3, <2>1, <2>2, <3>1, OthersCover DEF CoverInv
  <2>3. CoverOf(m)'
    <3>1. ToDo(m)' \in Nat /\ ToDo(m)' <= ToDo(m)
      <4> DEFINE p == Len(picked[m])
                 b == Len(batch[m])
      <4>1. p \in Nat \ {0} /\ b \in Nat /\ ToDo(m) = p + b - 0 /\ ToDo(m)' = (p - 1) + b - 0
        BY <1>1, <1>3, <1>4, <2>1 DEF ToDo
      <4> HIDE DEF p, b
      <4> QED
        BY <4>1
    <3>2. Need(m)' \in Nat /\ Need(m)' <= Need(m)
      BY <1>1, <1>2, <3>1, LessNeed
    <3> QED
      BY <1>1, <1>2, <2>1, <3>2, OwnCover DEF CoverInv
  <2> QED
    BY <2>2, <2>3 DEF CoverInv
<1> QED
  BY <1>7, <1>8


(* A second takes no more of a claim than it takes of the call. *)
LEMMA TickCover ==
    ASSUME TypeOK, PassInv, CoverInv, Tick
    PROVE  CoverInv'
<1>1. UNCHANGED <<dep, row, claimedBy, pc, picked, batch, stamped, sent>>
  BY DEF Tick, history
<1> SUFFICES ASSUME NEW m \in Mover PROVE CoverOf(m)'
  BY DEF CoverInv
<1>2. RoomForBatch(m)' = RoomForBatch(m) /\ Entries(batch[m])' = Entries(batch[m]) /\ ToDo(m)' = ToDo(m)
  BY <1>1 DEF RoomForBatch, Flag, Entries, ToDo, Spent
<1> SUFFICES ASSUME RoomForBatch(m), NEW r \in Entries(batch[m])
             PROVE  Held(m, r)' \/ (row[r] = "gone" /\ r \in sent)
  BY <1>1, <1>2 DEF CoverOf
<1>3. batch[m] \in Seq(Row) /\ batch[m] # <<>> /\ r \in Row
  BY DEF TypeOK, Entries
<1>4. pc[m] = "call"
  BY <1>3 DEF Tick, RoomForBatch, PassInv, PassOf, StillOf
<1>5. calling'[m] = calling[m] + 1
  BY <1>4 DEF Tick
<1>6. Held(m, r) \/ (row[r] = "gone" /\ r \in sent)
  BY <1>4 DEF CoverInv, CoverOf
<1>7. ASSUME Held(m, r) PROVE Held(m, r)'
  <2> DEFINE x == ToDo(m) * Ceiling
             c == calling[m]
  <2>1. x \in Nat /\ c \in Nat /\ Need(m) = x - c
    BY NeedType
  <2>2. Need(m)' = x - (c + 1)
    BY <1>2, <1>5 DEF Need
  <2>3. left[r] \in Int \cup {Never} /\ (left[r] = Never \/ left[r] > Need(m))
    BY <1>3, <1>7 DEF TypeOK, Held
  <2>4. left'[r] = left[r] \/ (left[r] # Never /\ left'[r] = left[r] - 1)
    BY <1>3 DEF Tick, Shorter
  <2> HIDE DEF x, c
  <2>5. left'[r] = Never \/ left'[r] > Need(m)'
    BY <2>1, <2>2, <2>3, <2>4
  <2> QED
    BY <1>1, <1>7, <2>5 DEF Held
<1> QED
  BY <1>6, <1>7

(* No step takes a row from a mover whose claim has room. *)
LEMMA CoverNext ==
    TypeOK /\ PassInv /\ OneStamp /\ EndsInv /\ CoverInv /\ [Next]_vars => CoverInv'
<1> SUFFICES ASSUME TypeOK, PassInv, OneStamp, EndsInv, CoverInv, [Next]_vars PROVE CoverInv'
  OBVIOUS
<1> USE DEF table, movers, history
<1>1. ASSUME NEW m \in Mover, NEW n \in Mover, n # m, dep' = dep, sent \subseteq sent',
             UNCHANGED <<row, claimedBy, left>>,
             \/ Advance(m)
             \/ /\ \A k \in Mover \ {m} : /\ pc'[k] = pc[k] /\ picked'[k] = picked[k] /\ batch'[k] = batch[k]
                                          /\ calling'[k] = calling[k] /\ stamped'[k] = stamped[k]
      PROVE  CoverOf(n)'
  <2>1. /\ pc'[n] = pc[n] /\ picked'[n] = picked[n] /\ batch'[n] = batch[n]
        /\ calling'[n] = calling[n] /\ stamped'[n] = stamped[n]
    BY <1>1 DEF Advance, TypeOK
  <2>2. CoverOf(n) /\ \A r \in Row : Held(n, r) => row[r] = "here" /\ claimedBy[r] = n /\ r \in stamped[n]
    BY DEF Held, CoverInv
  <2> QED
    BY <1>1, <2>1, <2>2, OthersCover
<1>2. ASSUME NEW r \in Row, Schedule(r) \/ Cancel(r) PROVE CoverInv'
  <2>1. UNCHANGED <<dep, pc, picked, batch, stamped, calling, sent>>
    BY <1>2 DEF Schedule, Cancel
  <2>2. /\ \A q \in Row : q # r => row'[q] = row[q] /\ claimedBy'[q] = claimedBy[q] /\ left'[q] = left[q]
        /\ row[r] # "gone"
    BY <1>2 DEF Schedule, Cancel, Remove, TypeOK
  <2>3. \A n \in Mover : ~Held(n, r)
    <3>1. CASE Schedule(r)
      BY <3>1 DEF Schedule, Held
    <3>2. CASE Cancel(r)
      <4>1. Unheld(r, 0)
        BY <3>2 DEF Cancel
      <4> QED
        BY <4>1, HeldIsNotFree
    <3> QED
      BY <1>2, <3>1, <3>2
  <2>4. ASSUME NEW n \in Mover PROVE CoverOf(n)'
    <3>1. CoverOf(n) /\ \A q \in Row : Held(n, q) =>
              row'[q] = "here" /\ claimedBy'[q] = n /\ q \in stamped'[n] /\ left'[q] = left[q]
      BY <2>1, <2>2, <2>3 DEF Held, CoverInv
    <3>2. \A q \in Row : row[q] = "gone" => row'[q] = "gone"
      BY <2>2
    <3> QED
      BY <2>1, <3>1, <3>2, OthersCover
  <2> QED
    BY <2>4 DEF CoverInv
<1>3. ASSUME NEW m \in Mover, Select(m) \/ Restart(m) \/ Crash(m) PROVE CoverInv'
  <2>1. /\ dep' = dep /\ sent' = sent /\ UNCHANGED <<row, claimedBy, left>>
        /\ \A k \in Mover \ {m} : /\ pc'[k] = pc[k] /\ picked'[k] = picked[k] /\ batch'[k] = batch[k]
                                  /\ calling'[k] = calling[k] /\ stamped'[k] = stamped[k]
    <3>1. CASE Select(m)
      <4>1. PICK s \in Orders : picked' = [picked EXCEPT ![m] = s]
        BY <3>1 DEF Select
      <4> QED
        BY <3>1, <4>1 DEF Select, TypeOK
    <3>2. CASE Restart(m)
      BY <3>2 DEF Restart, At, TypeOK
    <3>3. CASE Crash(m)
      BY <3>3 DEF Crash, TypeOK
    <3> QED
      BY <1>3, <3>1, <3>2, <3>3
  <2>2. CoverOf(m)'
    <3>1. batch'[m] = <<>>
      BY <1>3 DEF Select, Restart, At, Crash, TypeOK, PassInv, PassOf, StillOf
    <3>2. Entries(batch[m])' = {}
      BY <3>1 DEF Entries
    <3> QED
      BY <3>2 DEF CoverOf
  <2> QED
    BY <1>1, <2>1, <2>2 DEF CoverInv
<1>4. ASSUME NEW m \in Mover, Claim(m) PROVE CoverInv'
  BY <1>4, ClaimCover
<1>5. ASSUME NEW m \in Mover, DropLate(m) \/ GiveUp(m) PROVE CoverInv'
  BY <1>5, DeleteHeldCover DEF DropLate, GiveUp
<1>6. ASSUME NEW m \in Mover, NEW label, UNCHANGED <<dep, row, claimedBy, left, picked, batch, stamped, sent>>,
             pc[m] \in Busy \ {"record"}, pc' = [pc EXCEPT ![m] = label],
             calling' = [calling EXCEPT ![m] = 0] \/ calling' = calling, calling'[m] = 0,
             (pc[m] = "next" /\ label = "call") \/ label \in {"delete", "count", "giveup"}
      PROVE  CoverInv'
  <2>1. pc'[m] = label /\ \A k \in Mover \ {m} : pc'[k] = pc[k] /\ calling'[k] = calling[k]
    BY <1>6 DEF TypeOK
  <2>2. (Spent(m) => Spent(m)') /\ (pc[m] = "call" => Spent(m)')
    BY <1>6, <2>1 DEF Spent
  <2>3. CoverOf(m)'
    BY <1>6, <2>2, GoesOnCover DEF CoverInv
  <2> QED
    BY <1>1, <1>6, <2>1, <2>3 DEF CoverInv
<1>7. ASSUME NEW m \in Mover, Publish(m) PROVE CoverInv'
  <2>1. pc[m] = "next" /\ At(m, "call") /\ calling[m] = 0
    BY <1>7 DEF Publish, PassInv, PassOf, StillOf
  <2> QED
    BY <1>6, <1>7, <2>1 DEF Publish, At, Busy
<1>8. ASSUME NEW m \in Mover, Lands(m) PROVE CoverInv'
  <2>1. /\ UNCHANGED <<dep, row, claimedBy, left, pc, picked, batch, stamped, calling>> /\ sent \subseteq sent'
    BY <1>8 DEF Lands
  <2>2. ASSUME NEW n \in Mover PROVE CoverOf(n)'
    <3>1. CoverOf(n) /\ \A r \in Row : Held(n, r) => row[r] = "here" /\ claimedBy[r] = n /\ r \in stamped[n]
      BY DEF Held, CoverInv
    <3> QED
      BY <2>1, <3>1, OthersCover
  <2> QED
    BY <2>2 DEF CoverInv
<1>9. ASSUME NEW m \in Mover, Returns(m) \/ Raises(m) PROVE CoverInv'
  <2>1. pc[m] = "call" /\ (Ends(m, "delete") \/ Ends(m, "count"))
    BY <1>9 DEF Returns, Raises
  <2>2. calling'[m] = 0
    BY <2>1 DEF Ends, TypeOK
  <2> QED
    BY <1>6, <2>1, <2>2 DEF Ends, Busy
<1>10. ASSUME NEW m \in Mover, Delete(m) PROVE CoverInv'
  <2>1. /\ Current(m) \in Row /\ Current(m) \in sent /\ Remove(Current(m)) /\ Advance(m) /\ dep' = dep /\ sent' = sent
        /\ pc[m] \in Busy \ {"call"}
    BY <1>10, CurrentType DEF Delete, Busy, EndsInv, SentBeforeDelete
  <2>2. /\ \A r \in Row : r # Current(m) =>
              row'[r] = row[r] /\ claimedBy'[r] = claimedBy[r] /\ left'[r] = left[r]
        /\ row'[Current(m)] = "gone"
    BY <2>1 DEF Remove, TypeOK
  <2>3. CoverOf(m)'
    BY <2>1, <2>2, AdvanceCover DEF CoverInv
  <2>4. ASSUME NEW n \in Mover, n # m PROVE CoverOf(n)'
    <3>1. /\ pc'[n] = pc[n] /\ batch'[n] = batch[n] /\ stamped'[n] = stamped[n]
          /\ picked'[n] = picked[n] /\ calling'[n] = calling[n]
      BY <2>1, <2>4 DEF Advance, TypeOK
    <3> DEFINE c == Current(m)
    <3>2. /\ c \in sent' /\ row'[c] = "gone"
          /\ \A r \in Row : r # c => row'[r] = row[r] /\ claimedBy'[r] = claimedBy[r] /\ left'[r] = left[r]
      BY <2>1, <2>2
    <3> HIDE DEF c
    <3>3. \A r \in Row : Held(n, r) =>
              \/ row'[r] = "here" /\ claimedBy'[r] = n /\ r \in stamped'[n] /\ left'[r] = left[r]
              \/ row'[r] = "gone" /\ r \in sent'
      BY <3>1, <3>2 DEF Held
    <3>4. CoverOf(n) /\ \A r \in Row : row[r] = "gone" => row'[r] = "gone"
      BY <3>2 DEF CoverInv
    <3> QED
      BY <2>1, <3>1, <3>3, <3>4, OthersCover
  <2> QED
    BY <2>3, <2>4 DEF CoverInv
<1>11. ASSUME NEW m \in Mover, pc[m] \in Busy \ {"call"}, Advance(m), UNCHANGED <<dep, row, claimedBy, left, sent>>
       PROVE  CoverInv'
  <2>1. CoverOf(m)'
    BY <1>11, AdvanceCover DEF CoverInv
  <2> QED
    BY <1>1, <1>11, <2>1 DEF CoverInv
<1>12. ASSUME NEW m \in Mover, CountFailure(m) PROVE CoverInv'
  <2>1. pc[m] = "count" /\ (At(m, "giveup") \/ Advance(m)) /\ UNCHANGED <<dep, row, claimedBy, left, sent>>
        /\ calling[m] = 0
    BY <1>12 DEF CountFailure, PassInv, PassOf, StillOf
  <2>2. CASE At(m, "giveup")
    BY <1>6, <2>1, <2>2 DEF At, Busy
  <2>3. CASE Advance(m)
    BY <1>11, <2>1, <2>3 DEF Busy
  <2> QED
    BY <2>1, <2>2, <2>3
<1>13. ASSUME NEW m \in Mover, Record(m) PROVE CoverInv'
  BY <1>11, <1>13 DEF Record, Busy
<1>14. ASSUME UNCHANGED vars PROVE CoverInv'
  <2>1. ASSUME NEW n \in Mover PROVE CoverOf(n)'
    <3>1. CoverOf(n) /\ \A r \in Row : Held(n, r) => row[r] = "here" /\ claimedBy[r] = n /\ r \in stamped[n]
      BY DEF Held, CoverInv
    <3> QED
      BY <1>14, <3>1, OthersCover DEF vars
  <2> QED
    BY <2>1 DEF CoverInv
<1> QED
  BY <1>2, <1>3, <1>4, <1>5, <1>7, <1>8, <1>9, <1>10, <1>12, <1>13, <1>14, TickCover DEF Next, Works

(* A mover that loses no time between its calls, and whose lease is longer *)
(* than --limit of them, publishes no row behind a claim that lapsed: what *)
(* takes the row from under it is the row.delete() of a mover that had      *)
(* published it already.                                                    *)
THEOREM LeaseCovers == Spec => []LeaseCoversCall
<1> DEFINE Inv == TypeOK /\ EndsInv /\ PassInv /\ OneStamp /\ CoverInv
<1>1. Init => Inv
  BY TypeInit, EndsInit, PassInit, CoverInit
<1>2. Inv /\ [Next]_vars => Inv'
  BY TypeNext, EndsNext, PassNext, StampNext, CoverNext
<1>3. Inv => LeaseCoversCall
  <2> SUFFICES ASSUME Inv, NEW m \in Mover, RoomForBatch(m), pc[m] = "call"
               PROVE  Covered(m) \/ (row[Current(m)] = "gone" /\ Current(m) \in sent)
    BY DEF LeaseCoversCall
  <2>1. batch[m] \in Seq(Row) /\ batch[m] # <<>> /\ Distinct(batch[m]) /\ Current(m) \in Row
    BY CurrentType DEF TypeOK, Busy, PassInv, PassOf, SinglyOf
  <2>2. Current(m) \in Entries(batch[m])
    BY <2>1, PopEntries DEF Current
  <2>3. Held(m, Current(m)) \/ (row[Current(m)] = "gone" /\ Current(m) \in sent)
    BY <2>2 DEF CoverInv, CoverOf
  <2>4. Need(m) \in Nat /\ left[Current(m)] \in Int \cup {Never}
    BY <2>1, NeedType DEF TypeOK
  <2>5. Held(m, Current(m)) => left[Current(m)] = Never \/ left[Current(m)] > 0
    BY <2>4 DEF Held
  <2> QED
    BY <2>3, <2>5 DEF Held, Covered, Live
<1> QED
  BY <1>1, <1>2, <1>3, PTL DEF Spec


-----------------------------------------------------------------------------
(* The calls *)

(* No row is unwritten again. *)
LEMMA RowsStay ==
    ASSUME TypeOK, [Next]_vars
    PROVE  \A r \in Row : row'[r] = "unwritten" => row[r] = "unwritten"
<1> USE DEF table, movers, history
<1>1. ASSUME NEW q \in Row, row' = [row EXCEPT ![q] = "gone"] \/ row' = [row EXCEPT ![q] = "here"]
      PROVE  \A r \in Row : row'[r] = "unwritten" => row[r] = "unwritten"
  BY <1>1 DEF TypeOK
<1>2. ASSUME NEW q \in Row, Schedule(q) \/ Cancel(q)
      PROVE  \A r \in Row : row'[r] = "unwritten" => row[r] = "unwritten"
  BY <1>1, <1>2 DEF Schedule, Cancel, Remove
<1>3. ASSUME NEW m \in Mover, Works(m) \/ Raises(m) \/ Crash(m)
      PROVE  \A r \in Row : row'[r] = "unwritten" => row[r] = "unwritten"
  <2>1. ASSUME row' = row PROVE \A r \in Row : row'[r] = "unwritten" => row[r] = "unwritten"
    BY <2>1
  <2>2. CASE DropLate(m) \/ GiveUp(m) \/ Delete(m)
    <3>1. pc[m] \in Busy /\ (row' = row \/ row' = [row EXCEPT ![Current(m)] = "gone"])
      BY <2>2 DEF DropLate, GiveUp, Delete, DeleteHeld, Remove, Busy
    <3>2. Current(m) \in Row
      BY <3>1, CurrentType
    <3> QED
      BY <1>1, <2>1, <3>1, <3>2
  <2>3. CASE Select(m) \/ Claim(m) \/ Publish(m) \/ Lands(m) \/ Returns(m) \/ CountFailure(m)
             \/ Record(m) \/ Restart(m) \/ Raises(m) \/ Crash(m)
    <3>1. row' = row
      BY <2>3 DEF Select, Claim, Publish, Lands, Returns, Ends, CountFailure, Record, Restart, Raises, Crash
    <3> QED
      BY <2>1, <3>1
  <2> QED
    BY <1>3, <2>2, <2>3 DEF Works
<1>4. ASSUME Tick \/ UNCHANGED vars PROVE row' = row
  BY <1>4 DEF Tick, vars
<1> QED
  BY <1>2, <1>3, <1>4 DEF Next

(* A step of the calls is a step of Scheduled, or none of its. *)
LEMMA CallsStep == CallTypeOK /\ [CallNext]_<<vars, calls>> => [Next]_vars
<1> SUFFICES ASSUME CallTypeOK, [CallNext]_<<vars, calls>> PROVE Next \/ UNCHANGED vars
  OBVIOUS
<1>1. ASSUME Enters("atomic") \/ Enters("manual") \/ BlockEnds PROVE Next \/ UNCHANGED vars
  <2>1. CASE Commits /\ wrote # 0
    <3>1. Schedule(wrote) /\ wrote \in Row
      BY <2>1 DEF Commits, CallTypeOK
    <3> QED
      BY <3>1 DEF Next
  <2>2. CASE ~(Commits /\ wrote # 0)
    BY <1>1, <2>2 DEF Enters, BlockEnds, Commits, RollsBack, AutocommitOn, HookRuns
  <2> QED
    BY <2>1, <2>2
<1>2. ASSUME NEW r \in Row, WritesInBlock(r) \/ WritesAlone(r) \/ WritesAwaited(r)
      PROVE  Next \/ UNCHANGED vars
  BY <1>2 DEF WritesInBlock, WritesAlone, WritesAwaited, Next
<1>3. ASSUME (\E r \in Row : Cancel(r)) \/ (\E m \in Mover : Works(m) \/ Raises(m) \/ Crash(m)) \/ Tick
      PROVE  Next
  BY <1>3 DEF Next
<1> QED
  BY <1>1, <1>2, <1>3 DEF CallNext


(* What the connection's hooks hold: the event of the row of the block that *)
(* is open, or of a row that was committed; and no row is announced that is *)
(* not in the table yet.                                                     *)
HookInv ==
    /\ CallTypeOK
    /\ wrote # 0 => block \in {"atomic", "manual"}
    /\ block \in {"atomic", "manual"} => hook = wrote
    /\ hook # 0 => fed[hook] = 0 /\ (row[hook] = "unwritten" => hook = wrote)
    /\ \A r \in Row : row[r] = "unwritten" => fed[r] = 0

LEMMA HookInit == CallInit => HookInv
<1> SUFFICES ASSUME CallInit PROVE HookInv
  OBVIOUS
<1> QED
  BY DEF CallInit, HookInv, CallTypeOK

(* No step announces a row too early, or twice. *)
LEMMA HookNext ==
    ASSUME TypeOK, HookInv, [CallNext]_<<vars, calls>>
    PROVE  /\ HookInv'
           /\ \A r \in Row : fed'[r] # fed[r] => fed[r] = 0 /\ row'[r] # "unwritten"
<1> DEFINE Goal == /\ HookInv'
                   /\ \A r \in Row : fed'[r] # fed[r] => fed[r] = 0 /\ row'[r] # "unwritten"
<1>0. 0 \notin Row /\ fed \in [Row -> Nat] /\ hook \in Row \cup {0} /\ wrote \in Row \cup {0}
  BY DEF Row, HookInv, CallTypeOK
<1>1. \A r \in Row : row'[r] = "unwritten" => row[r] = "unwritten"
  <2>1. [Next]_vars
    BY CallsStep DEF HookInv
  <2> QED
    BY <2>1, RowsStay
<1>2. ASSUME UNCHANGED calls, ~Standing \/ row' = row PROVE Goal
  <2>1. UNCHANGED <<block, wrote, hook, fed>>
    BY <1>2 DEF calls
  <2>2. ASSUME hook # 0, row'[hook] = "unwritten" PROVE hook = wrote
    BY <1>0, <1>1, <2>2 DEF HookInv
  <2>3. HookInv'
    BY <1>1, <2>1, <2>2 DEF HookInv, CallTypeOK
  <2> QED
    BY <2>1, <2>3
<1>3. ASSUME NEW kind \in {"atomic", "manual"}, Enters(kind) PROVE Goal
  <2>1. UNCHANGED <<row, wrote, hook, fed>> /\ block = "none" /\ hook = 0 /\ block' = kind
    BY <1>3 DEF Enters, vars, table
  <2> QED
    BY <1>3, <2>1 DEF HookInv, CallTypeOK
<1>4. ASSUME NEW r \in Row, WritesInBlock(r) PROVE Goal
  <2>1. /\ UNCHANGED <<row, block, fed>> /\ block \in {"atomic", "manual"} /\ wrote' = r /\ hook' = r
        /\ row[r] = "unwritten"
    BY <1>4 DEF WritesInBlock, RecordIt, AfterCommit, NextRow, vars, table
  <2> QED
    BY <1>0, <2>1 DEF HookInv, CallTypeOK
<1>5. ASSUME NEW r \in Row, WritesAlone(r) PROVE Goal
  <2>1. /\ UNCHANGED <<block, wrote, fed>> /\ block = "none" /\ hook' = r
        /\ row[r] = "unwritten" /\ row' = [row EXCEPT ![r] = "here"]
    BY <1>5 DEF WritesAlone, RecordIt, AfterCommit, Schedule
  <2>2. row'[r] = "here"
    BY <2>1 DEF TypeOK
  <2> QED
    BY <1>0, <1>1, <2>1, <2>2 DEF HookInv, CallTypeOK
<1>6. ASSUME NEW r \in Row, WritesAwaited(r) PROVE Goal
  <2>1. /\ UNCHANGED <<block, wrote, hook>> /\ block = "none" /\ fed' = [fed EXCEPT ![r] = @ + 1]
        /\ row[r] = "unwritten" /\ row' = [row EXCEPT ![r] = "here"]
    BY <1>6 DEF WritesAwaited, Feed, Schedule
  <2>2. row'[r] = "here" /\ fed[r] = 0 /\ \A q \in Row : q # r => fed'[q] = fed[q]
    BY <1>0, <2>1 DEF TypeOK, HookInv
  <2>3. hook # r /\ wrote = 0
    BY <1>0, <2>1 DEF HookInv
  <2>4. fed' \in [Row -> Nat]
    BY <1>0, <2>1
  <2>5. \A q \in Row : row'[q] = "unwritten" => q # r /\ fed'[q] = 0
    BY <1>1, <2>2 DEF HookInv
  <2>6. hook # 0 => fed'[hook] = 0 /\ (row'[hook] = "unwritten" => hook = wrote)
    BY <1>0, <1>1, <2>2, <2>3 DEF HookInv
  <2>7. HookInv'
    BY <2>1, <2>3, <2>4, <2>5, <2>6 DEF HookInv, CallTypeOK
  <2> QED
    BY <2>2, <2>7
<1>7. ASSUME Commits PROVE Goal
  <2>1. /\ wrote' = 0 /\ UNCHANGED <<hook, fed>> /\ block' \in {"none", "committed"} /\ hook = wrote
    BY <1>7 DEF Commits, HookInv
  <2>2. hook # 0 => row'[hook] = "here"
    BY <1>0, <1>7, <2>1 DEF Commits, Schedule, TypeOK
  <2>3. hook # 0 => fed'[hook] = 0 /\ (row'[hook] = "unwritten" => hook = wrote')
    BY <2>1, <2>2 DEF HookInv
  <2>4. HookInv'
    BY <1>1, <2>1, <2>3 DEF HookInv, CallTypeOK
  <2> QED
    BY <2>1, <2>4
<1>8. ASSUME RollsBack PROVE Goal
  <2>1. UNCHANGED <<row, fed>> /\ block' = "none" /\ wrote' = 0 /\ hook' = 0
    BY <1>8 DEF RollsBack, vars, table
  <2> QED
    BY <2>1 DEF HookInv, CallTypeOK
<1>9. ASSUME AutocommitOn PROVE Goal
  <2>1. UNCHANGED <<row, wrote, hook, fed>> /\ block = "committed" /\ block' = "none"
    BY <1>9 DEF AutocommitOn, vars, table
  <2> QED
    BY <2>1 DEF HookInv, CallTypeOK
<1>10. ASSUME HookRuns PROVE Goal
  <2>1. /\ UNCHANGED <<row, block, wrote>> /\ block = "none" /\ hook # 0 /\ hook' = 0
        /\ fed' = [fed EXCEPT ![hook] = @ + 1]
    BY <1>10 DEF HookRuns, Feed, vars, table
  <2>2. wrote = 0 /\ hook \in Row /\ fed[hook] = 0 /\ row[hook] # "unwritten"
    BY <1>0, <2>1 DEF HookInv
  <2>3. fed' \in [Row -> Nat] /\ \A q \in Row : q # hook => fed'[q] = fed[q]
    BY <1>0, <2>1
  <2>4. HookInv'
    BY <2>1, <2>2, <2>3 DEF HookInv, CallTypeOK
  <2> QED
    BY <2>1, <2>2, <2>3, <2>4
<1>11. ASSUME UNCHANGED <<vars, calls>> PROVE Goal
  BY <1>2, <1>11 DEF vars, table
<1> HIDE DEF Goal
<1>12. ASSUME Enters("atomic") \/ Enters("manual") PROVE Goal
  BY <1>3, <1>12
<1>13. ASSUME BlockEnds PROVE Goal
  BY <1>7, <1>8, <1>9, <1>10, <1>13 DEF BlockEnds
<1>14. ASSUME ~Standing /\ UNCHANGED calls PROVE Goal
  BY <1>2, <1>14
<1>15. ASSUME \E r \in Row : WritesInBlock(r) \/ WritesAlone(r) \/ WritesAwaited(r) PROVE Goal
  BY <1>4, <1>5, <1>6, <1>15
<1>16. Goal
  BY <1>11, <1>12, <1>13, <1>14, <1>15 DEF CallNext
<1> QED
  BY <1>16 DEF Goal

(* What is proved of the movers holds of the whole: schedule, aschedule and *)
(* the caller's transaction do to a row what Schedule does, or nothing.     *)
THEOREM CallsAreSteps == CallSpec => Spec
<1>1. CallInit => Init
  BY DEF CallInit
<1>2. TypeOK /\ HookInv /\ [CallNext]_<<vars, calls>> => (TypeOK /\ HookInv)' /\ [Next]_vars
  <2>1. HookInv => CallTypeOK
    BY DEF HookInv
  <2> QED
    BY <2>1, CallsStep, HookNext, TypeNext
<1> QED
  BY <1>1, <1>2, TypeInit, HookInit, PTL DEF CallSpec, Spec

(* The feed says of a send that it was scheduled once its row is committed, *)
(* never of one that was rolled back, and says it once: after_commit hangs   *)
(* the event on the transaction that the row was written in.                *)
THEOREM AnnouncedOnce == CallSpec => Announced
<1>1. CallInit => TypeOK /\ HookInv
  BY TypeInit, HookInit DEF CallInit
<1>2. TypeOK /\ HookInv /\ [CallNext]_<<vars, calls>> => (TypeOK /\ HookInv)'
  <2>1. HookInv => CallTypeOK
    BY DEF HookInv
  <2> QED
    BY <2>1, CallsStep, HookNext, TypeNext
<1>3. TypeOK /\ HookInv /\ [CallNext]_<<vars, calls>> =>
        [\A r \in Row : fed'[r] # fed[r] => fed[r] = 0 /\ row'[r] # "unwritten"]_<<vars, calls>>
  BY HookNext
<1> QED
  BY <1>1, <1>2, <1>3, PTL DEF CallSpec, Announced

==============================================================================
