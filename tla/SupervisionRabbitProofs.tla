---------------------- MODULE SupervisionRabbitProofs ----------------------
(***************************************************************************)
(* Two components.  That two processes poll one bot only when one of them  *)
(* is late, and that a pass stops a bot for a cause, for every set of      *)
(* processes, every number of bots, every lease, ceiling and number of     *)
(* upsets.  And that the RabbitMQ transport keeps the broker contract and  *)
(* its books of what the server delivered, for every set of queues and any *)
(* number of messages, channels, tags and moves.                           *)
(***************************************************************************)
EXTENDS Supervision, RabbitMQ, FiniteSetTheorems, SequenceTheorems, TLAPS

-----------------------------------------------------------------------------
(* The constants, each by itself. *)
LEMMA Constants ==
    /\ Bots \in Nat \ {0} /\ Lease \in Nat \ {0} /\ Ceiling \in Nat /\ Most \in Nat
    /\ Upsets \in [1..Bots -> 0..Most] /\ Nobody \notin Process /\ Bot = 1..Bots
  BY SupervisionAssumption, Zenon DEF Nobody, Bot

USE Constants

-----------------------------------------------------------------------------
(* The inductive invariant *)

(* Upsets that were edits, and those to come, are within the bound. *)
Budget == \E n \in Bot : edits + left <= Upsets[n]

(* A lease this process took less than a lease ago is still its own.  What *)
(* it polls, has claimed or has been allowed to start is a bot it took.    *)
Covered(p, b) ==
    age[p][b] < Lease => lease[b].holder = p /\ lease[b].left + age[p][b] = Lease
Polls(p, b) == run[p][b] # 0 \/ b \in took[p] \/ (pc[p] = "act" /\ b \in todo[p])
Covers == \A p \in Process, b \in Bot : Polls(p, b) => Covered(p, b)

(* The sets a pass works on. *)
Walk(p) ==
    /\ pc[p] = "rows" => todo[p] = {}
    /\ pc[p] # "lease" => took[p] = {}
    /\ todo[p] \cap took[p] = {}
    /\ pc[p] # "rows" => todo[p] \cup took[p] \subseteq On(want[p])
    /\ pc[p] = "lease" /\ todo[p] \cap On(run[p]) # {} => took[p] \subseteq On(run[p])

(* Nothing a process holds is more than one process may. *)
Fits(bots) == Ceiling # 0 => Cardinality(bots) <= Ceiling
Room(p) == /\ Fits(took[p]) /\ Fits(On(run[p]))
           /\ pc[p] = "act" => Fits(On(want[p]))

(* A bot whose row was never edited is read, wanted and served as its row  *)
(* is or not at all; while the last answer named a bot the row is what was *)
(* said; and while no answer was empty twice, what is served stays wanted  *)
(* unless its lease is another's.                                          *)
Steady(p, b) ==
    /\ {want[p][b], run[p][b], said[p][b]} \subseteq {0, row[b]}
    /\ cache[p].known => cache[p].rows[b] = row[b]
    /\ blank[p] = 0 /\ (run[p][b] # 0 \/ want[p][b] # 0) => said[p][b] = row[b]
    /\ run[p][b] # 0 /\ blank[p] # 2 =>
        /\ pc[p] = "lease" => want[p][b] # 0 /\ (b \in todo[p] \cup took[p] \/ lease[b].holder # p)
        /\ pc[p] = "act" => want[p][b] # 0 \/ lease[b].holder # p
Steadies == \A p \in Process, b \in Bot : stamp[b] = 0 => Steady(p, b)

IInv == /\ TypeOK /\ Budget /\ Covers /\ Steadies
        /\ \A p \in Process : Walk(p) /\ Room(p)
-----------------------------------------------------------------------------
(* Types *)

LEMMA NeverTyped == Never \in Moment
  BY DEF Never, Moment

LEMMA StartsTyped == Init => TypeOK /\ Budget
<1> SUFFICES ASSUME Init PROVE TypeOK /\ Budget
  OBVIOUS
<1>1. TableTyped
  BY DEF Init, TableTyped, Record
<1>2. NotesTyped
  BY DEF Init, NotesTyped, Shown
<1>3. LeasesTyped
  BY DEF Init, LeasesTyped, Nobody
<1>4. PassTyped
  BY NeverTyped DEF Init, PassTyped, Off, Record
<1>5. MineTyped
  BY DEF Init, MineTyped, Off, Free, Record
<1>6. ReadsTyped
  BY NeverTyped DEF Init, ReadsTyped, Unread, Off, Record
<1>7. up \subseteq Process /\ left \in 0..Most /\ Budget
  BY DEF Init, Budget
<1> QED
  BY <1>1, <1>2, <1>3, <1>4, <1>5, <1>6, <1>7 DEF TypeOK

(* A group of variables that a step leaves alone keeps its type. *)
LEMMA Stays ==
    ASSUME TypeOK
    PROVE  /\ UNCHANGED table => TableTyped'
           /\ UNCHANGED notes => NotesTyped'
           /\ UNCHANGED leases => LeasesTyped'
           /\ UNCHANGED pass => PassTyped'
           /\ UNCHANGED mine => MineTyped'
           /\ UNCHANGED reads => ReadsTyped'
  BY DEF TypeOK, TableTyped, NotesTyped, LeasesTyped, PassTyped, MineTyped, ReadsTyped,
         table, notes, leases, pass, mine, reads

(* One value of a function replaced by another. *)
LEMMA SetTyped ==
    ASSUME NEW D, NEW S, NEW f \in [D -> S], NEW d \in D, NEW x \in S
    PROVE  Set(f, d, x) \in [D -> S]
  BY DEF Set

(* An answer of the providers. *)
LEMMA WantsTyped ==
    ASSUME TypeOK, NEW p \in Process, NEW rows \in [Bot -> Record], Wants(p, rows)
    PROVE  /\ pc' \in [Process -> {"rows", "lease", "act"}] /\ want' \in [Process -> [Bot -> Record]]
           /\ todo' \in [Process -> SUBSET Bot] /\ took' \in [Process -> SUBSET Bot]
           /\ said' \in [Process -> [Bot -> Record]] /\ blank' \in [Process -> 0..2]
<1> USE DEF TypeOK, PassTyped, ReadsTyped
<1>1. Off \in [Bot -> Record]
  BY DEF Off, Record
<1>2. (IF HoldsBack(p, rows) THEN said[p] ELSE rows) \in [Bot -> Record]
  OBVIOUS
<1>3. SaysNow(p, rows) \in [Bot -> Record]
  BY <1>1 DEF SaysNow
<1>4. want' \in [Process -> [Bot -> Record]] /\ said' \in [Process -> [Bot -> Record]]
  BY <1>2, <1>3, SetTyped DEF Wants
<1>5. On(want'[p]) \in SUBSET Bot
  BY DEF On
<1>6. todo' \in [Process -> SUBSET Bot] /\ took' \in [Process -> SUBSET Bot]
  BY <1>5 DEF Wants, Set
<1>7. pc' \in [Process -> {"rows", "lease", "act"}]
  BY DEF Wants, Set
<1>8. blank' \in [Process -> 0..2]
  BY DEF Wants, Set
<1> QED
  BY <1>4, <1>6, <1>7, <1>8

(* A state reported, written or kept. *)
LEMMA TellTyped ==
    ASSUME TypeOK, NEW p \in Process, NEW b \in Bot, NEW state \in Shown, Tell(p, b, state)
    PROVE  NotesTyped'
<1> USE DEF TypeOK, NotesTyped
<1>1. \A x \in Shown \cup {"none"} : Set(kept[p], b, x) \in [Bot -> Shown \cup {"none"}]
  BY SetTyped
<1>2. \A x \in Shown \cup {"none"} :
          Set(kept, p, Set(kept[p], b, x)) \in [Process -> [Bot -> Shown \cup {"none"}]]
  BY <1>1, SetTyped
<1>3. kept' \in [Process -> [Bot -> Shown \cup {"none"}]]
  <2>1. kept' = Set(kept, p, Set(kept[p], b, "none")) \/ kept' = Set(kept, p, Set(kept[p], b, state))
    BY DEF Tell, Keeps
  <2> QED
    BY <1>2, <2>1
<1>4. shown' \in [Bot -> Shown] /\ told' \in [Bot -> Shown]
  BY DEF Tell, Set
<1>5. crossed' \subseteq Bot
  BY DEF Tell
<1> QED
  BY <1>3, <1>4, <1>5

(* Kept states written. *)
LEMMA FlushTyped ==
    ASSUME TypeOK, NEW p \in Process, Flush(p)
    PROVE  NotesTyped'
<1> USE DEF TypeOK, NotesTyped
<1>1. CASE UNCHANGED notes
  BY <1>1 DEF notes
<1>2. ASSUME kept' = Set(kept, p, [b \in Bot |-> "none"]),
             shown' = [b \in Bot |-> IF b \in Held(p) THEN kept[p][b] ELSE shown[b]],
             crossed' = crossed \cup {b \in Held(p) : kept[p][b] # told[b]}, told' = told
      PROVE  NotesTyped'
  <2>1. kept' \in [Process -> [Bot -> Shown \cup {"none"}]]
    BY <1>2, SetTyped
  <2>2. shown' \in [Bot -> Shown]
    BY <1>2 DEF Held
  <2>3. crossed' \subseteq Bot /\ told' \in [Bot -> Shown]
    BY <1>2 DEF Held
  <2> QED
    BY <2>1, <2>2, <2>3
<1> QED
  BY <1>1, <1>2, Zenon DEF Flush

(* The watermark is of moments something was changed at. *)
LEMMA MarkTyped == TypeOK => Marks \subseteq Moment
  BY DEF TypeOK, TableTyped, Marks, Moment

LEMMA Typed ==
    ASSUME TypeOK, Budget, [Next]_vars
    PROVE  TypeOK' /\ Budget'
<1>1. ASSUME NEW b \in Bot, NEW r \in Record, Save(b, r) PROVE TypeOK' /\ Budget'
  <2>1. TableTyped'
    BY <1>1 DEF Save, TypeOK, Upset, Budget, TableTyped, Record
  <2>2. up' \subseteq Process /\ left' \in 0..Most /\ Budget'
    BY <1>1 DEF Save, TypeOK, TableTyped, Budget, Upset
  <2> QED
    BY <1>1, <2>1, <2>2, Stays DEF Save, TypeOK
<1>2. ASSUME Commit PROVE TypeOK' /\ Budget'
  <2>1. TableTyped'
    BY <1>2 DEF Commit, TypeOK, Set, TableTyped
  <2>2. up' \subseteq Process /\ left' \in 0..Most /\ Budget'
    BY <1>2 DEF Commit, TypeOK, Budget
  <2> QED
    BY <1>2, <2>1, <2>2, Stays DEF Commit, TypeOK
<1>3. ASSUME SaveOther PROVE TypeOK' /\ Budget'
  <2>1. TableTyped'
    BY <1>3 DEF SaveOther, TypeOK, Upset, Budget, TableTyped
  <2>2. up' \subseteq Process /\ left' \in 0..Most /\ Budget'
    BY <1>3 DEF SaveOther, TypeOK, TableTyped, Budget, Upset
  <2> QED
    BY <1>3, <2>1, <2>2, Stays DEF SaveOther, TypeOK
<1>4. ASSUME Tick PROVE TypeOK' /\ Budget'
  <2>1. LeasesTyped'
    <3> USE DEF TypeOK, LeasesTyped
    <3>1. \A b \in Bot : lease[b].left \in 0..Lease /\ lease[b].holder \in Process \cup {Nobody}
      OBVIOUS
    <3>2. lease' \in [Bot -> [holder : Process \cup {Nobody}, left : 0..Lease]]
      BY <1>4, <3>1 DEF Tick
    <3>3. age' \in [Process -> [Bot -> 0..Lease]] /\ holding' \in [Process -> SUBSET Bot]
      BY <1>4 DEF Tick
    <3> QED
      BY <3>2, <3>3
  <2>2. up' \subseteq Process /\ left' \in 0..Most /\ Budget'
    BY <1>4 DEF Tick, TypeOK, Budget, table
  <2> QED
    BY <1>4, <2>1, <2>2, Stays DEF Tick, TypeOK
<1>5. ASSUME NEW p \in Process, PassBegins(p) PROVE TypeOK' /\ Budget'
  <2>1. NotesTyped'
    BY <1>5, FlushTyped DEF PassBegins
  <2>2. PassTyped'
    <3>1. CASE Wants(p, cache[p].rows) /\ UNCHANGED mark
      BY <3>1, WantsTyped DEF TypeOK, ReadsTyped, PassTyped
    <3>2. CASE /\ pc' = Set(pc, p, "rows") /\ \E now \in Marks : mark' = Set(mark, p, now)
               /\ UNCHANGED <<want, todo, took>>
      BY <3>2, MarkTyped DEF TypeOK, PassTyped, Set
    <3> QED
      BY <1>5, <3>1, <3>2, Zenon DEF PassBegins
  <2>3. ReadsTyped'
    <3>1. CASE Wants(p, cache[p].rows)
      BY <1>5, <3>1, WantsTyped DEF TypeOK, ReadsTyped, PassBegins
    <3>2. CASE UNCHANGED <<said, blank>>
      BY <1>5, <3>2 DEF TypeOK, ReadsTyped, PassBegins
    <3> QED
      BY <1>5, <3>1, <3>2, Zenon DEF PassBegins
  <2>4. up' \subseteq Process /\ left' \in 0..Most /\ Budget'
    BY <1>5 DEF PassBegins, Flush, TypeOK, TableTyped, Budget, Upset, table
  <2> QED
    BY <1>5, <2>1, <2>2, <2>3, <2>4, Stays DEF PassBegins, TypeOK
<1>6. ASSUME NEW p \in Process, ReadRows(p) PROVE TypeOK' /\ Budget'
  <2>1. PassTyped'
    <3>1. Wants(p, row) /\ mark' = Set(mark, p, Never) /\ row \in [Bot -> Record]
      BY <1>6 DEF ReadRows, TypeOK, TableTyped
    <3>2. mark' \in [Process -> Moment]
      BY <3>1, NeverTyped DEF TypeOK, PassTyped, Set
    <3> QED
      BY <3>1, <3>2, WantsTyped DEF PassTyped
  <2>2. ReadsTyped'
    <3>1. cache' \in [Process -> [known : BOOLEAN, mark : Moment, rows : [Bot -> Record]]]
      BY <1>6 DEF ReadRows, TypeOK, TableTyped, PassTyped, ReadsTyped, Set
    <3> QED
      BY <1>6, <3>1, WantsTyped DEF ReadRows, TypeOK, TableTyped, ReadsTyped
  <2>3. up' \subseteq Process /\ left' \in 0..Most /\ Budget'
    BY <1>6 DEF ReadRows, TypeOK, Budget, table
  <2> QED
    BY <1>6, <2>1, <2>2, <2>3, Stays DEF ReadRows, TypeOK
<1>7. ASSUME NEW p \in Process, ReadFails(p) PROVE TypeOK' /\ Budget'
  <2>1. PassTyped'
    <3>1. Off \in [Bot -> Record]
      BY DEF Off, Record
    <3>2. CASE Wants(p, Off)
      BY <1>7, <3>1, <3>2, WantsTyped, NeverTyped DEF ReadFails, TypeOK, PassTyped, Set
    <3>3. CASE /\ pc' = Set(pc, p, "act") /\ want' = Set(want, p, run[p])
               /\ UNCHANGED <<todo, took>>
      BY <1>7, <3>3, NeverTyped DEF ReadFails, TypeOK, PassTyped, MineTyped, Set
    <3> QED
      BY <1>7, <3>2, <3>3, Zenon DEF ReadFails
  <2>2. ReadsTyped'
    <3>1. Off \in [Bot -> Record] /\ Unread \in [known : BOOLEAN, mark : Moment, rows : [Bot -> Record]]
      BY NeverTyped DEF Off, Unread, Record
    <3>2. CASE Wants(p, Off) /\ cache' = Set(cache, p, Unread)
      BY <3>1, <3>2, WantsTyped, SetTyped DEF TypeOK, ReadsTyped
    <3>3. CASE UNCHANGED reads
      BY <3>3, Stays
    <3> QED
      BY <1>7, <3>2, <3>3, Zenon DEF ReadFails
  <2>3. up' \subseteq Process /\ left' \in 0..Most /\ Budget'
    BY <1>7 DEF ReadFails, TypeOK, TableTyped, Budget, Upset, table
  <2> QED
    BY <1>7, <2>1, <2>2, <2>3, Stays DEF ReadFails, TypeOK
<1>8. ASSUME NEW p \in Process, NEW b \in Bot, Claim(p, b) PROVE TypeOK' /\ Budget'
  <2>1. LeasesTyped'
    <3>1. CASE UNCHANGED <<lease, age>>
      BY <1>8, <3>1 DEF Claim, TypeOK, LeasesTyped
    <3>2. CASE /\ lease' = Set(lease, b, [holder |-> p, left |-> Lease])
               /\ age' = Set(age, p, Set(age[p], b, 0))
      <4>1. [holder |-> p, left |-> Lease] \in [holder : Process \cup {Nobody}, left : 0..Lease]
        OBVIOUS
      <4>2. Set(age[p], b, 0) \in [Bot -> 0..Lease]
        BY DEF TypeOK, LeasesTyped, Set
      <4> QED
        BY <1>8, <3>2, <4>1, <4>2, SetTyped DEF Claim, TypeOK, LeasesTyped
    <3> QED
      BY <1>8, <3>1, <3>2, Zenon DEF Claim
  <2>2. PassTyped'
    <3>1. todo' \in [Process -> SUBSET Bot]
      BY <1>8, SetTyped DEF Claim, TypeOK, PassTyped
    <3>2. took' = took \/ took' = Set(took, p, took[p] \cup {b})
      BY <1>8 DEF Claim
    <3>3. took' \in [Process -> SUBSET Bot]
      <4>1. took[p] \cup {b} \in SUBSET Bot /\ took \in [Process -> SUBSET Bot]
        BY DEF TypeOK, PassTyped
      <4>2. Set(took, p, took[p] \cup {b}) \in [Process -> SUBSET Bot]
        BY <4>1, SetTyped
      <4> QED
        BY <3>2, <4>1, <4>2
    <3> QED
      BY <1>8, <3>1, <3>3 DEF Claim, TypeOK, PassTyped
  <2>3. up' \subseteq Process /\ left' \in 0..Most /\ Budget'
    BY <1>8 DEF Claim, TypeOK, Budget, table
  <2> QED
    BY <1>8, <2>1, <2>2, <2>3, Stays DEF Claim, TypeOK
<1>9. ASSUME NEW p \in Process, Claimed(p) PROVE TypeOK' /\ Budget'
  <2>1. LeasesTyped'
    BY <1>9 DEF Claimed, Allows, TypeOK, Set, LeasesTyped, PassTyped
  <2>2. PassTyped'
    BY <1>9 DEF Claimed, Allows, TypeOK, Set, PassTyped, Record
  <2>3. MineTyped'
    BY <1>9 DEF Claimed, Allows, TypeOK, Set, MineTyped, Free, Record
  <2>4. up' \subseteq Process /\ left' \in 0..Most /\ Budget'
    BY <1>9 DEF Claimed, Allows, TypeOK, Budget, table
  <2> QED
    BY <1>9, <2>1, <2>2, <2>3, <2>4, Stays DEF Claimed, Allows, TypeOK
<1>10. ASSUME NEW p \in Process, ClaimFails(p) PROVE TypeOK' /\ Budget'
  <2>1. LeasesTyped'
    BY <1>10 DEF ClaimFails, Allows, On, TypeOK, LeasesTyped, Set
  <2>2. PassTyped'
    BY <1>10 DEF ClaimFails, Allows, TypeOK, Set, PassTyped, On, Record
  <2>3. MineTyped'
    BY <1>10 DEF ClaimFails, Allows, TypeOK, Set, MineTyped, Free, Record
  <2>4. up' \subseteq Process /\ left' \in 0..Most /\ Budget'
    BY <1>10 DEF ClaimFails, Allows, TypeOK, TableTyped, Budget, Upset, table
  <2> QED
    BY <1>10, <2>1, <2>2, <2>3, <2>4, Stays DEF ClaimFails, Allows, TypeOK
<1>11. ASSUME NEW p \in Process, NEW b \in Bot, StopOne(p, b) PROVE TypeOK' /\ Budget'
  <2>1. MineTyped'
    BY <1>11 DEF StopOne, TypeOK, Set, MineTyped, Record
  <2>2. up' \subseteq Process /\ left' \in 0..Most /\ Budget'
    BY <1>11 DEF StopOne, TypeOK, Budget, table
  <2> QED
    BY <1>11, <2>1, <2>2, Stays DEF StopOne, TypeOK
<1>12. ASSUME NEW p \in Process, NEW b \in Bot, Pass(p, b) PROVE TypeOK' /\ Budget'
  <2>1. MineTyped'
    <3>1. Set(run[p], b, 0) \in [Bot -> Record]
      BY DEF TypeOK, MineTyped, Record, Set
    <3> QED
      <4>1. run' = run \/ run' = Set(run, p, Set(run[p], b, 0))
        BY <1>12 DEF Pass
      <4>2. run \in [Process -> [Bot -> Record]]
        BY DEF TypeOK, MineTyped
      <4>3. run' \in [Process -> [Bot -> Record]]
        <5>1. Set(run, p, Set(run[p], b, 0)) \in [Process -> [Bot -> Record]]
          BY <3>1, <4>2, SetTyped
        <5> QED
          BY <4>1, <4>2, <5>1
      <4>4. quar' = quar
        BY <1>12 DEF Pass
      <4> QED
        BY <4>3, <4>4 DEF TypeOK, MineTyped
  <2>2. PassTyped'
    BY <1>12 DEF Pass, TypeOK, Set, PassTyped
  <2>3. up' \subseteq Process /\ left' \in 0..Most /\ Budget'
    BY <1>12 DEF Pass, TypeOK, Budget, table
  <2> QED
    BY <1>12, <2>1, <2>2, <2>3, Stays DEF Pass, TypeOK
<1>13. ASSUME NEW p \in Process, NEW b \in Bot, StartOne(p, b) PROVE TypeOK' /\ Budget'
  <2>1. MineTyped'
    BY <1>13 DEF StartOne, TypeOK, Set, MineTyped, PassTyped, Free, Record
  <2>2. PassTyped'
    BY <1>13 DEF StartOne, TypeOK, Set, PassTyped
  <2>3. NotesTyped'
    BY <1>13, TellTyped, Stays DEF StartOne, Shown
  <2>4. up' \subseteq Process /\ left' \in 0..Most /\ Budget'
    <3>1. CASE UNCHANGED left
      BY <1>13, <3>1 DEF StartOne, TypeOK, Budget, table
    <3>2. ASSUME Tell(p, b, "clear"), left' = left - IF kept'[p][b] = "none" THEN 0 ELSE 1
          PROVE  left' \in 0..Most /\ Budget'
      <4>1. left' = left \/ (left > 0 /\ left' = left - 1)
        <5>1. ASSUME kept' = Set(kept, p, Set(kept[p], b, "none")) PROVE kept'[p][b] = "none"
          BY <5>1 DEF TypeOK, NotesTyped, Set
        <5> QED
          BY <3>2, <5>1 DEF Tell, TypeOK
      <4> QED
        BY <1>13, <4>1 DEF StartOne, TypeOK, TableTyped, Budget, table
    <3>3. up' \subseteq Process
      BY <1>13 DEF StartOne, TypeOK
    <3> QED
      BY <1>13, <3>1, <3>2, <3>3, Zenon DEF StartOne, TypeOK
  <2> QED
    BY <1>13, <2>1, <2>2, <2>3, <2>4, Stays DEF StartOne, TypeOK
<1>14. ASSUME NEW p \in Process, NEW b \in Bot, StartRefused(p, b) PROVE TypeOK' /\ Budget'
  <2>1. MineTyped'
    BY <1>14 DEF StartRefused, Fates, TypeOK, Set, MineTyped, PassTyped, Record
  <2>2. PassTyped'
    BY <1>14 DEF StartRefused, TypeOK, Set, PassTyped
  <2>3. NotesTyped'
    BY <1>14, TellTyped DEF StartRefused, Shown
  <2>4. up' \subseteq Process /\ left' \in 0..Most /\ Budget'
    BY <1>14 DEF StartRefused, TypeOK, TableTyped, Budget, Upset, table
  <2> QED
    BY <1>14, <2>1, <2>2, <2>3, <2>4, Stays DEF StartRefused, TypeOK
<1>15. ASSUME NEW p \in Process, NEW b \in Bot, WaitEnds(p, b) PROVE TypeOK' /\ Budget'
  <2>1. MineTyped'
    <3>1. [quar[p][b] EXCEPT !.kind = "due"] \in [kind : {"no", "wait", "due", "never"}, record : Record]
      <4>1. quar[p][b] \in [kind : {"no", "wait", "due", "never"}, record : Record]
        BY DEF TypeOK, MineTyped
      <4> QED
        BY <4>1
    <3>2. Set(quar[p], b, [quar[p][b] EXCEPT !.kind = "due"])
              \in [Bot -> [kind : {"no", "wait", "due", "never"}, record : Record]]
      BY <3>1, SetTyped DEF TypeOK, MineTyped
    <3> QED
      BY <1>15, <3>2, SetTyped DEF WaitEnds, TypeOK, MineTyped
  <2>2. up' \subseteq Process /\ left' \in 0..Most /\ Budget'
    BY <1>15 DEF WaitEnds, TypeOK, Budget, table
  <2> QED
    BY <1>15, <2>1, <2>2, Stays DEF WaitEnds, TypeOK
<1>16. ASSUME NEW p \in Process, Crash(p) PROVE TypeOK' /\ Budget'
  <2>1. NotesTyped'
    BY <1>16 DEF Crash, Forgets, TypeOK, Set, NotesTyped
  <2>2. LeasesTyped'
    BY <1>16 DEF Crash, Forgets, TypeOK, Set, LeasesTyped
  <2>3. PassTyped'
    BY <1>16, NeverTyped DEF Crash, Forgets, TypeOK, Set, PassTyped, Off, Record
  <2>4. MineTyped'
    BY <1>16 DEF Crash, Forgets, TypeOK, Set, MineTyped, Off, Free, Record
  <2>5. ReadsTyped'
    BY <1>16, NeverTyped DEF Crash, Forgets, TypeOK, Set, ReadsTyped, Off, Unread, Record
  <2>6. up' \subseteq Process /\ left' \in 0..Most /\ Budget'
    BY <1>16 DEF Crash, Forgets, TypeOK, TableTyped, Budget, Upset, table
  <2> QED
    BY <1>16, <2>1, <2>2, <2>3, <2>4, <2>5, <2>6, Stays DEF Crash, Forgets, TypeOK
<1>17. ASSUME NEW p \in Process, Shutdown(p) PROVE TypeOK' /\ Budget'
  <2>1. NotesTyped'
    BY <1>17 DEF Shutdown, Forgets, TypeOK, Set, NotesTyped
  <2>2. LeasesTyped'
    <3>1. [holder |-> Nobody, left |-> 0] \in [holder : Process \cup {Nobody}, left : 0..Lease]
      OBVIOUS
    <3>2. [b \in Bot |-> IF b \in Releases(p) THEN [holder |-> Nobody, left |-> 0] ELSE lease[b]]
              \in [Bot -> [holder : Process \cup {Nobody}, left : 0..Lease]]
      BY <3>1 DEF TypeOK, LeasesTyped
    <3> QED
      BY <1>17, <3>2 DEF Shutdown, Forgets, TypeOK, LeasesTyped, Set
  <2>3. PassTyped'
    BY <1>17, NeverTyped DEF Shutdown, Forgets, TypeOK, Set, PassTyped, Off, Record
  <2>4. MineTyped'
    BY <1>17 DEF Shutdown, Forgets, TypeOK, Set, MineTyped, Off, Free, Record
  <2>5. ReadsTyped'
    BY <1>17, NeverTyped DEF Shutdown, Forgets, TypeOK, Set, ReadsTyped, Off, Unread, Record
  <2>6. up' \subseteq Process /\ left' \in 0..Most /\ Budget'
    BY <1>17 DEF Shutdown, Forgets, TypeOK, TableTyped, Budget, Upset, table
  <2> QED
    BY <1>17, <2>1, <2>2, <2>3, <2>4, <2>5, <2>6, Stays DEF Shutdown, Forgets, TypeOK
<1>18. ASSUME NEW p \in Process, Restart(p) PROVE TypeOK' /\ Budget'
  <2>1. up' \subseteq Process /\ left' \in 0..Most /\ Budget'
    BY <1>18 DEF Restart, TypeOK, Budget, table
  <2> QED
    BY <1>18, <2>1, Stays DEF Restart, TypeOK
<1>19. CASE UNCHANGED vars
  BY <1>19, Stays DEF TypeOK, Budget, vars, table
<1> QED
  BY <1>1, <1>2, <1>3, <1>4, <1>5, <1>6, <1>7, <1>8, <1>9, <1>10, <1>11, <1>12, <1>13, <1>14, <1>15,
      <1>16, <1>17, <1>18, <1>19 DEF Next, PassStep

-----------------------------------------------------------------------------
(* What a step does to a process *)

\* What a process has of its own is what it was, and its leases are as old.
Same(q) ==
    /\ pc'[q] = pc[q] /\ want'[q] = want[q] /\ todo'[q] = todo[q] /\ took'[q] = took[q]
    /\ run'[q] = run[q] /\ cache'[q] = cache[q] /\ said'[q] = said[q] /\ blank'[q] = blank[q]
Still(q) == Same(q) /\ age'[q] = age[q]

\* A step of one process.
Moves(p) ==
    \/ PassStep(p) \/ ReadFails(p) \/ ClaimFails(p)
    \/ Crash(p) \/ Shutdown(p) \/ Restart(p)
    \/ \E b \in Bot : StartRefused(p, b) \/ WaitEnds(p, b)

(* A process moves nothing but its own. *)
LEMMA Others ==
    ASSUME TypeOK, NEW p \in Process, Moves(p), NEW q \in Process, q # p
    PROVE  Still(q)
<1> USE DEF Still, Same, Set, TypeOK, PassTyped, MineTyped, ReadsTyped, LeasesTyped, pass, mine, reads, leases
<1>1. ASSUME PassBegins(p) PROVE Still(q)
  BY <1>1 DEF PassBegins, Wants
<1>2. ASSUME ReadRows(p) PROVE Still(q)
  BY <1>2 DEF ReadRows, Wants
<1>3. ASSUME ReadFails(p) PROVE Still(q)
  BY <1>3 DEF ReadFails, Wants
<1>4. ASSUME NEW b \in Bot, Claim(p, b) PROVE Still(q)
  BY <1>4 DEF Claim
<1>5. ASSUME Claimed(p) PROVE Still(q)
  BY <1>5 DEF Claimed, Allows
<1>6. ASSUME ClaimFails(p) PROVE Still(q)
  BY <1>6 DEF ClaimFails, Allows
<1>7. ASSUME NEW b \in Bot, StopOne(p, b) PROVE Still(q)
  BY <1>7 DEF StopOne
<1>8. ASSUME NEW b \in Bot, Pass(p, b) PROVE Still(q)
  BY <1>8 DEF Pass
<1>9. ASSUME NEW b \in Bot, StartOne(p, b) PROVE Still(q)
  BY <1>9 DEF StartOne
<1>10. ASSUME NEW b \in Bot, StartRefused(p, b) PROVE Still(q)
  BY <1>10 DEF StartRefused
<1>11. ASSUME NEW b \in Bot, WaitEnds(p, b) PROVE Still(q)
  BY <1>11 DEF WaitEnds
<1>12. ASSUME Crash(p) PROVE Still(q)
  BY <1>12 DEF Crash, Forgets
<1>13. ASSUME Shutdown(p) PROVE Still(q)
  BY <1>13 DEF Shutdown, Forgets
<1>14. ASSUME Restart(p) PROVE Still(q)
  BY <1>14 DEF Restart
<1> QED
  BY <1>1, <1>2, <1>3, <1>4, <1>5, <1>6, <1>7, <1>8, <1>9, <1>10, <1>11, <1>12, <1>13, <1>14,
      Zenon DEF Moves, PassStep

(* An answer of the providers, as its process has it. *)
LEMMA WantsDoes ==
    ASSUME TypeOK, NEW p \in Process, NEW rows, Wants(p, rows)
    PROVE  /\ pc'[p] = "lease" /\ want'[p] = (IF HoldsBack(p, rows) THEN said[p] ELSE rows)
           /\ said'[p] = SaysNow(p, rows) /\ todo'[p] = On(want'[p]) /\ took'[p] = {}
           /\ blank'[p] = IF On(rows) # {} THEN 0 ELSE IF blank[p] = 0 THEN 1 ELSE 2
  BY DEF Wants, Set, TypeOK, PassTyped, ReadsTyped

(* What may be polled, as its process has it. *)
LEMMA AllowsDoes ==
    ASSUME TypeOK, NEW p \in Process, NEW allowed, Allows(p, allowed)
    PROVE  /\ pc'[p] = "act" /\ want'[p] = [b \in Bot |-> IF b \in allowed THEN want[p][b] ELSE 0]
           /\ todo'[p] = allowed /\ took'[p] = {}
  BY DEF Allows, Set, TypeOK, PassTyped

(* The end of a process: nothing of it is left. *)
LEMMA ForgetsDoes ==
    ASSUME TypeOK, NEW p \in Process, Forgets(p)
    PROVE  /\ run'[p] = Off /\ want'[p] = Off /\ said'[p] = Off /\ cache'[p] = Unread /\ blank'[p] = 0
           /\ pc'[p] = "act" /\ todo'[p] = {} /\ took'[p] = {} /\ p \notin up'
  BY DEF Forgets, Set, TypeOK, PassTyped, MineTyped, ReadsTyped

(* A bot started, stopped or passed by, as its process has it. *)
LEMMA RunDoes ==
    ASSUME TypeOK, NEW p \in Process, NEW b \in Bot, NEW record,
           run' = Set(run, p, Set(run[p], b, record))
    PROVE  run'[p][b] = record /\ \A c \in Bot \ {b} : run'[p][c] = run[p][c]
  BY DEF Set, TypeOK, MineTyped

(* A bot asked for, and its lease taken or another's. *)
LEMMA ClaimDoes ==
    ASSUME TypeOK, NEW p \in Process, NEW b \in Bot, Claim(p, b)
    PROVE  /\ pc[p] = "lease" /\ First(p, b) /\ ~Full(p) /\ b \in todo[p]
           /\ todo'[p] = todo[p] \ {b} /\ UNCHANGED <<pc, want, run, cache, said, blank, up>>
           /\ \/ /\ Takes(p, b) /\ took'[p] = took[p] \cup {b}
                 /\ lease'[b] = [holder |-> p, left |-> Lease] /\ age'[p][b] = 0
                 /\ \A c \in Bot \ {b} : lease'[c] = lease[c] /\ age'[p][c] = age[p][c]
              \/ ~Takes(p, b) /\ UNCHANGED <<lease, age, took>>
<1>1. b \in todo[p]
  BY DEF Claim, First, Foremost
<1>2. todo'[p] = todo[p] \ {b}
  BY DEF Claim, Set, TypeOK, PassTyped
<1>3. ASSUME Takes(p, b)
      PROVE  /\ took'[p] = took[p] \cup {b}
             /\ lease'[b] = [holder |-> p, left |-> Lease] /\ age'[p][b] = 0
             /\ \A c \in Bot \ {b} : lease'[c] = lease[c] /\ age'[p][c] = age[p][c]
  <2>1. /\ took' = Set(took, p, took[p] \cup {b})
        /\ lease' = Set(lease, b, [holder |-> p, left |-> Lease])
        /\ age' = Set(age, p, Set(age[p], b, 0))
    BY <1>3 DEF Claim
  <2>2. took'[p] = took[p] \cup {b}
    BY <2>1 DEF Set, TypeOK, PassTyped
  <2>3. lease'[b] = [holder |-> p, left |-> Lease] /\ \A c \in Bot \ {b} : lease'[c] = lease[c]
    BY <2>1 DEF Set, TypeOK, LeasesTyped
  <2>4. age'[p][b] = 0 /\ \A c \in Bot \ {b} : age'[p][c] = age[p][c]
    BY <2>1 DEF Set, TypeOK, LeasesTyped
  <2> QED
    BY <2>2, <2>3, <2>4
<1> QED
  BY <1>1, <1>2, <1>3 DEF Claim, mine, reads

(* A lease moves by a claim, by the shutdown of its holder and by the clock. *)
LEMMA LeaseMoves ==
    ASSUME TypeOK, NEW p \in Process, Moves(p), NEW c \in Bot
    PROVE  \/ lease'[c] = lease[c]
           \/ /\ Claim(p, c) /\ Takes(p, c)
              /\ lease'[c] = [holder |-> p, left |-> Lease] /\ age'[p][c] = 0
           \/ lease[c].holder = p /\ p \notin up' /\ lease'[c].holder = Nobody
<1> USE DEF TypeOK, LeasesTyped, leases, Set
<1>1. ASSUME NEW b \in Bot, Claim(p, b)
      PROVE  \/ lease'[c] = lease[c]
             \/ /\ Claim(p, c) /\ Takes(p, c)
                /\ lease'[c] = [holder |-> p, left |-> Lease] /\ age'[p][c] = 0
  <2>1. CASE b = c
    BY <1>1, <2>1, ClaimDoes
  <2>2. CASE b # c
    BY <1>1, <2>2, ClaimDoes
  <2> QED
    BY <2>1, <2>2
<1>2. ASSUME Shutdown(p)
      PROVE  lease'[c] = lease[c] \/ (lease[c].holder = p /\ p \notin up' /\ lease'[c].holder = Nobody)
  BY <1>2 DEF Shutdown, Forgets, Releases
<1>3. ASSUME \/ PassBegins(p) \/ ReadRows(p) \/ ReadFails(p) \/ Claimed(p) \/ ClaimFails(p)
             \/ Crash(p) \/ Restart(p)
      PROVE  lease' = lease
  BY <1>3 DEF PassBegins, ReadRows, ReadFails, Claimed, ClaimFails, Crash, Restart
<1>4. ASSUME NEW b \in Bot,
             StopOne(p, b) \/ Pass(p, b) \/ StartOne(p, b) \/ StartRefused(p, b) \/ WaitEnds(p, b)
      PROVE  lease' = lease
  BY <1>4 DEF StopOne, Pass, StartOne, StartRefused, WaitEnds
<1> QED
  BY <1>1, <1>2, <1>3, <1>4, Zenon DEF Moves, PassStep

-----------------------------------------------------------------------------
(* What a process polls or is about to is covered by a lease it took.      *)

LEMMA CoversStep ==
    ASSUME TypeOK, TypeOK', Covers, \A p \in Process : Walk(p), [Next]_vars
    PROVE  Covers'
<1> SUFFICES ASSUME NEW q \in Process, NEW c \in Bot, Polls(q, c)'
             PROVE  Covered(q, c)'
  BY DEF Covers
<1>1. /\ Polls(q, c) => Covered(q, c)
      /\ age[q][c] \in 0..Lease /\ age'[q][c] \in 0..Lease
      /\ lease[c].left \in 0..Lease /\ lease[c].holder \in Process \cup {Nobody}
  <2>1. Polls(q, c) => Covered(q, c)
    BY DEF Covers
  <2>2. age[q][c] \in 0..Lease /\ lease[c].left \in 0..Lease /\ lease[c].holder \in Process \cup {Nobody}
    <3>1. lease[c] \in [holder : Process \cup {Nobody}, left : 0..Lease]
      BY DEF TypeOK, LeasesTyped
    <3>2. age[q][c] \in 0..Lease
      BY DEF TypeOK, LeasesTyped
    <3> QED
      BY <3>1, <3>2
  <2>3. age'[q][c] \in 0..Lease
    BY DEF TypeOK, LeasesTyped
  <2> QED
    BY <2>1, <2>2, <2>3
<1>2. ASSUME UNCHANGED <<leases, pass, mine>> PROVE Covered(q, c)'
  BY <1>1, <1>2 DEF Polls, Covered, leases, pass, mine
<1>3. ASSUME Tick PROVE Covered(q, c)'
  <2>1. /\ lease'[c].left = (IF lease[c].left = 0 THEN 0 ELSE lease[c].left - 1)
        /\ lease'[c].holder = lease[c].holder
        /\ age'[q][c] = (IF age[q][c] = Lease THEN Lease ELSE age[q][c] + 1)
    BY <1>3 DEF Tick, TypeOK, LeasesTyped
  <2>2. Polls(q, c)
    BY <1>3 DEF Tick, Polls, pass, mine
  <2> QED
    <3>1. Covered(q, c)
      BY <1>1, <2>2
    <3>2. age'[q][c] < Lease => /\ age'[q][c] = age[q][c] + 1 /\ age[q][c] < Lease
                               /\ lease[c].left = Lease - age[q][c]
      BY <1>1, <2>1, <3>1 DEF Covered
    <3>3. age'[q][c] < Lease => lease'[c].left = lease[c].left - 1
      BY <1>1, <2>1, <3>2
    <3> QED
      <4>1. ASSUME age'[q][c] < Lease PROVE lease'[c].left + age'[q][c] = Lease
        <5>1. /\ age[q][c] \in Nat /\ lease[c].left = Lease - age[q][c]
              /\ age'[q][c] = age[q][c] + 1 /\ lease'[c].left = lease[c].left - 1
          BY <1>1, <3>2, <3>3, <4>1
        <5> QED
          BY <5>1
      <4>2. ASSUME age'[q][c] < Lease PROVE lease'[c].holder = q
        BY <2>1, <3>1, <3>2, <4>2 DEF Covered
      <4> QED
        BY <4>1, <4>2 DEF Covered
<1>4. ASSUME NEW p \in Process, Moves(p), p # q PROVE Covered(q, c)'
  <2>1. Covered(q, c) /\ age'[q][c] = age[q][c]
    BY <1>1, <1>4, Others DEF Still, Same, Polls
  <2>2. CASE lease'[c] = lease[c]
    BY <2>1, <2>2 DEF Covered
  <2>3. CASE Takes(p, c)
    BY <1>1, <1>4, <2>1, <2>3 DEF Covered, Takes
  <2>4. CASE lease[c].holder = p
    BY <1>1, <1>4, <2>1, <2>4 DEF Covered
  <2> QED
    BY <1>4, <2>2, <2>3, <2>4, LeaseMoves
<1>5. ASSUME Moves(q) PROVE Covered(q, c)'
  <2>1. ASSUME Covered(q, c), lease'[c] = lease[c], age'[q][c] = age[q][c] PROVE Covered(q, c)'
    BY <2>1 DEF Covered
  <2>2. ASSUME UNCHANGED <<lease, age>>, Polls(q, c) PROVE Covered(q, c)'
    BY <1>1, <2>1, <2>2
  <2>3. CASE PassBegins(q) \/ ReadRows(q) \/ ReadFails(q)
    <3>1. UNCHANGED <<lease, age, run>>
      BY <2>3 DEF PassBegins, ReadRows, ReadFails, leases, mine
    <3>2. CASE \E rows : Wants(q, rows)
      <4>1. pc'[q] = "lease" /\ took'[q] = {}
        BY <3>2, WantsDoes
      <4> QED
        BY <2>2, <3>1, <4>1 DEF Polls
    <3>3. CASE pc[q] = "rows" /\ UNCHANGED <<todo, took>>
      BY <2>2, <3>1, <3>3 DEF Polls, Walk
    <3>4. CASE pc' = Set(pc, q, "rows") /\ UNCHANGED took
      <4>1. pc'[q] = "rows"
        BY <3>4 DEF Set, TypeOK, PassTyped
      <4> QED
        BY <2>2, <3>1, <3>4, <4>1 DEF Polls
    <3> QED
      BY <2>3, <3>2, <3>3, <3>4, Zenon DEF PassBegins, ReadRows, ReadFails
  <2>4. ASSUME NEW b \in Bot, Claim(q, b) PROVE Covered(q, c)'
    <3>1. /\ pc[q] = "lease" /\ UNCHANGED <<pc, run>>
          /\ \/ /\ lease'[b] = [holder |-> q, left |-> Lease] /\ age'[q][b] = 0
                /\ c # b => lease'[c] = lease[c] /\ age'[q][c] = age[q][c] /\ took'[q] = took[q] \cup {b}
             \/ UNCHANGED <<lease, age, took>>
      BY <2>4, ClaimDoes
    <3>2. CASE UNCHANGED <<lease, age, took>>
      BY <2>2, <3>1, <3>2 DEF Polls
    <3>3. CASE /\ c # b /\ lease'[c] = lease[c] /\ age'[q][c] = age[q][c]
               /\ took'[q] = took[q] \cup {b}
      BY <1>1, <2>1, <3>1, <3>3 DEF Polls
    <3>4. CASE c = b /\ lease'[b] = [holder |-> q, left |-> Lease] /\ age'[q][b] = 0
      BY <3>4 DEF Covered
    <3> QED
      BY <3>1, <3>2, <3>3, <3>4
  <2>5. CASE Claimed(q)
    <3>1. UNCHANGED <<lease, age, run>> /\ todo'[q] = took[q] /\ took'[q] = {}
      BY <2>5, AllowsDoes DEF Claimed
    <3> QED
      BY <2>2, <3>1 DEF Polls
  <2>6. CASE ClaimFails(q)
    <3>1. UNCHANGED <<lease, age, run>> /\ todo'[q] = On(want[q]) \cap On(run[q]) /\ took'[q] = {}
      BY <2>6, AllowsDoes DEF ClaimFails
    <3> QED
      BY <2>2, <3>1 DEF Polls, On
  <2>7. ASSUME NEW b \in Bot, StopOne(q, b) \/ Pass(q, b) \/ StartOne(q, b) \/ StartRefused(q, b)
        PROVE  Covered(q, c)'
    <3>1. UNCHANGED <<lease, age, pc, took>> /\ todo'[q] \subseteq todo[q]
      BY <2>7 DEF StopOne, Pass, StartOne, StartRefused, leases, pass, Set, TypeOK, PassTyped
    <3>2. pc[q] = "act"
      BY <2>7 DEF StopOne, Pass, StartOne, StartRefused, Coming
    <3>3. run'[q][c] # 0 => run[q][c] # 0 \/ c \in todo[q]
      <4>1. ASSUME NEW record, run' = Set(run, q, Set(run[q], b, record)), record = 0 \/ b \in todo[q]
            PROVE  run'[q][c] # 0 => run[q][c] # 0 \/ c \in todo[q]
        <5>1. run'[q][b] = record /\ \A d \in Bot \ {b} : run'[q][d] = run[q][d]
          BY <2>7, <4>1, RunDoes
        <5> QED
          BY <4>1, <5>1
      <4>2. CASE UNCHANGED run
        BY <4>2
      <4> QED
        BY <2>7, <4>1, <4>2 DEF StopOne, Pass, StartOne, StartRefused, Coming, Foremost
    <3> QED
      BY <2>2, <3>1, <3>2, <3>3 DEF Polls
  <2>8. CASE Crash(q) \/ Shutdown(q)
    <3>1. run'[q] = Off /\ todo'[q] = {} /\ took'[q] = {}
      BY <2>8, ForgetsDoes DEF Crash, Shutdown
    <3> QED
      BY <3>1 DEF Polls, Off
  <2>9. CASE Restart(q) \/ \E b \in Bot : WaitEnds(q, b)
    BY <2>2, <2>9 DEF Restart, WaitEnds, Polls, leases, pass, mine
  <2> QED
    BY <1>5, <2>3, <2>4, <2>5, <2>6, <2>7, <2>8, <2>9 DEF Moves, PassStep
<1> QED
  <2>1. CASE (\E b \in Bot, r \in Record : Save(b, r)) \/ Commit \/ SaveOther \/ UNCHANGED vars
    BY <1>2, <2>1 DEF Save, Commit, SaveOther, vars
  <2> QED
    BY <1>3, <1>4, <1>5, <2>1 DEF Next, Moves

-----------------------------------------------------------------------------
(* The sets a pass works on, and how large they are.                       *)

(* A bot the pass comes to: its process's own values, one bot aside. *)
LEMMA ComingDoes ==
    ASSUME TypeOK, NEW p \in Process, NEW b \in Bot,
           StopOne(p, b) \/ Pass(p, b) \/ StartOne(p, b) \/ StartRefused(p, b)
    PROVE  /\ pc[p] = "act" /\ todo'[p] \subseteq todo[p]
           /\ UNCHANGED <<table, leases, pc, want, took, cache, said, blank, up>>
           /\ run'[p][b] \in {0, run[p][b]} \/ (run'[p][b] = want[p][b] /\ b \in todo[p] /\ Gone(p) = {})
           /\ \A c \in Bot \ {b} : run'[p][c] = run[p][c]
<1>1. pc[p] = "act" /\ UNCHANGED <<table, leases, pc, want, took, cache, said, blank, up>>
  BY DEF StopOne, Pass, StartOne, StartRefused, Coming, pass, reads
<1>2. todo'[p] \subseteq todo[p]
  BY DEF StopOne, Pass, StartOne, StartRefused, pass, Set, TypeOK, PassTyped
<1>3. \/ UNCHANGED run \/ run' = Set(run, p, Set(run[p], b, 0))
      \/ run' = Set(run, p, Set(run[p], b, want[p][b])) /\ b \in todo[p] /\ Gone(p) = {}
  BY DEF StopOne, Pass, StartOne, StartRefused, Coming, Foremost
<1>4. \/ UNCHANGED run
      \/ run'[p][b] = 0 /\ \A c \in Bot \ {b} : run'[p][c] = run[p][c]
      \/ /\ run'[p][b] = want[p][b] /\ b \in todo[p] /\ Gone(p) = {}
         /\ \A c \in Bot \ {b} : run'[p][c] = run[p][c]
  <2>1. ASSUME NEW record, run' = Set(run, p, Set(run[p], b, record))
        PROVE  run'[p][b] = record /\ \A c \in Bot \ {b} : run'[p][c] = run[p][c]
    BY <2>1, RunDoes
  <2> QED
    BY <1>3, <2>1
<1> QED
  BY <1>1, <1>2, <1>4

LEMMA WalkStep ==
    ASSUME TypeOK, NEW q \in Process, Walk(q), [Next]_vars
    PROVE  Walk(q)'
<1>1. ASSUME UNCHANGED <<pc[q], want[q], todo[q], took[q], run[q]>> PROVE Walk(q)'
  BY <1>1 DEF Walk, On
<1>2. CASE (\E b \in Bot, r \in Record : Save(b, r)) \/ Commit \/ SaveOther \/ Tick \/ UNCHANGED vars
  BY <1>1, <1>2 DEF Save, Commit, SaveOther, Tick, vars, pass, mine
<1>3. ASSUME NEW p \in Process, Moves(p), p # q PROVE Walk(q)'
  BY <1>1, <1>3, Others DEF Still, Same
<1>4. ASSUME NEW rows, Wants(q, rows) PROVE Walk(q)'
  <2>1. pc'[q] = "lease" /\ todo'[q] = On(want'[q]) /\ took'[q] = {}
    BY <1>4, WantsDoes
  <2> QED
    BY <2>1 DEF Walk
<1>5. ASSUME pc[q] \in {"act", "rows"}, todo[q] = {}, UNCHANGED <<todo, took>>,
             pc'[q] \in {"act", "rows"}
      PROVE  Walk(q)'
  BY <1>5 DEF Walk
<1>6. CASE PassBegins(q)
  <2>1. CASE pc' = Set(pc, q, "rows") /\ UNCHANGED <<todo, took>>
    <3>1. pc'[q] = "rows"
      BY <2>1 DEF Set, TypeOK, PassTyped
    <3> QED
      BY <1>5, <1>6, <2>1, <3>1 DEF PassBegins, Idle
  <2> QED
    BY <1>4, <1>6, <2>1, Zenon DEF PassBegins
<1>7. CASE ReadRows(q) \/ ReadFails(q)
  <2>1. CASE pc[q] = "rows" /\ pc' = Set(pc, q, "act") /\ UNCHANGED <<todo, took>>
    <3>1. pc'[q] = "act"
      BY <2>1 DEF Set, TypeOK, PassTyped
    <3> QED
      BY <1>5, <2>1, <3>1 DEF Walk
  <2> QED
    BY <1>4, <1>7, <2>1, Zenon DEF ReadRows, ReadFails
<1>8. ASSUME NEW b \in Bot, Claim(q, b) PROVE Walk(q)'
  <2>1. /\ pc[q] = "lease" /\ First(q, b) /\ b \in todo[q]
        /\ todo'[q] = todo[q] \ {b} /\ UNCHANGED <<pc, want, run>>
        /\ took'[q] = took[q] \cup {b} \/ took'[q] = took[q]
    BY <1>8, ClaimDoes
  <2>2. todo[q] \cap On(run[q]) # {} => b \in On(run[q])
    BY <2>1 DEF First, Foremost
  <2> QED
    BY <2>1, <2>2 DEF Walk, On
<1>9. CASE Claimed(q)
  <2>1. /\ pc[q] = "lease" /\ pc'[q] = "act" /\ todo'[q] = took[q] /\ took'[q] = {}
        /\ want'[q] = [b \in Bot |-> IF b \in took[q] THEN want[q][b] ELSE 0]
    BY <1>9, AllowsDoes DEF Claimed
  <2> QED
    BY <2>1 DEF Walk, On
<1>10. CASE ClaimFails(q)
  <2>1. /\ pc'[q] = "act" /\ todo'[q] = On(want[q]) \cap On(run[q]) /\ took'[q] = {}
        /\ want'[q] = [b \in Bot |-> IF b \in On(want[q]) \cap On(run[q]) THEN want[q][b] ELSE 0]
    BY <1>10, AllowsDoes DEF ClaimFails
  <2> QED
    BY <2>1 DEF Walk, On
<1>11. ASSUME NEW b \in Bot, StopOne(q, b) \/ Pass(q, b) \/ StartOne(q, b) \/ StartRefused(q, b)
       PROVE  Walk(q)'
  <2>1. pc[q] = "act" /\ todo'[q] \subseteq todo[q] /\ UNCHANGED <<pc, want, took>>
    BY <1>11, ComingDoes
  <2> QED
    BY <2>1 DEF Walk, On
<1>12. CASE Crash(q) \/ Shutdown(q)
  <2>1. pc'[q] = "act" /\ todo'[q] = {} /\ took'[q] = {}
    BY <1>12, ForgetsDoes DEF Crash, Shutdown
  <2> QED
    BY <2>1 DEF Walk
<1>13. CASE Restart(q) \/ \E b \in Bot : WaitEnds(q, b)
  BY <1>1, <1>13 DEF Restart, WaitEnds, pass, mine
<1> QED
  BY <1>2, <1>3, <1>6, <1>7, <1>8, <1>9, <1>10, <1>11, <1>12, <1>13, Zenon
     DEF Next, Moves, PassStep

LEMMA FiniteBots == \A S \in SUBSET Bot : IsFiniteSet(S)
<1>1. IsFiniteSet(Bot)
  <2>1. 1 \in Int /\ Bots \in Int /\ Bot = 1..Bots
    OBVIOUS
  <2> QED
    BY <2>1, FS_Interval
<1> QED
  BY <1>1, FS_Subset

(* What is part of few enough bots is few enough. *)
LEMMA FewerFit ==
    ASSUME NEW S \in SUBSET Bot, NEW T \in SUBSET S, Fits(S)
    PROVE  Fits(T)
<1>1. IsFiniteSet(S)
  BY FiniteBots
<1>2. Cardinality(T) <= Cardinality(S) /\ Cardinality(S) \in Nat /\ Cardinality(T) \in Nat
  BY <1>1, FS_Subset, FS_CardinalityType
<1> QED
  BY <1>2 DEF Fits

LEMMA NoneFit == Fits({})
  BY FS_EmptySet DEF Fits

LEMMA RoomStep ==
    ASSUME TypeOK, NEW q \in Process, Walk(q), Room(q), [Next]_vars
    PROVE  Room(q)'
<1>1. ASSUME UNCHANGED <<pc[q], want[q], took[q], run[q]>> PROVE Room(q)'
  BY <1>1 DEF Room, On, Fits
<1>2. CASE (\E b \in Bot, r \in Record : Save(b, r)) \/ Commit \/ SaveOther \/ Tick \/ UNCHANGED vars
  BY <1>1, <1>2 DEF Save, Commit, SaveOther, Tick, vars, pass, mine
<1>3. ASSUME NEW p \in Process, Moves(p), p # q PROVE Room(q)'
  BY <1>1, <1>3, Others DEF Still, Same
<1>4. ASSUME Fits(took'[q]), Fits(On(run'[q])), pc'[q] = "act" => Fits(On(want'[q])) PROVE Room(q)'
  BY <1>4 DEF Room, Fits, On
<1>5. /\ took[q] \in SUBSET Bot /\ On(run[q]) \in SUBSET Bot /\ On(want[q]) \in SUBSET Bot
      /\ Fits(took[q]) /\ Fits(On(run[q])) /\ (pc[q] = "act" => Fits(On(want[q])))
  BY DEF Room, On, TypeOK, PassTyped
<1>6. ASSUME NEW rows, Wants(q, rows), run' = run PROVE Room(q)'
  <2>1. pc'[q] = "lease" /\ took'[q] = {}
    BY <1>6, WantsDoes
  <2> QED
    BY <1>4, <1>5, <1>6, <2>1, NoneFit
<1>7. CASE PassBegins(q)
  <2>1. CASE pc' = Set(pc, q, "rows") /\ UNCHANGED took
    <3>1. pc'[q] = "rows"
      BY <2>1 DEF Set, TypeOK, PassTyped
    <3> QED
      BY <1>4, <1>5, <1>7, <2>1, <3>1 DEF PassBegins, mine
  <2>2. run' = run
    BY <1>7 DEF PassBegins, mine
  <2> QED
    BY <1>6, <1>7, <2>1, <2>2, Zenon DEF PassBegins
<1>8. CASE ReadRows(q) \/ ReadFails(q)
  <2>1. run' = run
    BY <1>8 DEF ReadRows, ReadFails, mine
  <2>2. CASE want' = Set(want, q, run[q]) /\ UNCHANGED took
    <3>1. want'[q] = run[q]
      BY <2>2 DEF Set, TypeOK, PassTyped
    <3> QED
      BY <1>4, <1>5, <2>1, <2>2, <3>1
  <2> QED
    BY <1>6, <1>8, <2>1, <2>2, Zenon DEF ReadRows, ReadFails
<1>9. ASSUME NEW b \in Bot, Claim(q, b) PROVE Room(q)'
  <2>1. /\ pc[q] = "lease" /\ ~Full(q) /\ UNCHANGED <<pc, want, run>>
        /\ took'[q] = took[q] \cup {b} \/ took'[q] = took[q]
    BY <1>9, ClaimDoes
  <2>2. Fits(took[q] \cup {b})
    <3>1. IsFiniteSet(took[q])
      BY <1>5, FiniteBots
    <3>2. Cardinality(took[q]) \in Nat
      BY <3>1, FS_CardinalityType
    <3>3. Cardinality(took[q] \cup {b}) \in {Cardinality(took[q]), Cardinality(took[q]) + 1}
      BY <3>1, FS_AddElement
    <3> QED
      BY <2>1, <3>2, <3>3 DEF Fits, Full
  <2> QED
    BY <1>4, <1>5, <2>1, <2>2
<1>10. CASE Claimed(q)
  <2>1. /\ run' = run /\ took'[q] = {}
        /\ want'[q] = [b \in Bot |-> IF b \in took[q] THEN want[q][b] ELSE 0]
    BY <1>10, AllowsDoes DEF Claimed
  <2>2. On(want'[q]) \in SUBSET took[q]
    BY <2>1 DEF On
  <2> QED
    BY <1>4, <1>5, <2>1, <2>2, NoneFit, FewerFit
<1>11. CASE ClaimFails(q)
  <2>1. /\ run' = run /\ took'[q] = {}
        /\ want'[q] = [b \in Bot |-> IF b \in On(want[q]) \cap On(run[q]) THEN want[q][b] ELSE 0]
    BY <1>11, AllowsDoes DEF ClaimFails
  <2>2. On(want'[q]) \in SUBSET On(run[q])
    BY <2>1 DEF On
  <2> QED
    BY <1>4, <1>5, <2>1, <2>2, NoneFit, FewerFit
<1>12. ASSUME NEW b \in Bot, StopOne(q, b) \/ Pass(q, b) \/ StartOne(q, b) \/ StartRefused(q, b)
       PROVE  Room(q)'
  <2>1. /\ pc[q] = "act" /\ UNCHANGED <<pc, want, took>>
        /\ run'[q][b] \in {0, run[q][b]} \/ (run'[q][b] = want[q][b] /\ b \in todo[q] /\ Gone(q) = {})
        /\ \A c \in Bot \ {b} : run'[q][c] = run[q][c]
    BY <1>12, ComingDoes
  <2>2. CASE run'[q][b] \in {0, run[q][b]}
    <3>1. On(run'[q]) \in SUBSET On(run[q])
      BY <2>1, <2>2 DEF On
    <3> QED
      BY <1>4, <1>5, <2>1, <3>1, FewerFit
  <2>3. CASE run'[q][b] = want[q][b] /\ b \in todo[q] /\ Gone(q) = {}
    <3>1. On(run'[q]) \in SUBSET On(want[q])
      BY <2>1, <2>3 DEF Gone, Walk, On
    <3> QED
      BY <1>4, <1>5, <2>1, <3>1, FewerFit
  <2> QED
    BY <2>1, <2>2, <2>3
<1>13. CASE Crash(q) \/ Shutdown(q)
  <2>1. run'[q] = Off /\ want'[q] = Off /\ took'[q] = {}
    BY <1>13, ForgetsDoes DEF Crash, Shutdown
  <2>2. On(run'[q]) = {} /\ On(want'[q]) = {}
    BY <2>1 DEF On, Off
  <2> QED
    BY <1>4, <2>1, <2>2, NoneFit
<1>14. CASE Restart(q) \/ \E b \in Bot : WaitEnds(q, b)
  BY <1>1, <1>14 DEF Restart, WaitEnds, pass, mine
<1> QED
  BY <1>2, <1>3, <1>7, <1>8, <1>9, <1>10, <1>11, <1>12, <1>13, <1>14, Zenon
     DEF Next, Moves, PassStep

-----------------------------------------------------------------------------
(* A bot whose row was never edited.                                       *)

(* A row that was never edited was not, and is what it was. *)
LEMMA Unedited ==
    ASSUME TypeOK, NEW c \in Bot, [Next]_vars, stamp'[c] = 0
    PROVE  stamp[c] = 0 /\ row'[c] = row[c]
<1>1. CASE Commit
  <2>1. PICK s \in saving : row' = Set(row, s.bot, s.record) /\ stamp' = Set(stamp, s.bot, s.at)
    BY <1>1 DEF Commit
  <2>2. s.at # 0 /\ s.bot \in Bot
    BY DEF TypeOK, TableTyped
  <2>3. c # s.bot
    BY <2>1, <2>2 DEF Set, TypeOK, TableTyped
  <2> QED
    BY <2>1, <2>3 DEF Set, TypeOK, TableTyped
<1>2. CASE (\E b \in Bot, r \in Record : Save(b, r)) \/ SaveOther \/ Tick \/ UNCHANGED vars
  BY <1>2 DEF Save, SaveOther, Tick, vars, table
<1>3. ASSUME NEW p \in Process, Moves(p) PROVE UNCHANGED <<row, stamp>>
  <2>1. CASE PassBegins(p) \/ ReadRows(p) \/ ReadFails(p) \/ Claimed(p) \/ ClaimFails(p)
             \/ Crash(p) \/ Shutdown(p) \/ Restart(p)
    BY <2>1 DEF PassBegins, ReadRows, ReadFails, Claimed, ClaimFails, Crash, Shutdown, Forgets,
                Restart, table
  <2>2. CASE \E b \in Bot : Claim(p, b) \/ StopOne(p, b) \/ Pass(p, b) \/ StartOne(p, b)
                           \/ StartRefused(p, b) \/ WaitEnds(p, b)
    BY <2>2 DEF Claim, StopOne, Pass, StartOne, StartRefused, WaitEnds, table
  <2> QED
    BY <1>3, <2>1, <2>2, Zenon DEF Moves, PassStep
<1> QED
  BY <1>1, <1>2, <1>3, Zenon DEF Next, Moves

(* An answer that has this bot as its row is, or names no bot at all. *)
LEMMA WantsSteady ==
    ASSUME TypeOK, NEW q \in Process, NEW c \in Bot, Steady(q, c), NEW rows, Wants(q, rows),
           rows \in [Bot -> Record], rows = Off \/ rows[c] = row[c], row'[c] = row[c], run' = run,
           cache'[q].known => cache'[q].rows[c] = row[c]
    PROVE  Steady(q, c)'
<1>1. /\ pc'[q] = "lease" /\ want'[q] = (IF HoldsBack(q, rows) THEN said[q] ELSE rows)
      /\ said'[q] = (IF HoldsBack(q, rows) THEN Off ELSE rows) /\ todo'[q] = On(want'[q])
      /\ blank'[q] = (IF On(rows) # {} THEN 0 ELSE IF blank[q] = 0 THEN 1 ELSE 2)
  BY WantsDoes DEF SaysNow
<1>2. Off[c] = 0 /\ On(Off) = {}
  BY DEF Off, On
<1>3. {want'[q][c], run'[q][c], said'[q][c]} \subseteq {0, row'[c]}
  BY <1>1, <1>2 DEF Steady
<1>4. ASSUME blank'[q] = 0 PROVE said'[q][c] = row'[c]
  <2>1. On(rows) # {}
    BY <1>1, <1>4
  <2> QED
    BY <1>1, <1>2, <2>1 DEF HoldsBack
<1>5. ASSUME run'[q][c] # 0, blank'[q] # 2 PROVE want'[q][c] # 0
  <2>1. CASE On(rows) # {}
    BY <1>1, <1>2, <1>5, <2>1 DEF HoldsBack, Steady
  <2>2. CASE On(rows) = {}
    <3>1. blank[q] = 0 /\ said[q][c] = run[q][c]
      BY <1>1, <1>5, <2>2 DEF Steady
    <3>2. HoldsBack(q, rows)
      BY <1>5, <2>2, <3>1 DEF HoldsBack, On
    <3> QED
      BY <1>1, <1>5, <3>1, <3>2
  <2> QED
    BY <2>1, <2>2
<1>6. ASSUME run'[q][c] # 0, blank'[q] # 2 PROVE c \in todo'[q]
  BY <1>1, <1>5, <1>6 DEF On
<1>7. cache'[q].known => cache'[q].rows[c] = row'[c]
  OBVIOUS
<1> QED
  BY <1>1, <1>3, <1>4, <1>5, <1>6, <1>7 DEF Steady

(* More than a full process may hold is not held. *)
LEMMA NotFull ==
    ASSUME TypeOK, NEW q \in Process, Walk(q), Room(q), Full(q), pc[q] = "lease",
           NEW c \in todo[q], c \in On(run[q])
    PROVE  FALSE
<1>1. took[q] \in SUBSET On(run[q]) /\ c \notin took[q]
  BY DEF Walk
<1>2. IsFiniteSet(On(run[q])) /\ IsFiniteSet(took[q])
  BY FiniteBots DEF TypeOK, PassTyped, On
<1>3. Cardinality(took[q] \cup {c}) = Cardinality(took[q]) + 1
  BY <1>1, <1>2, FS_AddElement
<1>4. Cardinality(took[q] \cup {c}) <= Cardinality(On(run[q]))
  BY <1>1, <1>2, FS_Subset
<1>5. Cardinality(On(run[q])) \in Nat /\ Cardinality(took[q]) \in Nat
  BY <1>2, FS_CardinalityType
<1> QED
  BY <1>3, <1>4, <1>5 DEF Room, Fits, Full

LEMMA SteadyStep ==
    ASSUME TypeOK, NEW q \in Process, NEW c \in Bot, Walk(q), Room(q), Steady(q, c), [Next]_vars,
           stamp'[c] = 0
    PROVE  Steady(q, c)'
<1>0. row'[c] = row[c]
  BY Unedited
<1>1. ASSUME Same(q), lease[c].holder # q => lease'[c].holder # q PROVE Steady(q, c)'
  BY <1>0, <1>1 DEF Steady, Still, Same
<1>2. CASE (\E b \in Bot, r \in Record : Save(b, r)) \/ Commit \/ SaveOther \/ UNCHANGED vars
  <2>1. UNCHANGED <<leases, pass, mine, reads>>
    BY <1>2 DEF Save, Commit, SaveOther, vars
  <2> QED
    BY <1>1, <2>1 DEF leases, pass, mine, reads, Still, Same
<1>3. CASE Tick
  <2>1. lease'[c].holder = lease[c].holder
    BY <1>3 DEF Tick, TypeOK, LeasesTyped
  <2>2. Same(q)
    BY <1>3 DEF Tick, pass, mine, reads, Same
  <2> QED
    BY <1>1, <2>1, <2>2
<1>4. ASSUME NEW p \in Process, Moves(p), p # q PROVE Steady(q, c)'
  <2>1. lease[c].holder # q => lease'[c].holder # q
    <3>1. \/ lease'[c] = lease[c] \/ lease'[c] = [holder |-> p, left |-> Lease]
          \/ lease'[c].holder = Nobody
      BY <1>4, LeaseMoves, Zenon
    <3> QED
      BY <1>4, <3>1
  <2> QED
    BY <1>1, <1>4, <2>1, Others DEF Still
<1>5. CASE PassBegins(q)
  <2>1. run' = run /\ cache' = cache
    BY <1>5 DEF PassBegins, mine
  <2>2. ASSUME cache[q].known, Wants(q, cache[q].rows) PROVE Steady(q, c)'
    <3>1. cache[q].rows \in [Bot -> Record] /\ cache[q].rows[c] = row[c]
      BY <2>2 DEF Steady, TypeOK, ReadsTyped
    <3> QED
      BY <1>0, <2>1, <2>2, <3>1, WantsSteady
  <2>3. CASE pc' = Set(pc, q, "rows") /\ UNCHANGED <<want, todo, took, said, blank>>
    <3>1. pc'[q] = "rows"
      BY <2>3 DEF Set, TypeOK, PassTyped
    <3> QED
      BY <1>0, <2>1, <2>3, <3>1 DEF Steady
  <2> QED
    BY <1>5, <2>2, <2>3, Zenon DEF PassBegins
<1>6. CASE ReadRows(q)
  <2>1. /\ Wants(q, row) /\ run' = run /\ row \in [Bot -> Record]
        /\ cache' = Set(cache, q, [known |-> TRUE, mark |-> mark[q], rows |-> row])
    BY <1>6 DEF ReadRows, mine, TypeOK, TableTyped
  <2>2. cache'[q].rows = row
    BY <2>1 DEF Set, TypeOK, ReadsTyped
  <2> QED
    BY <1>0, <2>1, <2>2, WantsSteady
<1>7. CASE ReadFails(q)
  <2>1. run' = run
    BY <1>7 DEF ReadFails, mine
  <2>2. ASSUME cache' = Set(cache, q, Unread), Wants(q, Off) PROVE Steady(q, c)'
    <3>1. ~cache'[q].known
      BY <2>2 DEF Set, Unread, TypeOK, ReadsTyped
    <3>2. Off \in [Bot -> Record]
      BY DEF Off, Record
    <3> QED
      BY <1>0, <2>1, <2>2, <3>1, <3>2, WantsSteady
  <2>3. CASE pc' = Set(pc, q, "act") /\ want' = Set(want, q, run[q]) /\ UNCHANGED <<todo, took, reads>>
    <3>1. pc'[q] = "act" /\ want'[q] = run[q]
      BY <2>3 DEF Set, TypeOK, PassTyped
    <3> QED
      BY <1>0, <2>1, <2>3, <3>1 DEF Steady, reads
  <2> QED
    BY <1>7, <2>2, <2>3, Zenon DEF ReadFails
<1>8. ASSUME NEW b \in Bot, Claim(q, b) PROVE Steady(q, c)'
  <2>1. /\ pc[q] = "lease" /\ todo'[q] = todo[q] \ {b}
        /\ UNCHANGED <<pc, want, run, cache, said, blank, up>>
    BY <1>8, ClaimDoes
  <2>2. \/ took'[q] = took[q] \cup {b} /\ \A d \in Bot \ {b} : lease'[d] = lease[d]
        \/ ~Takes(q, b) /\ UNCHANGED <<lease, age, took>>
    <3>1. CASE Takes(q, b)
      <4>1. took' = Set(took, q, took[q] \cup {b}) /\ lease' = Set(lease, b, [holder |-> q, left |-> Lease])
        BY <1>8, <3>1 DEF Claim
      <4>2. took'[q] = took[q] \cup {b}
        BY <4>1 DEF Set, TypeOK, PassTyped
      <4>3. \A d \in Bot \ {b} : lease'[d] = lease[d]
        BY <4>1 DEF Set, TypeOK, LeasesTyped
      <4> QED
        BY <4>2, <4>3
    <3>2. CASE ~Takes(q, b)
      BY <1>8, <3>2 DEF Claim
    <3> QED
      BY <3>1, <3>2
  <2>3. ASSUME c \in todo[q] \cup took[q] \/ lease[c].holder # q
        PROVE  c \in todo'[q] \cup took'[q] \/ lease'[c].holder # q
    <3>1. CASE b = c
      BY <2>1, <2>2, <2>3, <3>1 DEF Takes
    <3>2. CASE b # c
      BY <2>1, <2>2, <2>3, <3>2
    <3> QED
      BY <3>1, <3>2
  <2> QED
    BY <1>0, <2>1, <2>3 DEF Steady
<1>9. CASE Claimed(q)
  <2>1. /\ pc[q] = "lease" /\ (todo[q] = {} \/ Full(q)) /\ pc'[q] = "act"
        /\ want'[q] = [b \in Bot |-> IF b \in took[q] THEN want[q][b] ELSE 0]
        /\ UNCHANGED <<run, lease, cache, said, blank>>
    BY <1>9, AllowsDoes DEF Claimed, reads
  <2>2. want'[q][c] = IF c \in took[q] THEN want[q][c] ELSE 0
    BY <2>1
  <2>3. run[q][c] # 0 => c \notin todo[q]
    BY <2>1, NotFull DEF On
  <2> QED
    BY <1>0, <2>1, <2>2, <2>3 DEF Steady
<1>10. CASE ClaimFails(q)
  <2>1. /\ pc[q] = "lease" /\ pc'[q] = "act"
        /\ want'[q] = [b \in Bot |-> IF b \in On(want[q]) \cap On(run[q]) THEN want[q][b] ELSE 0]
        /\ UNCHANGED <<run, cache, said, blank>>
    BY <1>10, AllowsDoes DEF ClaimFails, reads
  <2>2. want'[q][c] = IF want[q][c] # 0 /\ run[q][c] # 0 THEN want[q][c] ELSE 0
    BY <2>1 DEF On
  <2> QED
    BY <1>0, <2>1, <2>2 DEF Steady
<1>11. ASSUME NEW b \in Bot, StopOne(q, b) \/ Pass(q, b) \/ StartOne(q, b) \/ StartRefused(q, b)
       PROVE  Steady(q, c)'
  <2>1. /\ pc[q] = "act" /\ UNCHANGED <<leases, pc, want, took, cache, said, blank>>
        /\ run'[q][b] \in {0, run[q][b]} \/ run'[q][b] = want[q][b]
        /\ \A d \in Bot \ {b} : run'[q][d] = run[q][d]
    BY <1>11, ComingDoes
  <2>2. run'[q][c] \in {0, run[q][c], want[q][c]}
    BY <2>1
  <2> QED
    BY <1>0, <2>1, <2>2 DEF Steady, leases
<1>12. CASE Crash(q) \/ Shutdown(q)
  <2>1. run'[q] = Off /\ want'[q] = Off /\ said'[q] = Off /\ cache'[q] = Unread
    BY <1>12, ForgetsDoes DEF Crash, Shutdown
  <2> QED
    BY <2>1 DEF Steady, Off, Unread
<1>13. CASE Restart(q) \/ \E b \in Bot : WaitEnds(q, b)
  BY <1>1, <1>13 DEF Restart, WaitEnds, leases, pass, mine, reads, Still, Same
<1> QED
  BY <1>2, <1>3, <1>4, <1>5, <1>6, <1>7, <1>8, <1>9, <1>10, <1>11, <1>12, <1>13, Zenon
     DEF Next, Moves, PassStep

-----------------------------------------------------------------------------
(* The invariant holds *)

LEMMA Starts == Init => IInv
<1> SUFFICES ASSUME Init PROVE IInv
  OBVIOUS
<1>1. TypeOK /\ Budget
  BY StartsTyped
<1>2. Covers
  BY DEF Init, Covers, Polls, Covered, Off
<1>3. Steadies
  BY DEF Init, Steadies, Steady, Off, Unread
<1>4. \A p \in Process : Walk(p)
  BY DEF Init, Walk
<1>5. ASSUME NEW p \in Process PROVE Room(p)
  <2>1. took[p] = {} /\ On(run[p]) = {} /\ On(want[p]) = {}
    BY DEF Init, On, Off
  <2> QED
    BY <2>1, NoneFit DEF Room
<1> QED
  BY <1>1, <1>2, <1>3, <1>4, <1>5 DEF IInv

LEMMA Steps == IInv /\ [Next]_vars => IInv'
<1> SUFFICES ASSUME IInv, [Next]_vars PROVE IInv'
  OBVIOUS
<1>1. TypeOK' /\ Budget'
  BY Typed DEF IInv
<1>2. Covers'
  BY <1>1, CoversStep DEF IInv
<1>3. \A p \in Process : Walk(p)' /\ Room(p)'
  BY WalkStep, RoomStep DEF IInv
<1>4. Steadies'
  <2> SUFFICES ASSUME NEW p \in Process, NEW b \in Bot, stamp'[b] = 0 PROVE Steady(p, b)'
    BY DEF Steadies
  <2>1. Steady(p, b)
    BY Unedited DEF IInv, Steadies
  <2> QED
    BY <2>1, SteadyStep DEF IInv
<1> QED
  BY <1>1, <1>2, <1>3, <1>4 DEF IInv

-----------------------------------------------------------------------------
(* Every variable of the supervision holds what the code can put there.    *)
THEOREM TypeCorrect == Spec => []TypeOK
<1>1. IInv => TypeOK
  BY DEF IInv
<1> QED
  BY <1>1, Starts, Steps, PTL DEF Spec

(* leases.claim: two processes poll one bot only while one of them has     *)
(* gone a whole lease without taking it anew.                              *)
THEOREM OnePollerABot == Spec => []OnePoller
<1>1. IInv => OnePoller
  <2> SUFFICES ASSUME IInv, NEW b \in Bot, NEW p \in Process, NEW q \in Process,
                      p # q, run[p][b] # 0, run[q][b] # 0
               PROVE  age[p][b] = Lease \/ age[q][b] = Lease
    BY DEF OnePoller
  <2>1. Covered(p, b) /\ Covered(q, b)
    BY DEF IInv, Covers, Polls
  <2>2. age[p][b] \in 0..Lease /\ age[q][b] \in 0..Lease
    BY DEF IInv, TypeOK, LeasesTyped
  <2> QED
    BY <2>1, <2>2 DEF Covered
<1> QED
  BY <1>1, Starts, Steps, PTL DEF Spec

(* Supervisor.reconcile: no bot is stopped but for an edit of its row, a   *)
(* lease that is not this process's, or two empty answers in a row.        *)
THEOREM NoneStopsUncaused == Spec => StopsForCause
<1>1. IInv /\ [Next]_vars =>
        [\A p \in Process, b \in Bot :
            run[p][b] # 0 /\ run'[p][b] = 0 /\ p \in up' =>
                stamp[b] # 0 \/ lease[b].holder # p \/ blank[p] = 2]_vars
  <2> SUFFICES ASSUME IInv, Next, NEW p \in Process, NEW b \in Bot,
                      run[p][b] # 0, run'[p][b] = 0, p \in up', stamp[b] = 0, blank[p] # 2
               PROVE  lease[b].holder # p
    OBVIOUS
  <2>1. Steady(p, b) /\ Walk(p) /\ TypeOK
    BY DEF IInv, Steadies
  <2>2. Moves(p)
    <3>1. CASE (\E c \in Bot, r \in Record : Save(c, r)) \/ Commit \/ SaveOther \/ Tick
      BY <3>1 DEF Save, Commit, SaveOther, Tick, mine
    <3>2. ASSUME NEW q \in Process, Moves(q), q # p PROVE FALSE
      BY <2>1, <3>2, Others DEF Still, Same
    <3> QED
      BY <3>1, <3>2, Zenon DEF Next, Moves
  <2>3. CASE PassBegins(p) \/ ReadRows(p) \/ ReadFails(p) \/ Claimed(p) \/ ClaimFails(p) \/ Restart(p)
    BY <2>3 DEF PassBegins, ReadRows, ReadFails, Claimed, ClaimFails, Restart, mine
  <2>4. CASE Crash(p) \/ Shutdown(p)
    BY <2>1, <2>4, ForgetsDoes DEF Crash, Shutdown
  <2>5. CASE \E c \in Bot : Claim(p, c) \/ WaitEnds(p, c)
    BY <2>5 DEF Claim, WaitEnds, mine
  <2>6. ASSUME NEW c \in Bot, StopOne(p, c) \/ Pass(p, c) \/ StartOne(p, c) \/ StartRefused(p, c)
        PROVE  lease[b].holder # p
    <3>1. pc[p] = "act" /\ c = b
      BY <2>1, <2>6, ComingDoes
    <3>2. want[p][b] # 0 \/ lease[b].holder # p
      BY <2>1, <3>1 DEF Steady
    <3>3. CASE StopOne(p, c)
      BY <3>1, <3>2, <3>3 DEF StopOne, Foremost, Gone, On
    <3>4. CASE Pass(p, c) \/ StartOne(p, c) \/ StartRefused(p, c)
      <4>1. b \in todo[p]
        BY <3>1, <3>4 DEF Pass, StartOne, StartRefused, Coming, Foremost
      <4>2. want[p][b] = run[p][b]
        BY <2>1, <3>1, <4>1 DEF Steady, Walk, On
      <4>3. UNCHANGED run
        BY <3>1, <3>4, <4>2 DEF Pass, StartOne, StartRefused, Changed
      <4> QED
        BY <4>3
    <3> QED
      BY <2>6, <3>3, <3>4
  <2> QED
    BY <2>2, <2>3, <2>4, <2>5, <2>6, Zenon DEF Moves, PassStep
<1> QED
  BY <1>1, Starts, Steps, PTL DEF Spec, StopsForCause

-----------------------------------------------------------------------------
(* The RabbitMQ transport *)

HIDE Constants

(* Every delivery somebody still knows of. *)
Known == unacked \cup delivered \cup unsettled \cup sends \cup finished

CoreTyped ==
    /\ home \in Seq(Queue) /\ Len(home) <= Messages
    /\ ready \subseteq Published
    /\ chan \in 0..MaxChannels /\ open \in BOOLEAN /\ tags \in 0..MaxTag
    /\ unacked \subseteq Delivery /\ delivered \subseteq Delivery /\ unsettled \subseteq Delivery
    /\ noticed \in 0..MaxChannels
    /\ sends \subseteq Delivery /\ finished \subseteq Delivery
    /\ answered \subseteq Msg /\ settled \subseteq Msg /\ dropped \subseteq Msg
SideTyped ==
    /\ subs \subseteq Queue /\ subscribed \subseteq Queue /\ consuming \in BOOLEAN
    /\ served \subseteq Queue /\ missing \subseteq Queue /\ moves \in 0..MaxMoves

(* A tag names one delivery of its channel, and only the channel in use has *)
(* deliveries nobody answered.                                              *)
Tags ==
    /\ noticed = chan /\ (open => chan # 0) /\ (~open => unacked = {})
    /\ \A d \in Known : /\ d.chan <= chan /\ (d.chan = chan => d.tag <= tags)
                        /\ d.msg \in Published
    /\ \A d \in unacked \cup delivered \cup unsettled : d.chan = chan
    /\ \A d, e \in Known : d.chan = e.chan /\ d.tag = e.tag => d = e

(* A message is in one place on the server, and in none once settled. *)
OnePlace ==
    /\ ready \cap Of(unacked) = {}
    /\ \A u, v \in unacked : u.msg = v.msg => u = v
    /\ settled \cap (ready \cup Of(unacked)) = {}
    /\ settled \subseteq answered \cap Published
    /\ \A d \in finished : d.msg \in answered

Books ==
    /\ delivered \cap (unsettled \cup sends \cup finished) = {}
    /\ open => /\ unacked \subseteq delivered \cup unsettled
               /\ \A d \in delivered \cup unsettled : d \in unacked \/ d.msg \in dropped

Core == CoreTyped /\ Tags /\ OnePlace /\ Books

core == <<home, ready, chan, open, tags, unacked, delivered, unsettled, noticed, sends, finished, answered,
          settled, dropped>>

(* A step that touches none of this keeps it. *)
LEMMA CoreUnchanged == ASSUME Core, UNCHANGED core PROVE Core'
  <1>1. Known' = Known /\ Published' = Published /\ Of(unacked)' = Of(unacked)
    BY DEF Known, Published, Of, core
  <1>2. CoreTyped' /\ OnePlace' /\ Books'
    BY <1>1 DEF core, Core, CoreTyped, OnePlace, Books
  <1>3. Tags'
    BY <1>1 DEF core, Core, Tags
  <1> QED
    BY <1>2, <1>3 DEF Core

(* A channel that goes hands everything back to its queues. *)
LEMMA CoreRequeue ==
  ASSUME Core, Requeue, finished' \subseteq finished,
         UNCHANGED <<home, chan, tags, delivered, unsettled, noticed, sends, answered, settled, dropped>>
  PROVE  Core'
  <1> USE DEF Core, Requeue
  <1>1. Known' \subseteq Known /\ Published' = Published /\ Of(unacked)' = {}
    BY DEF Known, Published, Of
  <1>2. Of(unacked) \subseteq Published
    BY DEF Of, Tags, Known
  <1>3. CoreTyped'
    BY <1>1, <1>2 DEF CoreTyped
  <1>4. Tags'
    BY <1>1 DEF Tags
  <1>5. OnePlace'
    BY <1>1 DEF OnePlace
  <1>6. Books'
    BY DEF Books
  <1> QED
    BY <1>3, <1>4, <1>5, <1>6

(* A delivery the server makes has a tag nothing else of its channel has. *)
LEMMA Fresh ==
  ASSUME Core, open, NEW q, NEW m, Push(q, m)
  PROVE  /\ m \in Published /\ m \in Msg /\ Pushed(m) \in Delivery /\ Pushed(m) \notin Known
         /\ tags + 1 \in 0..MaxTag /\ tags \in Nat
         /\ Pushed(m).chan = chan /\ Pushed(m).tag = tags + 1 /\ Pushed(m).msg = m
         /\ \A d \in Known : ~(d.chan = chan /\ d.tag = tags + 1)
  <1>1. Pushed(m).chan = chan /\ Pushed(m).tag = tags + 1 /\ Pushed(m).msg = m
    BY DEF Pushed
  <1>2. m \in Published /\ m \in Msg
    <2>1. Len(home) \in Nat /\ Len(home) <= Messages /\ Messages \in Nat /\ DOMAIN home = 1..Len(home)
      BY RabbitAssumption DEF Core, CoreTyped
    <2> QED
      BY <2>1 DEF Push, Core, CoreTyped, Published, Msg
  <1>3. tags \in Nat /\ tags < MaxTag /\ MaxTag \in Nat /\ tags + 1 \in 0..MaxTag /\ tags + 1 \in 1..MaxTag
    BY RabbitAssumption DEF Push, Core, CoreTyped
  <1>4. chan \in 1..MaxChannels
    BY RabbitAssumption DEF Core, CoreTyped, Tags
  <1>5. Pushed(m) \in Delivery
    BY <1>2, <1>3, <1>4 DEF Pushed, Delivery
  <1>6. \A d \in Known : ~(d.chan = chan /\ d.tag = tags + 1)
    BY <1>3 DEF Core, Tags
  <1> QED
    BY <1>1, <1>2, <1>3, <1>5, <1>6

(* A push moves a waiting message to the channel, under a tag of its own,  *)
(* into the deque or the hands.                                            *)
LEMMA CorePush ==
  ASSUME Core, open, NEW q, NEW m, Push(q, m),
         \/ delivered' = delivered \cup {Pushed(m)} /\ UNCHANGED <<unsettled, sends>>
         \/ Issued(Pushed(m)) /\ UNCHANGED delivered,
         UNCHANGED <<home, chan, open, noticed, finished, answered, settled, dropped>>
  PROVE  Core'
  <1>1. PICK p \in Delivery :
          /\ p = Pushed(m) /\ p.chan = chan /\ p.tag = tags + 1 /\ p.msg = m /\ p \notin Known
          /\ m \in Published /\ m \in ready /\ tags \in Nat /\ tags + 1 \in 0..MaxTag
          /\ \A d \in Known : ~(d.chan = p.chan /\ d.tag = p.tag)
    BY Fresh DEF Push
  <1>2. /\ ready' = ready \ {m} /\ tags' = tags + 1 /\ unacked' = unacked \cup {p}
        /\ \/ delivered' = delivered \cup {p} /\ unsettled' = unsettled /\ sends' = sends
           \/ unsettled' = unsettled \cup {p} /\ sends' = sends \cup {p} /\ delivered' = delivered
        /\ UNCHANGED <<home, chan, open, noticed, finished, answered, settled, dropped>>
    BY <1>1 DEF Push, Issued
  <1>3. /\ Known' = Known \cup {p} /\ Published' = Published
    BY <1>2 DEF Known, Published
  <1>4. Of(unacked)' = Of(unacked) \cup {m}
    BY <1>1, <1>2 DEF Of
  <1> USE DEF Core
  <1>5. CoreTyped'
    BY <1>1, <1>2, <1>3 DEF CoreTyped
  <1>6. Tags'
    <2>1. \A d \in Known' : d.chan <= chan /\ (d.chan = chan => d.tag <= tags') /\ d.msg \in Published
      <3> TAKE d \in Known'
      <3>1. CASE d = p
        BY <1>1, <1>2, <3>1 DEF CoreTyped
      <3>2. CASE d \in Known
        <4>1. d.chan = chan => d.tag \in Nat /\ d.tag <= tags
          BY <3>2 DEF Tags, Known, CoreTyped, Delivery
        <4> QED
          BY <1>1, <1>2, <3>2, <4>1 DEF Tags
      <3> QED
        BY <1>3, <3>1, <3>2
    <2>2. \A d, e \in Known' : d.chan = e.chan /\ d.tag = e.tag => d = e
      BY <1>1, <1>3 DEF Tags
    <2>3. \A d \in unacked' \cup delivered' \cup unsettled' : d.chan = chan
      BY <1>1, <1>2 DEF Tags
    <2> QED
      BY <1>2, <1>3, <2>1, <2>2, <2>3 DEF Tags
  <1>7. OnePlace'
    <2>1. \A u \in unacked : u.msg # m
      BY <1>1 DEF OnePlace, Of
    <2>2. \A u, v \in unacked' : u.msg = v.msg => u = v
      BY <1>1, <1>2, <2>1 DEF OnePlace
    <2>3. ready' \cap Of(unacked)' = {} /\ settled \cap (ready' \cup Of(unacked)') = {}
      BY <1>1, <1>2, <1>4 DEF OnePlace
    <2> QED
      BY <1>2, <1>3, <2>2, <2>3 DEF OnePlace
  <1>8. Books'
    BY <1>1, <1>2 DEF Books, Known
  <1> QED
    BY <1>5, <1>6, <1>7, <1>8

-----------------------------------------------------------------------------
(* The actions *)

(* publish adds a message that was nowhere. *)
LEMMA CorePublish == ASSUME Core, NEW q \in Queue, Publish(q) PROVE Core'
  <1> USE DEF Core
  <1> DEFINE n == Len(home) + 1
  <1>1. /\ home \in Seq(Queue) /\ Len(home) < Messages /\ home' = Append(home, q)
        /\ ready' = ready \cup {n}
        /\ UNCHANGED <<chan, open, tags, unacked, delivered, unsettled, noticed, sends, finished, answered,
                       settled, dropped>>
    BY DEF Publish, CoreTyped, channel, threadLocal, work, history
  <1>2. /\ home' \in Seq(Queue) /\ Len(home') = n /\ Published = 1..Len(home) /\ Published' = 1..n
        /\ Len(home) \in Nat
    BY <1>1 DEF Published
  <1>3. n \notin Published /\ n \in Published' /\ Published \subseteq Published' /\ n <= Messages
    BY <1>1, <1>2, RabbitAssumption
  <1>4. Known' = Known /\ Of(unacked)' = Of(unacked)
    BY <1>1 DEF Known, Of
  <1>5. Of(unacked) \subseteq Published
    BY DEF Of, Tags, Known
  <1> HIDE DEF n
  <1>6. CoreTyped'
    BY <1>1, <1>2, <1>3 DEF CoreTyped
  <1>7. Tags'
    BY <1>1, <1>3, <1>4 DEF Tags
  <1>8. OnePlace'
    BY <1>1, <1>3, <1>4, <1>5 DEF OnePlace
  <1>9. Books'
    BY <1>1 DEF Books
  <1> QED
    BY <1>6, <1>7, <1>8, <1>9

(* discard removes the queue with what it held, on the server alone. *)
LEMMA CoreDiscard == ASSUME Core, NEW q \in Queue, Discard(q) PROVE Core'
  <1> USE DEF Core
  <1> DEFINE gone == {m \in Published : home[m] = q}
  <1>1. /\ ready' = ready \ gone
        /\ unacked' = {d \in unacked : d.msg \notin gone}
        /\ dropped' = dropped \cup (gone \cap (ready \cup Of(unacked)))
        /\ UNCHANGED <<home, chan, open, tags, delivered, unsettled, noticed, sends, finished, answered,
                       settled>>
    BY DEF Discard, channel, threadLocal, work
  <1> HIDE DEF gone
  <1>2. Known' \subseteq Known /\ Published' = Published /\ Of(unacked)' \subseteq Of(unacked)
    BY <1>1 DEF Known, Published, Of
  <1>3. ready \cup Of(unacked) \subseteq Msg
    <2>1. Published \subseteq Msg
      BY RabbitAssumption DEF CoreTyped, Published, Msg
    <2> QED
      BY <2>1 DEF Of, CoreTyped, Tags, Known
  <1>4. CoreTyped'
    BY <1>1, <1>2, <1>3 DEF CoreTyped
  <1>5. Tags'
    BY <1>1, <1>2 DEF Tags
  <1>6. OnePlace'
    BY <1>1, <1>2 DEF OnePlace
  <1>7. Books'
    BY <1>1 DEF Books, Of
  <1> QED
    BY <1>4, <1>5, <1>6, <1>7

(* A new channel starts with nothing delivered, and the broker forgets     *)
(* what the old one held.                                                  *)
LEMMA CoreReconnect == ASSUME Core, Reconnect PROVE Core'
  <1> USE DEF Core
  <1>1. /\ ~open /\ chan < MaxChannels /\ chan' = chan + 1 /\ open' = TRUE /\ tags' = 0
        /\ delivered' = {} /\ unsettled' = Forgotten /\ noticed' = chan + 1
        /\ UNCHANGED <<home, ready, unacked, sends, finished, answered, settled, dropped>>
    BY DEF Reconnect, work, history
  <1>2. Forgotten = {} /\ unacked = {}
    BY <1>1 DEF Forgotten, Tags
  <1>3. Known' \subseteq Known /\ Published' = Published /\ Of(unacked)' = Of(unacked)
    BY <1>1, <1>2 DEF Known, Published, Of
  <1>4. chan \in Nat /\ MaxChannels \in Nat /\ MaxTag \in Nat /\ chan + 1 \in 0..MaxChannels
    BY <1>1, RabbitAssumption DEF CoreTyped
  <1>5. CoreTyped'
    BY <1>1, <1>2, <1>3, <1>4 DEF CoreTyped
  <1>6. Tags'
    <2>1. \A d \in Known : d.chan \in Nat /\ d.chan <= chan /\ d.msg \in Published
      BY DEF Tags, Known, CoreTyped, Delivery
    <2>2. \A d \in Known : d.chan <= chan + 1 /\ d.chan # chan + 1
      BY <1>4, <2>1
    <2> QED
      BY <1>1, <1>2, <1>3, <1>4, <2>1, <2>2 DEF Tags
  <1>7. OnePlace'
    BY <1>1, <1>3 DEF OnePlace
  <1>8. Books'
    BY <1>1, <1>2 DEF Books
  <1> QED
    BY <1>5, <1>6, <1>7, <1>8

(* What the server is told goes back waits again. *)
LEMMA OfNacked ==
  ASSUME Core, NEW back
  PROVE  /\ Of(unacked \ back) = Of(unacked) \ Of(back \cap unacked)
         /\ Of(back \cap unacked) \subseteq Of(unacked) /\ Of(unacked) \subseteq Published
  <1>1. Of(unacked \ back) = Of(unacked) \ Of(back \cap unacked)
    BY DEF Of, Core, OnePlace
  <1> QED
    BY <1>1 DEF Of, Core, Tags, Known

(* A wanted delivery goes from the deque to the hands, and what is not     *)
(* wanted back to its queue.                                               *)
LEMMA CoreBuffered == ASSUME Core, Buffered PROVE Core'
  <1> USE DEF Core
  <1>1. /\ open /\ GivenBack \subseteq delivered
        /\ unacked' = unacked \ GivenBack /\ ready' = ready \cup Of(GivenBack \cap unacked)
        /\ UNCHANGED <<home, chan, open, tags, noticed, finished, answered, settled, dropped>>
    BY DEF Buffered, GivenBack, channel, history
  <1>2. \/ /\ delivered' = {} /\ delivered \subseteq GivenBack /\ UNCHANGED <<unsettled, sends>>
        \/ \E d \in delivered : /\ d \notin GivenBack /\ delivered' = delivered \ (GivenBack \cup {d})
                                /\ unsettled' = unsettled \cup {d} /\ sends' = sends \cup {d}
    BY DEF Buffered, GivenBack, Issued
  <1>3. Known' \subseteq Known /\ Published' = Published
    BY <1>1, <1>2 DEF Known, Published
  <1>4. Of(unacked)' = Of(unacked) \ Of(GivenBack \cap unacked)
    BY <1>1, OfNacked DEF Of
  <1>5. CoreTyped'
    BY <1>1, <1>2, <1>3, OfNacked DEF CoreTyped
  <1>6. Tags'
    BY <1>1, <1>2, <1>3 DEF Tags
  <1>7. OnePlace'
    BY <1>1, <1>3, <1>4, OfNacked DEF OnePlace
  <1>8. Books'
    BY <1>1, <1>2 DEF Books
  <1> QED
    BY <1>5, <1>6, <1>7, <1>8

(* A send that ends makes its message answered. *)
LEMMA CoreComplete == ASSUME Core, NEW d \in sends, Complete(d) PROVE Core'
  <1> USE DEF Core
  <1>1. /\ sends' = sends \ {d} /\ finished' = finished \cup {d} /\ answered' = answered \cup {d.msg}
        /\ UNCHANGED <<home, ready, chan, open, tags, unacked, delivered, unsettled, noticed, settled, dropped>>
    BY DEF Complete, server, channel, threadLocal
  <1>2. Known' = Known /\ Published' = Published /\ Of(unacked)' = Of(unacked)
    BY <1>1 DEF Known, Published, Of
  <1>3. CoreTyped'
    BY <1>1, <1>2 DEF CoreTyped, Delivery
  <1>4. Tags' /\ OnePlace' /\ Books'
    BY <1>1, <1>2 DEF Tags, OnePlace, Books
  <1> QED
    BY <1>3, <1>4

(* A handle settles the delivery it was given out for, or nothing. *)
LEMMA SettlesOwn ==
  ASSUME Core, NEW d \in Known
  PROVE  Settleable(d) \subseteq {d} /\ Settleable(d) \subseteq unacked /\ (d \in unacked => Settleable(d) = {d})
  BY DEF Core, Tags, Settleable, Known

(* A handle settles its own delivery, once it was answered, or nothing. *)
LEMMA CoreAck == ASSUME Core, NEW d \in finished, Ack(d) PROVE Core'
  <1> USE DEF Core
  <1>1. CASE Requeue /\ UNCHANGED <<settled, unsettled>>
    BY <1>1, CoreRequeue DEF Ack, threadLocal
  <1>2. CASE /\ unacked' = unacked \ Settleable(d) /\ settled' = settled \cup Of(Settleable(d))
             /\ unsettled' = unsettled \ {d} /\ UNCHANGED <<ready, open, subs>>
    <2>1. /\ finished' = finished \ {d}
          /\ UNCHANGED <<home, ready, chan, open, tags, delivered, noticed, sends, answered, dropped>>
      BY <1>2 DEF Ack, threadLocal
    <2>2. Known' \subseteq Known /\ Published' = Published
      BY <1>2, <2>1 DEF Known, Published
    <2>3. d \in Known /\ d.msg \in Msg /\ d.msg \in answered /\ d.msg \in Published
      BY DEF Known, CoreTyped, Delivery, OnePlace, Tags
    <2>4. \/ Settleable(d) = {} /\ unacked' = unacked /\ settled' = settled /\ d \notin unacked
          \/ d \in unacked /\ unacked' = unacked \ {d} /\ settled' = settled \cup {d.msg}
      BY <1>2, <2>3, SettlesOwn DEF Of
    <2>5. Of(unacked)' \subseteq Of(unacked) /\ (d \in unacked => d.msg \notin Of(unacked)' /\ d.msg \in Of(unacked))
      BY <2>4 DEF Of, OnePlace
    <2>6. CoreTyped'
      BY <1>2, <2>1, <2>2, <2>3, <2>4 DEF CoreTyped
    <2>7. Tags'
      BY <1>2, <2>1, <2>2, <2>4 DEF Tags
    <2>8. OnePlace'
      <3>1. settled' \cap (ready \cup Of(unacked)') = {} /\ settled' \subseteq answered \cap Published
        <4>1. settled \cap (ready \cup Of(unacked)) = {} /\ settled \subseteq answered \cap Published
          BY DEF OnePlace
        <4>2. ready \cap Of(unacked) = {}
          BY DEF OnePlace
        <4>3. CASE settled' = settled
          BY <2>5, <4>1, <4>3
        <4>4. CASE d \in unacked /\ settled' = settled \cup {d.msg}
          <5>1. d.msg \notin ready /\ d.msg \notin Of(unacked)'
            BY <2>5, <4>2, <4>4
          <5> QED
            BY <2>3, <2>5, <4>1, <4>4, <5>1
        <4> QED
          BY <2>4, <4>3, <4>4
      <3>2. \A u, v \in unacked' : u.msg = v.msg => u = v
        BY <2>4 DEF OnePlace
      <3>3. ready' \cap Of(unacked)' = {}
        BY <1>2, <2>5 DEF OnePlace
      <3> QED
        BY <1>2, <2>1, <2>2, <3>1, <3>2, <3>3 DEF OnePlace
    <2>9. Books'
      BY <1>2, <2>1, <2>4 DEF Books
    <2> QED
      BY <2>6, <2>7, <2>8, <2>9
  <1> QED
    BY <1>1, <1>2 DEF Ack

(* A released delivery waits in its queue again. *)
LEMMA CoreRelease == ASSUME Core, NEW d \in sends, Release(d) PROVE Core'
  <1> USE DEF Core
  <1>1. /\ sends' = sends \ {d} /\ unsettled' = unsettled \ {d} /\ unacked' = unacked \ Settleable(d)
        /\ ready' = ready \cup Of(Settleable(d))
        /\ UNCHANGED <<home, chan, open, tags, delivered, noticed, finished, answered, settled, dropped>>
    BY DEF Release, channel, threadLocal, history
  <1>2. Known' \subseteq Known /\ Published' = Published
    BY <1>1 DEF Known, Published
  <1>3. d \in Known
    BY DEF Known
  <1>4. \/ unacked' = unacked /\ ready' = ready /\ d \notin unacked
        \/ d \in unacked /\ unacked' = unacked \ {d} /\ ready' = ready \cup {d.msg}
    BY <1>1, <1>3, SettlesOwn DEF Of
  <1>5. /\ Of(unacked)' \subseteq Of(unacked) /\ d.msg \in Published
        /\ (d \in unacked => d.msg \notin Of(unacked)' /\ d.msg \in Of(unacked))
    BY <1>3, <1>4 DEF Of, OnePlace, Tags
  <1>6. CoreTyped'
    BY <1>1, <1>2, <1>4, <1>5 DEF CoreTyped
  <1>7. Tags'
    BY <1>1, <1>2, <1>4 DEF Tags
  <1>8. OnePlace'
    BY <1>1, <1>2, <1>4, <1>5 DEF OnePlace
  <1>9. Books'
    BY <1>1, <1>4 DEF Books
  <1> QED
    BY <1>6, <1>7, <1>8, <1>9

(* Every step keeps the invariant. *)
LEMMA CoreNext == Core /\ [RabbitNext]_rabbitVars => Core'
  <1> SUFFICES ASSUME Core, [RabbitNext]_rabbitVars PROVE Core'
    OBVIOUS
  <1> USE DEF channel, threadLocal, work, history, server
  <1>1. CASE UNCHANGED rabbitVars \/ Serve
    BY <1>1, CoreUnchanged DEF rabbitVars, Serve, core
  <1>2. CASE ChannelDies
    BY <1>2, CoreRequeue DEF ChannelDies
  <1>3. CASE TakeOwn
    <2>1. ASSUME NEW m \in Msg, Push(Own, m), Issued(Pushed(m)), UNCHANGED open PROVE Core'
      BY <1>3, <2>1, CorePush DEF TakeOwn
    <2>2. CASE UNCHANGED <<ready, open, tags, unacked, unsettled, sends>>
      BY <1>3, <2>2, CoreUnchanged DEF TakeOwn, core
    <2>3. CASE Refused
      BY <1>3, <2>3, CoreRequeue DEF TakeOwn, Refused
    <2> QED
      BY <1>3, <2>1, <2>2, <2>3 DEF TakeOwn
  <1>4. CASE Subscribe
    <2>1. CASE UNCHANGED <<ready, open, tags, unacked>>
      BY <1>4, <2>1, CoreUnchanged DEF Subscribe, core
    <2>2. CASE Refused
      BY <1>4, <2>2, CoreRequeue DEF Subscribe, Refused
    <2> QED
      BY <1>4, <2>1, <2>2 DEF Subscribe
  <1>5. CASE Arrive
    <2>1. PICK q \in subs, m \in Msg : Push(q, m) /\ delivered' = delivered \cup {Pushed(m)}
      BY <1>5 DEF Arrive
    <2> QED
      BY <1>5, <2>1, CorePush DEF Arrive, Subscribed
  <1>6. CASE TakeNowait
    <2>1. PICK m \in ready : Push(home[m], m) /\ Issued(Pushed(m))
      BY <1>6 DEF TakeNowait
    <2> QED
      BY <1>6, <2>1, CorePush DEF TakeNowait
  <1> QED
    BY <1>1, <1>2, <1>3, <1>4, <1>5, <1>6, CorePublish, CoreDiscard, CoreReconnect, CoreBuffered, CoreComplete,
       CoreRelease, CoreAck DEF RabbitNext, Call

(* The invariant holds at first. *)
LEMMA CoreInit == RabbitInit => Core
  <1> SUFFICES ASSUME RabbitInit PROVE Core
    OBVIOUS
  <1>1. Known = {} /\ Of(unacked) = {} /\ home \in Seq(Queue) /\ Len(home) = 0
    BY DEF RabbitInit, Known, Of
  <1>2. CoreTyped
    <2>1. open \in BOOLEAN
      BY DEF RabbitInit
    <2>2. chan \in 0..MaxChannels /\ tags \in 0..MaxTag /\ noticed \in 0..MaxChannels
      BY RabbitAssumption DEF RabbitInit
    <2>3. ready = {} /\ Messages \in Nat
      BY RabbitAssumption DEF RabbitInit
    <2> QED
      BY <1>1, <2>1, <2>2, <2>3 DEF RabbitInit, CoreTyped
  <1> QED
    BY <1>1, <1>2 DEF RabbitInit, Core, Tags, OnePlace, Books

(* What the books do not tell is typed at first ... *)
LEMMA SideInit == RabbitInit => SideTyped
  <1> SUFFICES ASSUME RabbitInit PROVE SideTyped
    OBVIOUS
  <1>1. consuming \in BOOLEAN
    BY DEF RabbitInit
  <1>2. moves \in 0..MaxMoves
    BY RabbitAssumption DEF RabbitInit
  <1> QED
    BY <1>1, <1>2 DEF RabbitInit, SideTyped, Unnamed

(* ... and by every step. *)
LEMMA SideNext == SideTyped /\ [RabbitNext]_rabbitVars => SideTyped'
  <1> SUFFICES ASSUME SideTyped, [RabbitNext]_rabbitVars PROVE SideTyped'
    OBVIOUS
  <1> USE RabbitAssumption DEF SideTyped, channel, threadLocal, work, history, server
  <1>1. Asked \subseteq Queue
    BY DEF Asked
  <1>2. CASE UNCHANGED rabbitVars \/ \E q \in Queue : Publish(q) \/ Discard(q)
    BY <1>2 DEF rabbitVars, Publish, Discard
  <1>3. CASE ChannelDies \/ Serve
    BY <1>3 DEF ChannelDies, Serve, Requeue
  <1>4. CASE Reconnect
    BY <1>4 DEF Reconnect
  <1>5. CASE TakeOwn
    BY <1>5 DEF TakeOwn, Refused, Requeue
  <1>6. CASE Subscribe
    BY <1>1, <1>6 DEF Subscribe, Resubscribed, Refused, Requeue
  <1>7. CASE Arrive \/ Buffered \/ TakeNowait
    BY <1>7 DEF Arrive, Buffered, TakeNowait
  <1>8. CASE \E d \in sends : Complete(d) \/ Release(d)
    BY <1>8 DEF Complete, Release
  <1>9. CASE \E d \in finished : Ack(d)
    BY <1>9 DEF Ack, Requeue
  <1> QED
    BY <1>2, <1>3, <1>4, <1>5, <1>6, <1>7, <1>8, <1>9 DEF RabbitNext, Call

(* The state of the server and of the consumer is typed. *)
THEOREM RabbitTyped == RabbitSpec => []RabbitTypeOK
  <1>1. Core /\ SideTyped => RabbitTypeOK
    BY DEF Core, CoreTyped, SideTyped, RabbitTypeOK
  <1> QED
    BY <1>1, CoreInit, CoreNext, SideInit, SideNext, PTL DEF RabbitSpec

(* _buffered, _give_back, _notice_a_new_channel: what the server waits for *)
(* an answer to is in the deque or among the handles, never in both, and   *)
(* what the broker counts as held is held by the channel in use.           *)
THEOREM DeliveriesAreHeld == RabbitSpec => []HeldOnce
  <1>1. Core => HeldOnce
    BY DEF Core, Books, HeldOnce
  <1> QED
    BY <1>1, CoreInit, CoreNext, PTL DEF RabbitSpec

-----------------------------------------------------------------------------
(* The contract *)

(* What the server waits for an answer to, and a step may give back. *)
LEMMA ContractReturns ==
  ASSUME Core, UNCHANGED <<settled, answered>>, Of(unacked)' \subseteq Of(unacked)
  PROVE  Contract!Next
  <1> DEFINE back == {m \in Msg : m \in Of(unacked) \ Of(unacked)' /\ m \notin settled}
  <1>1. back \in SUBSET Msg /\ back \subseteq {m \in Msg : where[m] = "taken"}
    BY DEF where
  <1>2. where' = [m \in Msg |-> IF m \in back THEN "waiting" ELSE where[m]]
    BY DEF where
  <1> HIDE DEF back, where
  <1>3. PICK some \in SUBSET Msg : some = back
    BY <1>1
  <1>4. Contract!Return(some)
    BY <1>1, <1>2, <1>3 DEF Contract!Return
  <1> QED
    BY <1>4 DEF Contract!Next

(* A message the server delivers was waiting. *)
LEMMA ContractTakes ==
  ASSUME Core, open, NEW q, NEW m, Push(q, m), UNCHANGED <<settled, answered>>
  PROVE  Contract!Next
  <1>1. m \in Msg /\ m \in ready /\ m \notin settled \cup Of(unacked)
    BY Fresh DEF Push, Core, OnePlace
  <1>2. Of(unacked)' = Of(unacked) \cup {m}
    <2>1. unacked' = unacked \cup {Pushed(m)} /\ Pushed(m).msg = m
      BY DEF Push, Pushed
    <2> QED
      BY <2>1 DEF Of
  <1>3. where[m] = "waiting" /\ where' = [where EXCEPT ![m] = "taken"]
    BY <1>1, <1>2 DEF where
  <1> QED
    BY <1>1, <1>3 DEF Contract!Take, Contract!Next

(* An answer is given to a message that is not settled, or changes nothing. *)
LEMMA ContractAnswers ==
  ASSUME Core, NEW m \in Msg, answered' = answered \cup {m}, UNCHANGED <<settled, unacked>>
  PROVE  Contract!Next \/ UNCHANGED <<where, answered>>
  <1>1. where' = where
    BY DEF where, Of
  <1>2. CASE m \in settled
    BY <1>1, <1>2 DEF Core, OnePlace
  <1>3. CASE m \notin settled
    <2>1. where[m] # "settled"
      BY <1>3 DEF where
    <2> QED
      BY <1>1, <2>1 DEF Contract!Answer, Contract!Next
  <1> QED
    BY <1>2, <1>3

(* A basic_ack settles the message of its own delivery, which was answered. *)
LEMMA ContractSettles ==
  ASSUME Core, NEW d \in finished, UNCHANGED answered,
         unacked' = unacked \ Settleable(d), settled' = settled \cup Of(Settleable(d))
  PROVE  Contract!Next
  <1>1. d \in Known /\ d.msg \in Msg /\ d.msg \in answered
    BY DEF Core, Known, CoreTyped, Delivery, OnePlace
  <1>2. CASE d \notin unacked
    <2>1. settled' = settled /\ unacked' = unacked
      BY <1>1, <1>2, SettlesOwn DEF Of
    <2> QED
      BY <2>1, ContractReturns DEF Of
  <1>3. CASE d \in unacked
    <2>1. settled' = settled \cup {d.msg} /\ unacked' = unacked \ {d}
      BY <1>1, <1>3, SettlesOwn DEF Of
    <2>2. d.msg \in Of(unacked) /\ d.msg \notin settled /\ Of(unacked)' = Of(unacked) \ {d.msg}
      BY <1>3, <2>1 DEF Of, Core, OnePlace
    <2>3. where[d.msg] = "taken" /\ where' = [where EXCEPT ![d.msg] = "settled"]
      BY <1>1, <2>1, <2>2 DEF where
    <2> QED
      BY <1>1, <2>3 DEF Contract!Settle, Contract!Next
  <1> QED
    BY <1>2, <1>3

(* Every step is one of the contract's, or none. *)
LEMMA ContractStep == Core /\ [RabbitNext]_rabbitVars => [Contract!Next]_(Contract!vars)
  <1> SUFFICES ASSUME Core, [RabbitNext]_rabbitVars PROVE Contract!Next \/ UNCHANGED <<where, answered>>
    BY DEF Contract!vars, where
  <1> USE DEF channel, threadLocal, work, history, server
  <1>1. ASSUME UNCHANGED <<unacked, settled, answered>> PROVE Contract!Next
    BY <1>1, ContractReturns DEF Of
  <1>2. ASSUME Requeue, UNCHANGED <<settled, answered>> PROVE Contract!Next
    BY <1>2, ContractReturns DEF Requeue, Of
  <1>3. CASE UNCHANGED rabbitVars \/ Serve \/ Reconnect
    BY <1>1, <1>3 DEF rabbitVars, Serve, Reconnect
  <1>4. ASSUME NEW q \in Queue, Publish(q) PROVE Contract!Next
    BY <1>1, <1>4 DEF Publish
  <1>5. ASSUME NEW q \in Queue, Discard(q) PROVE Contract!Next
    BY <1>5, ContractReturns DEF Discard, Of
  <1>6. CASE ChannelDies
    BY <1>2, <1>6 DEF ChannelDies
  <1>7. CASE TakeOwn
    <2>1. UNCHANGED <<settled, answered>> /\ open
      BY <1>7 DEF TakeOwn
    <2>2. ASSUME NEW m \in Msg, Push(Own, m) PROVE Contract!Next
      BY <2>1, <2>2, ContractTakes
    <2> QED
      BY <1>1, <1>2, <1>7, <2>1, <2>2 DEF TakeOwn, Refused
  <1>8. CASE Subscribe
    BY <1>1, <1>2, <1>8 DEF Subscribe, Refused
  <1>9. CASE Arrive
    <2>1. PICK q \in subs, m \in Msg : Push(q, m)
      BY <1>9 DEF Arrive
    <2> QED
      BY <1>9, <2>1, ContractTakes DEF Arrive, Subscribed
  <1>10. CASE Buffered
    BY <1>10, ContractReturns DEF Buffered, Of
  <1>11. CASE TakeNowait
    <2>1. PICK m \in ready : Push(home[m], m)
      BY <1>11 DEF TakeNowait
    <2> QED
      BY <1>11, <2>1, ContractTakes DEF TakeNowait
  <1>12. ASSUME NEW d \in sends, Complete(d) PROVE Contract!Next \/ UNCHANGED <<where, answered>>
    <2>1. d.msg \in Msg
      BY DEF Core, CoreTyped, Delivery
    <2> QED
      BY <1>12, <2>1, ContractAnswers DEF Complete
  <1>13. ASSUME NEW d \in sends, Release(d) PROVE Contract!Next
    BY <1>13, ContractReturns DEF Release, Of
  <1>14. ASSUME NEW d \in finished, Ack(d) PROVE Contract!Next
    BY <1>2, <1>14, ContractSettles DEF Ack
  <1> QED
    BY <1>3, <1>4, <1>5, <1>6, <1>7, <1>8, <1>9, <1>10, <1>11, <1>12, <1>13, <1>14 DEF RabbitNext, Call

(* The transport keeps the contract of broker/base.py: what is settled was  *)
(* answered first and never comes back, whatever channel its handle came    *)
(* from.                                                                    *)
THEOREM RabbitKeepsContract == RabbitSpec => Implements
  <1>1. RabbitInit => Contract!Init
    BY DEF RabbitInit, Contract!Init, where, Of
  <1> QED
    BY <1>1, CoreInit, CoreNext, ContractStep, PTL DEF RabbitSpec, Implements, Contract!Spec

=============================================================================
