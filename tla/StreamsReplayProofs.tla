------------------------- MODULE StreamsReplayProofs -------------------------
(***************************************************************************)
(* Two components.  The Redis Streams transport: that it keeps the broker  *)
(* contract and that no entry slips out of reach, for every number of      *)
(* streams, entries, faults and moves.  And the replay: that one failure   *)
(* gets one replacement, that a finished claim stands and that what the    *)
(* runs report is so, for every number of runs, every selection of         *)
(* endings, every lease, limit and number of attempts.                     *)
(***************************************************************************)
EXTENDS RedisStreams, Replay, FiniteSetTheorems, FunctionTheorems, SequenceTheorems,
        WellFoundedInduction, TLAPS

-----------------------------------------------------------------------------
(* Numbers *)

(* The constants, each by itself. *)
LEMMA StreamsConstants ==
    /\ Streams \in Nat /\ Entries \in Nat /\ Page \in Nat \ {0} /\ MaxFaults \in Nat /\ MaxMoves \in Nat
    /\ Me # Peer /\ NoOne # Me /\ NoOne # Peer
    /\ Entry \subseteq Nat \ {0} /\ Stream \subseteq Nat \ {0} /\ Nowhere \notin Stream
    /\ Exhausted \in Nat /\ \A e \in Entry : e < Exhausted
    /\ \A es \in Strangers : es \subseteq Entry
  BY StreamsAssumption DEF Entry, Stream, Nowhere, Exhausted

(* A set of numbers has a least one. *)
LEMMA Least == ASSUME NEW S \in SUBSET Nat, S # {} PROVE \E m \in S : \A n \in S : m <= n
  <1> DEFINE R == OpToRel(<, Nat)
  <1>1. IsWellFoundedOn(R, Nat)
    BY NatLessThanWellFounded
  <1>2. \A n, m \in Nat : n < m => <<n, m>> \in R
    BY DEF OpToRel
  <1> HIDE DEF R
  <1>3. PICK m \in S : \A n \in S : ~(<<n, m>> \in R)
    BY <1>1, WFMin
  <1>4. ASSUME NEW n \in S PROVE m <= n
    <2>1. n \in Nat /\ m \in Nat /\ ~(n < m)
      BY <1>2, <1>3
    <2> QED
      BY <2>1
  <1> QED
    BY <1>4

(* A bounded set of numbers has a greatest one. *)
LEMMA Greatest ==
  ASSUME NEW S \in SUBSET Nat, S # {}, NEW b \in Nat, \A n \in S : n <= b
  PROVE  Max(S) \in S /\ \A n \in S : n <= Max(S)
  <1>1. PICK d \in {b - n : n \in S} : \A k \in {b - n : n \in S} : d <= k
    <2>1. {b - n : n \in S} \in SUBSET Nat
      OBVIOUS
    <2>2. {b - n : n \in S} # {}
      OBVIOUS
    <2> QED
      BY <2>1, <2>2, Least
  <1>2. \E m \in S : \A n \in S : m >= n
    <2>1. PICK m \in S : d = b - m
      OBVIOUS
    <2>2. \A n \in S : b - m <= b - n
      BY <1>1, <2>1
    <2> QED
      BY <2>2
  <1> QED
    BY <1>2 DEF Max

(* What a read takes first is the least entry there. *)
LEMMA LeastIsMin == ASSUME NEW S \in SUBSET Nat, S # {} PROVE Min(S) \in S /\ \A n \in S : Min(S) <= n
  BY Least DEF Min

(* The greatest of one number. *)
LEMMA OneIsMax == ASSUME NEW e \in Nat PROVE Max({e}) = e
  BY DEF Max

(* The entries are finitely many. *)
LEMMA EntriesFinite == ASSUME NEW es \in SUBSET Entry PROVE IsFiniteSet(es) /\ Cardinality(es) \in Nat
  <1>1. IsFiniteSet(Entry)
    BY StreamsConstants, FS_Interval DEF Entry
  <1> QED
    BY <1>1, FS_Subset, FS_CardinalityType


-----------------------------------------------------------------------------
(* The inductive invariant *)

ServerTyped ==
    /\ foreign \in Strangers
    /\ published \in 0..Entries
    /\ stream \in [Entry -> Stream \cup {Nowhere}] /\ kept \subseteq Entry
    /\ group \subseteq Stream /\ last \in [Stream -> 0..Entries]
    /\ owner \in [Entry -> {Me, Peer, NoOne}]
    /\ idle \subseteq {e \in Entry : owner[e] # NoOne}
    /\ known \subseteq Stream
    /\ theirs \subseteq Entry
LocalTyped ==
    /\ step \in Labels
    /\ served \subseteq Stream
    /\ reclaimed \in BOOLEAN
    /\ keys \subseteq Stream
    /\ grouped \subseteq Stream
    /\ moves \in 0..MaxMoves /\ faults \in 0..MaxFaults
HandsTyped ==
    /\ upto \in [Stream -> 0..Exhausted]
    /\ unsettled \subseteq Entry
    /\ spare \in Seq(Entry)
    /\ sends \in [Entry -> Nat]
    /\ finished \subseteq Entry
    /\ answered \subseteq Entry /\ settled \subseteq Entry /\ dropped \subseteq Entry
    /\ stray \subseteq Entry
(* The type invariant in the parts an action leaves or touches together. *)
LEMMA TypesSplit == StreamsTypeOK <=> ServerTyped /\ LocalTyped /\ HandsTyped
  BY DEF StreamsTypeOK, ServerTyped, LocalTyped, HandsTyped
(* The same after a step. *)
LEMMA TypesSplitNext == StreamsTypeOK' <=> ServerTyped' /\ LocalTyped' /\ HandsTyped'
  BY DEF StreamsTypeOK, ServerTyped, LocalTyped, HandsTyped

Given(e) == e \notin kept \/ (stream[e] \in group /\ e <= last[stream[e]])
Spare == {spare[i] : i \in DOMAIN spare}

Log ==
    /\ \A e \in Entry : stream[e] = Nowhere <=> e > published
    /\ \A e \in kept : e <= published
    /\ \A s \in Stream : last[s] <= published
    /\ \A e \in Entry : owner[e] # NoOne => e \in kept /\ e \notin settled
    /\ \A e \in Entry : owner[e] # NoOne \/ e \in unsettled \cup Spare \cup theirs \cup settled =>
                          e <= published /\ Given(e)
Reach == \A e \in Entry : e <= published /\ e \notin settled \cup dropped =>
          e \in kept /\ (owner[e] = NoOne => stream[e] \notin group \/ e > last[stream[e]])
Cursor == \A e \in Entry \ (foreign \cup stray) : owner[e] = Me =>
          e \in unsettled \/ e \in Spare \/ e > upto[stream[e]]
Hands ==
    /\ \A e \in Entry : sends[e] <= 1 /\ (sends[e] > 0 => e \in unsettled \ finished)
    /\ finished \subseteq unsettled \cap answered
    /\ Spare \cap unsettled = {}
    /\ \A i, j \in DOMAIN spare : spare[i] = spare[j] => i = j
    /\ settled \subseteq answered
    /\ step \in {"read", "retry"} => spare = <<>>
    /\ step = "down" => upto = [s \in Stream |-> 0] /\ unsettled = {} /\ spare = <<>>
StreamsInv == StreamsTypeOK /\ Log /\ Reach /\ Cursor /\ Hands

(* What a list with no repetition holds once its head is out. *)
LEMMA HeadOut ==
  ASSUME NEW q \in Seq(Entry), q # <<>>, \A i, j \in DOMAIN q : q[i] = q[j] => i = j
  PROVE  /\ Head(q) \in Entry /\ Tail(q) \in Seq(Entry)
         /\ {Tail(q)[i] : i \in DOMAIN Tail(q)} = {q[i] : i \in DOMAIN q} \ {Head(q)}
         /\ \A i, j \in DOMAIN Tail(q) : Tail(q)[i] = Tail(q)[j] => i = j
         /\ Head(q) \in {q[i] : i \in DOMAIN q}
  <1>1. /\ Len(q) \in Nat \ {0} /\ DOMAIN q = 1..Len(q) /\ Head(q) = q[1] /\ q[1] \in Entry
        /\ Tail(q) \in Seq(Entry) /\ Len(Tail(q)) = Len(q) - 1 /\ DOMAIN Tail(q) = 1..(Len(q) - 1)
        /\ \A i \in 1..(Len(q) - 1) : Tail(q)[i] = q[i + 1]
    BY HeadTailProperties
  <1>2. \A i, j \in DOMAIN Tail(q) : Tail(q)[i] = Tail(q)[j] => i = j
    BY <1>1
  <1>3. \A e \in {q[i] : i \in DOMAIN q} \ {Head(q)} : e \in {Tail(q)[i] : i \in DOMAIN Tail(q)}
    <2> SUFFICES ASSUME NEW i \in 1..Len(q), q[i] # q[1] PROVE \E j \in DOMAIN Tail(q) : Tail(q)[j] = q[i]
      BY <1>1
    <2>1. i - 1 \in 1..(Len(q) - 1) /\ (i - 1) + 1 = i
      BY <1>1
    <2> QED
      BY <1>1, <2>1
  <1>4. \A i \in DOMAIN Tail(q) : Tail(q)[i] \in {q[j] : j \in DOMAIN q} \ {Head(q)}
    <2> TAKE i \in DOMAIN Tail(q)
    <2>1. i + 1 \in 1..Len(q) /\ i + 1 # 1 /\ 1 \in 1..Len(q)
      BY <1>1
    <2> QED
      BY <1>1, <2>1
  <1> QED
    BY <1>1, <1>2, <1>3, <1>4

USE StreamsConstants

(* A group that is created again delivers its stream from the start: what  *)
(* it had delivered went with the stream.                                  *)
LEMMA Placed ==
  ASSUME StreamsTypeOK, Log, NEW e \in Entry, e <= published
  PROVE  stream[e] \in Stream /\ last[stream[e]] \in Nat /\ last[stream[e]] <= Entries /\ e \in Nat /\ e > 0 /\ ~(e > published)
  <1>1. e \in Nat /\ e > 0 /\ published \in Nat
    BY DEF StreamsTypeOK
  <1>2. stream[e] # Nowhere
    BY <1>1 DEF Log
  <1>3. stream[e] \in Stream
    BY <1>2 DEF StreamsTypeOK
  <1>4. last[stream[e]] \in 0..Entries
    BY <1>3 DEF StreamsTypeOK
  <1> QED
    BY <1>1, <1>3, <1>4

(* A group that is created again delivers its stream from the start: what  *)
(* it had delivered went with the stream.                                  *)
LEMMA Grouped ==
  ASSUME StreamsTypeOK, Log, Reach, NEW ss \in SUBSET Stream, group' = group \cup ss, last' = Created(ss),
         UNCHANGED <<published, stream, kept, settled, dropped>>,
         \A e \in Entry : owner'[e] = NoOne <=> owner[e] = NoOne
  PROVE  /\ \A e \in Entry : Given(e) => Given(e)'
         /\ Reach' /\ \A s \in Stream : last'[s] <= published'
  <1>1. ServerTyped
    BY TypesSplit
  <1>2. /\ \A s \in group : last'[s] = last[s] /\ s \in group'
        /\ \A s \in Stream : last'[s] <= last[s] /\ (s \in ss \ group => last'[s] = 0)
    BY <1>1 DEF Created, ServerTyped
  <1>3. \A e \in Entry : Given(e) => Given(e)'
    BY <1>1, <1>2 DEF Given, ServerTyped
  <1>4. Reach'
    <2> SUFFICES ASSUME NEW e \in Entry, e <= published, e \notin settled \cup dropped, owner[e] = NoOne,
                        stream[e] \in group'
                 PROVE  e > last'[stream[e]]
      BY DEF Reach
    <2>1. stream[e] \in Stream /\ last[stream[e]] \in Nat /\ e > 0
      BY Placed
    <2>2. CASE stream[e] \in group
      BY <1>2, <2>1, <2>2 DEF Reach
    <2>3. CASE stream[e] \notin group
      <3>1. stream[e] \in ss \ group
        BY <2>3
      <3> QED
        BY <1>2, <2>1, <3>1
    <2> QED
      BY <2>2, <2>3
  <1>5. \A s \in Stream : last'[s] <= published'
    <2> TAKE s \in Stream
    <2>1. last[s] \in Nat /\ published \in Nat /\ last[s] <= published /\ last'[s] \in Nat
      BY <1>1 DEF Log, ServerTyped, Created
    <2> QED
      BY <1>2, <2>1
  <1> QED
    BY <1>3, <1>4, <1>5

(* Dropping the first spare keeps the others as they were. *)
LEMMA SparePops ==
  ASSUME StreamsTypeOK, Hands, spare # <<>>, spare' = Tail(spare)
  PROVE  /\ Head(spare) \in Entry /\ spare' \in Seq(Entry) /\ Head(spare) \in Spare
         /\ Spare' = Spare \ {Head(spare)}
         /\ \A i, j \in DOMAIN spare' : spare'[i] = spare'[j] => i = j
  <1> DEFINE q == Tail(spare)
             e == Head(spare)
  <1>1. /\ e \in Entry /\ q \in Seq(Entry) /\ e \in Spare
        /\ {q[i] : i \in DOMAIN q} = Spare \ {e}
        /\ \A i, j \in DOMAIN q : q[i] = q[j] => i = j
    BY HeadOut DEF StreamsTypeOK, Hands, Spare
  <1>2. spare' = q
    OBVIOUS
  <1> HIDE DEF q, e
  <1>3. Spare' = {q[i] : i \in DOMAIN q}
    BY <1>2 DEF Spare
  <1>4. /\ e \in Entry /\ spare' \in Seq(Entry) /\ e \in Spare
        /\ Spare' = Spare \ {e}
        /\ \A i, j \in DOMAIN spare' : spare'[i] = spare'[j] => i = j
    BY <1>1, <1>2, <1>3
  <1> QED
    BY <1>4 DEF e

(* A created group starts at the beginning, and no other is moved. *)
LEMMA CreatedTyped ==
  ASSUME last \in [Stream -> 0..Entries], NEW ss \in SUBSET Stream
  PROVE  /\ Created(ss) \in [Stream -> 0..Entries]
         /\ \A s \in Stream : Created(ss)[s] = last[s] \/ s \notin group
         /\ \A s \in Stream : Created(ss)[s] = 0 \/ s \in group \/ s \notin ss
  BY DEF Created

(* What holds at the start. *)
LEMMA AtTheStart == StreamsInit => StreamsInv
  <1> SUFFICES ASSUME StreamsInit PROVE StreamsInv
    OBVIOUS
  <1>1. StreamsTypeOK
    <2>1. ServerTyped
      BY DEF StreamsInit, ServerTyped
    <2>2. LocalTyped
      <3>1. reclaimed \in BOOLEAN
        BY DEF StreamsInit
      <3>2. moves \in 0..MaxMoves /\ faults \in 0..MaxFaults
        BY DEF StreamsInit
      <3> QED
        BY <3>1, <3>2 DEF StreamsInit, LocalTyped, Labels
    <2>3. HandsTyped
      BY DEF StreamsInit, HandsTyped, None
    <2> QED
      BY <2>1, <2>2, <2>3, TypesSplit
  <1>2. Spare = {}
    BY DEF StreamsInit, Spare
  <1>3. Log /\ Reach /\ Cursor /\ Hands
    BY <1>2 DEF StreamsInit, Log, Reach, Cursor, Hands, Given, None, Nowhere
  <1> QED
    BY <1>1, <1>3 DEF StreamsInv

(* publish adds a new entry past every cursor. *)
LEMMA PublishKeeps == ASSUME StreamsInv, NEW s \in Stream, Publish(s) PROVE StreamsInv'
  <1> USE DEF StreamsInv, Publish, server, broker, lane, control, history, local, streamsVars
  <1>0. Spare' = Spare /\ spare' = spare
    BY DEF Spare
  <1>n. published + 1 \in Entry /\ published + 1 \in 0..Entries /\ published \in Nat
    BY DEF StreamsTypeOK, Entry
  <1>g. /\ group' = group \/ group' = group \cup {s}
        /\ last' \in [Stream -> 0..Entries]
        /\ \A r \in Stream : last'[r] = last[r] \/ (last'[r] = 0 /\ r \notin group)
        /\ \A r \in group' : r \in group \/ last'[r] = 0
    <2>1. last \in [Stream -> 0..Entries] /\ group \subseteq Stream
      BY DEF StreamsTypeOK
    <2>2. CASE s \in known
      BY <2>1, <2>2
    <2>3. CASE s \notin known
      <3>1. group' = group \cup {s} /\ last' = Created({s})
        BY <2>3
      <3>2. \A r \in Stream : r \notin {s} \ group => last'[r] = last[r]
        BY <3>1 DEF Created
      <3>3. s \notin group => last'[s] = 0
        BY <3>1 DEF Created
      <3>4. last' \in [Stream -> 0..Entries]
        BY <2>1, <3>1, CreatedTyped
      <3> HIDE DEF Publish
      <3> QED
        BY <2>1, <3>1, <3>2, <3>3, <3>4
    <2> QED
      BY <2>2, <2>3
  <1>1. StreamsTypeOK'
    <2>0. ServerTyped /\ LocalTyped /\ HandsTyped
      BY TypesSplit
    <2>1. ServerTyped'
      <3>1. stream' \in [Entry -> Stream \cup {Nowhere}]
        BY <1>n, <2>0 DEF ServerTyped
      <3>2. group' \subseteq Stream /\ kept' \subseteq Entry
        BY <1>n, <1>g, <2>0 DEF ServerTyped
      <3>3. known' \subseteq Stream
        BY <2>0 DEF ServerTyped
      <3> QED
        BY <1>n, <1>g, <2>0, <3>1, <3>2, <3>3 DEF ServerTyped
    <2>2. LocalTyped'
      BY <1>0, <2>0 DEF LocalTyped, Labels
    <2>3. HandsTyped'
      BY <1>0, <2>0 DEF HandsTyped, None
    <2> QED
      BY <2>1, <2>2, <2>3, TypesSplitNext
  <1>p. /\ \A e \in Entry : stream'[e] = IF e = published + 1 THEN s ELSE stream[e]
        /\ \A e \in Entry : e <= published => stream'[e] = stream[e]
    BY <1>n DEF StreamsTypeOK
  <1>q. \A r \in Stream : last'[r] <= published
    BY <1>g, <1>n DEF Log, StreamsTypeOK
  <1>2. Log'
    <2>1. \A e \in Entry : stream'[e] = Nowhere <=> e > published'
      BY <1>n, <1>p DEF Log
    <2>2. \A r \in Stream : last'[r] <= published'
      BY <1>g, <1>n, <1>q
    <2>3. \A e \in Entry : e <= published /\ Given(e) => Given(e)'
      <3> SUFFICES ASSUME NEW e \in Entry, e <= published, Given(e) PROVE Given(e)'
        OBVIOUS
      <3>1. stream'[e] = stream[e]
        BY <1>p
      <3>2. CASE e \notin kept
        BY <1>n, <3>2 DEF Given
      <3>3. CASE stream[e] \in group /\ e <= last[stream[e]]
        <4>1. stream[e] \in Stream /\ stream[e] \in group' /\ last'[stream[e]] = last[stream[e]]
          BY <1>g, <3>3 DEF StreamsTypeOK
        <4> HIDE DEF Publish
        <4> QED
          BY <3>1, <3>3, <4>1 DEF Given
      <3> QED
        BY <3>2, <3>3 DEF Given
    <2>4. \A e \in kept' : e <= published'
      BY <1>n DEF Log, StreamsTypeOK
    <2>5. \A e \in Entry : e <= published => e <= published'
      BY <1>n
    <2> QED
      BY <1>0, <2>1, <2>2, <2>3, <2>4, <2>5 DEF Log
  <1>3. Reach'
    <2> SUFFICES ASSUME NEW e \in Entry, e <= published + 1, e \notin settled \cup dropped
                 PROVE  e \in kept' /\ (owner[e] = NoOne => stream'[e] \notin group' \/ e > last'[stream'[e]])
      BY DEF Reach
    <2>1. CASE e = published + 1
      BY <1>n, <1>p, <1>q, <1>g, <2>1 DEF StreamsTypeOK
    <2>2. CASE e <= published
      <3>1. stream[e] \in Stream /\ last[stream[e]] \in Nat /\ e > 0 /\ stream'[e] = stream[e]
        BY <1>p, <2>2, Placed
      <3> QED
        BY <1>g, <2>2, <3>1 DEF Reach
    <2> QED
      BY <1>n, <2>1, <2>2
  <1>4. Cursor'
    <2>1. \A e \in Entry : owner[e] # NoOne => stream'[e] = stream[e]
      BY <1>p DEF Log
    <2> QED
      BY <1>0, <1>1, <2>1 DEF Cursor, StreamsTypeOK
  <1>5. Hands'
    BY <1>0, <1>1 DEF Hands, Log, StreamsTypeOK, Given, None
  <1> QED
    BY <1>1, <1>2, <1>3, <1>4, <1>5

(* trim drops only what is acknowledged: what is older than every pending  *)
(* entry is neither pending nor new.                                       *)
LEMMA TrimKeeps == ASSUME StreamsInv, NEW s \in Stream, Trim(s) PROVE StreamsInv'
  <1> USE DEF StreamsInv, Trim, Trimmed, Pending, Holding, server, broker, lane, control, history, local, streamsVars
  <1>0. Spare' = Spare /\ spare' = spare
    BY DEF Spare
  <1>1. StreamsTypeOK'
    <2>0. ServerTyped /\ LocalTyped /\ HandsTyped
      BY TypesSplit
    <2>1. ServerTyped'
      BY <1>0, <2>0 DEF ServerTyped
    <2>2. LocalTyped'
      BY <1>0, <2>0 DEF LocalTyped, Labels
    <2>3. HandsTyped'
      BY <1>0, <2>0 DEF HandsTyped, None
    <2> QED
      BY <2>1, <2>2, <2>3, TypesSplitNext
  <1>2. Log'
    BY <1>0, <1>1 DEF Log, StreamsTypeOK, Hands, Given, Nowhere
  <1>3. Reach'
    <2>1. ASSUME NEW e \in Trimmed(s), e \notin settled \cup dropped PROVE FALSE
      <3>1. PICK f \in Pending(s) : e < f
        OBVIOUS
      <3>2. /\ e \in Entry /\ f \in Entry /\ stream[e] = s /\ stream[f] = s /\ owner[e] = NoOne
            /\ e <= published /\ f <= last[s] /\ last[s] \in Nat
        BY <2>1, <3>1 DEF Log, Given, StreamsTypeOK
      <3>3. e > last[s]
        BY <2>1, <3>2 DEF Reach
      <3> QED
        BY <3>1, <3>2, <3>3
    <2> QED
      BY <2>1 DEF Reach, StreamsTypeOK
  <1>4. Cursor'
    BY <1>0, <1>1 DEF Cursor, Log, StreamsTypeOK, Hands, Given, Nowhere
  <1>5. Hands'
    BY <1>0, <1>1 DEF Hands, Log, StreamsTypeOK, Given, None
  <1> QED
    BY <1>1, <1>2, <1>3, <1>4, <1>5

(* discard removes the stream with all it held. *)
LEMMA DeleteKeeps == ASSUME StreamsInv, NEW s \in Stream, Delete(s), Fault PROVE StreamsInv'
  <1> USE DEF StreamsInv, Delete, Fault, Holding, server, broker, lane, control, history, local, streamsVars
  <1>0. Spare' = Spare /\ spare' = spare
    BY DEF Spare
  <1>1. StreamsTypeOK'
    <2>0. ServerTyped /\ LocalTyped /\ HandsTyped
      BY TypesSplit
    <2>1. ServerTyped'
      <3>1. last' \in [Stream -> 0..Entries] /\ owner' \in [Entry -> {Me, Peer, NoOne}]
        BY <2>0 DEF ServerTyped
      <3>2. idle' \subseteq {e \in Entry : owner'[e] # NoOne}
        BY <2>0 DEF ServerTyped
      <3> QED
        BY <2>0, <3>1, <3>2 DEF ServerTyped
    <2>2. LocalTyped'
      BY <1>0, <2>0 DEF LocalTyped, Labels
    <2>3. HandsTyped'
      BY <1>0, <2>0 DEF HandsTyped, ServerTyped, None
    <2> QED
      BY <2>1, <2>2, <2>3, TypesSplitNext
  <1>2. Log'
    BY <1>0, <1>1 DEF Log, StreamsTypeOK, Hands, Given, Nowhere
  <1>3. Reach'
    BY <1>0, <1>1 DEF Reach, Log, StreamsTypeOK, Given, Nowhere
  <1>4. Cursor'
    BY <1>0, <1>1 DEF Cursor, Log, StreamsTypeOK, Hands, Given, Nowhere
  <1>5. Hands'
    BY <1>0, <1>1 DEF Hands, Log, StreamsTypeOK, Given, None
  <1> QED
    BY <1>1, <1>2, <1>3, <1>4, <1>5

(* A crash forgets the cursors, so everything pending is ahead of them. *)
LEMMA CrashKeeps == ASSUME StreamsInv, Crash PROVE StreamsInv'
  <1> USE DEF StreamsInv, Crash, Fault, Back, AtStep, Goto, server, broker, lane, control, history, local, streamsVars
  <1>0. Spare' = {} /\ spare' = <<>>
    BY DEF Spare
  <1>1. StreamsTypeOK'
    <2>0. ServerTyped /\ LocalTyped /\ HandsTyped
      BY TypesSplit
    <2>1. ServerTyped'
      BY <1>0, <2>0 DEF ServerTyped
    <2>2. LocalTyped'
      <3>1. faults' \in 0..MaxFaults
        BY <2>0 DEF LocalTyped
      <3> QED
        BY <2>0, <3>1, Zenon DEF LocalTyped, Labels
    <2>3. HandsTyped'
      BY <1>0, <2>0 DEF HandsTyped, None
    <2> QED
      BY <2>1, <2>2, <2>3, TypesSplitNext
  <1>2. Log'
    BY <1>0, <1>1 DEF Log, StreamsTypeOK, Hands, Given, Nowhere
  <1>3. Reach'
    BY <1>0, <1>1 DEF Reach, Log, StreamsTypeOK, Given, Nowhere
  <1>4. Cursor'
    BY <1>0, <1>1 DEF Cursor, Log, StreamsTypeOK, Hands, Given, Nowhere
  <1>5. Hands'
    BY <1>0, <1>1 DEF Hands, Log, StreamsTypeOK, Given, None
  <1> QED
    BY <1>1, <1>2, <1>3, <1>4, <1>5

(* Changing the streams served touches no entry. *)
LEMMA ServeKeeps == ASSUME StreamsInv, Serve PROVE StreamsInv'
  <1> USE DEF StreamsInv, Serve, AtStep, server, broker, lane, control, history, local, streamsVars
  <1>0. Spare' = Spare /\ spare' = spare
    BY DEF Spare
  <1>1. StreamsTypeOK'
    <2>0. ServerTyped /\ LocalTyped /\ HandsTyped
      BY TypesSplit
    <2>1. ServerTyped'
      BY <1>0, <2>0 DEF ServerTyped
    <2>2. LocalTyped'
      BY <1>0, <2>0 DEF LocalTyped, Labels
    <2>3. HandsTyped'
      BY <1>0, <2>0 DEF HandsTyped, None
    <2> QED
      BY <2>1, <2>2, <2>3, TypesSplitNext
  <1>2. Log'
    BY <1>0, <1>1 DEF Log, StreamsTypeOK, Hands, Given, Nowhere
  <1>3. Reach'
    BY <1>0, <1>1 DEF Reach, Log, StreamsTypeOK, Given, Nowhere
  <1>4. Cursor'
    BY <1>0, <1>1 DEF Cursor, Log, StreamsTypeOK, Hands, Given, Nowhere
  <1>5. Hands'
    BY <1>0, <1>1 DEF Hands, Log, StreamsTypeOK, Given, None
  <1> QED
    BY <1>1, <1>2, <1>3, <1>4, <1>5

(* ack takes the entry off the pending list and out of the hands. *)
LEMMA AckKeeps == ASSUME StreamsInv, NEW e \in Entry, Ack(e) PROVE StreamsInv'
  <1> USE DEF StreamsInv, Ack, Fault, AtStep, server, broker, lane, control, history, local, streamsVars
  <1>0. Spare' = Spare /\ spare' = spare
    BY DEF Spare
  <1>1. StreamsTypeOK'
    <2>0. ServerTyped /\ LocalTyped /\ HandsTyped
      BY TypesSplit
    <2>1. ServerTyped'
      BY <1>0, <2>0 DEF ServerTyped
    <2>2. LocalTyped'
      BY <1>0, <2>0 DEF LocalTyped, Labels
    <2>3. HandsTyped'
      BY <1>0, <2>0 DEF HandsTyped, None
    <2> QED
      BY <2>1, <2>2, <2>3, TypesSplitNext
  <1>2. Log'
    BY <1>0, <1>1 DEF Log, StreamsTypeOK, Hands, Given, Nowhere
  <1>3. Reach'
    BY <1>0, <1>1 DEF Reach, Log, StreamsTypeOK, Given, Nowhere
  <1>4. Cursor'
    BY <1>0, <1>1 DEF Cursor, Log, StreamsTypeOK, Hands, Given, Nowhere
  <1>5. Hands'
    BY <1>0, <1>1 DEF Hands, Log, StreamsTypeOK, Given, None
  <1> QED
    BY <1>1, <1>2, <1>3, <1>4, <1>5

(* Waiting for a slot touches no entry. *)
LEMMA HoldKeeps == ASSUME StreamsInv, Hold PROVE StreamsInv'
  <1> USE DEF StreamsInv, Hold, AtStep, Goto, server, broker, lane, control, history, local, streamsVars
  <1>0. Spare' = Spare /\ spare' = spare
    BY DEF Spare
  <1>1. StreamsTypeOK'
    <2>0. ServerTyped /\ LocalTyped /\ HandsTyped
      BY TypesSplit
    <2>1. ServerTyped'
      BY <1>0, <2>0 DEF ServerTyped
    <2>2. LocalTyped'
      BY <1>0, <2>0 DEF LocalTyped, Labels
    <2>3. HandsTyped'
      BY <1>0, <2>0 DEF HandsTyped, None
    <2> QED
      BY <2>1, <2>2, <2>3, TypesSplitNext
  <1>2. Log'
    BY <1>0, <1>1 DEF Log, StreamsTypeOK, Hands, Given, Nowhere
  <1>3. Reach'
    BY <1>0, <1>1 DEF Reach, Log, StreamsTypeOK, Given, Nowhere
  <1>4. Cursor'
    BY <1>0, <1>1 DEF Cursor, Log, StreamsTypeOK, Hands, Given, Nowhere
  <1>5. Hands'
    BY <1>0, <1>1 DEF Hands, Log, StreamsTypeOK, Given, None
  <1> QED
    BY <1>1, <1>2, <1>3, <1>4, <1>5

(* A take prepares its groups and moves no cursor. *)
LEMMA TakeStartsKeeps == ASSUME StreamsInv, TakeStarts PROVE StreamsInv'
  <1> USE DEF StreamsInv, TakeStarts, AtStep, Goto, Ready, Usable, Fault, server, broker, lane, control, history, local, streamsVars
  <1>0. Spare' = Spare /\ spare' = spare
    BY DEF Spare
  <1>1. StreamsTypeOK'
    <2>0. ServerTyped /\ LocalTyped /\ HandsTyped
      BY TypesSplit
    <2>1. ServerTyped'
      BY <1>0, <2>0, CreatedTyped DEF ServerTyped, LocalTyped
    <2>2. LocalTyped'
      BY <1>0, <2>0 DEF LocalTyped, Labels
    <2>3. HandsTyped'
      BY <1>0, <2>0 DEF HandsTyped, None
    <2> QED
      BY <2>1, <2>2, <2>3, TypesSplitNext
  <1>a. /\ \A e \in Entry : Given(e) => Given(e)'
        /\ Reach' /\ \A s \in Stream : last'[s] <= published'
    BY Grouped, TypesSplit DEF ServerTyped, LocalTyped
  <1>2. Log'
    BY <1>0, <1>1, <1>a DEF Log
  <1>3. Reach'
    BY <1>a
  <1>4. Cursor'
    BY <1>0, <1>1 DEF Cursor, Log, StreamsTypeOK, Hands, Given, Nowhere
  <1>5. Hands'
    BY <1>0, <1>1 DEF Hands, Log, StreamsTypeOK, Given, None
  <1> QED
    BY <1>1, <1>2, <1>3, <1>4, <1>5

(* A spare is handed out once: it was in no hands and is a spare no more. *)
LEMMA TakeSpareKeeps == ASSUME StreamsInv, TakeSpare PROVE StreamsInv'
  <1> USE DEF StreamsInv, server, broker, lane, control, history, local
  <1>0. PICK e \in Entry :
           /\ spare' \in Seq(Entry) /\ e \in Spare /\ Spare' = Spare \ {e}
           /\ \A i, j \in DOMAIN spare' : spare'[i] = spare'[j] => i = j
           /\ unsettled' = unsettled \cup {e} /\ sends' = [sends EXCEPT ![e] = @ + 1]
           /\ step' = "turn" /\ keys' = {}
           /\ UNCHANGED <<server, lane, reclaimed, grouped, upto, finished, theirs, history, faults>>
    BY SparePops DEF TakeSpare, Hand, Back, Goto
  <1>1. StreamsTypeOK'
    <2>0. ServerTyped /\ LocalTyped /\ HandsTyped
      BY TypesSplit
    <2>1. ServerTyped'
      BY <1>0, <2>0 DEF ServerTyped
    <2>2. LocalTyped'
      BY <1>0, <2>0 DEF LocalTyped, Labels
    <2>3. HandsTyped'
      <3>1. sends' \in [Entry -> Nat]
        BY <1>0, <2>0 DEF HandsTyped
      <3> QED
        BY <1>0, <2>0, <3>1 DEF HandsTyped
    <2> QED
      BY <2>1, <2>2, <2>3, TypesSplitNext
  <1>2. Log'
    BY <1>0, <1>1 DEF Log, StreamsTypeOK, Hands, Given, Nowhere
  <1>3. Reach'
    BY <1>0, <1>1 DEF Reach, Log, StreamsTypeOK, Given, Nowhere
  <1>4. Cursor'
    BY <1>0, <1>1 DEF Cursor, Log, StreamsTypeOK, Hands, Given, Nowhere
  <1>5. Hands'
    BY <1>0, <1>1 DEF Hands, Log, StreamsTypeOK, Given, None
  <1> QED
    BY <1>1, <1>2, <1>3, <1>4, <1>5

(* A released spare is ahead of the cursor again. *)
LEMMA ReleaseSpareKeeps == ASSUME StreamsInv, ReleaseSpare PROVE StreamsInv'
  <1> USE DEF StreamsInv, AtStep, server, broker, lane, control, history, local
  <1>0. PICK e \in Entry :
           /\ spare' \in Seq(Entry) /\ e \in Spare /\ Spare' = Spare \ {e}
           /\ \A i, j \in DOMAIN spare' : spare'[i] = spare'[j] => i = j
           /\ step = "held" /\ stream[e] \in group
           /\ IF owner[e] = NoOne
              THEN UNCHANGED <<owner, idle>>
              ELSE owner' = [owner EXCEPT ![e] = Me] /\ idle' = idle \cup {e}
           /\ unsettled' = unsettled \ {e}
           /\ upto' = [upto EXCEPT ![stream[e]] = 0]
           /\ UNCHANGED <<foreign, published, stream, kept, group, last, known, control, grouped, sends,
                          finished, theirs, history, faults>>
    BY SparePops DEF ReleaseSpare
  <1>1. StreamsTypeOK'
    <2>0. ServerTyped /\ LocalTyped /\ HandsTyped
      BY TypesSplit
    <2>1. ServerTyped'
      <3>1. owner' \in [Entry -> {Me, Peer, NoOne}] /\ idle' \subseteq {f \in Entry : owner'[f] # NoOne}
        <4>1. CASE owner[e] = NoOne
          BY <1>0, <2>0, <4>1 DEF ServerTyped
        <4>2. CASE owner[e] # NoOne
          <5>1. /\ owner \in [Entry -> {Me, Peer, NoOne}] /\ idle \subseteq {f \in Entry : owner[f] # NoOne}
                /\ owner' = [owner EXCEPT ![e] = Me] /\ idle' = idle \cup {e}
            BY <1>0, <2>0, <4>2 DEF ServerTyped
          <5>2. owner' \in [Entry -> {Me, Peer, NoOne}] /\ \A f \in Entry : owner'[f] = IF f = e THEN Me ELSE owner[f]
            BY <5>1
          <5> QED
            BY <5>1, <5>2
        <4> QED
          BY <4>1, <4>2
      <3> QED
        BY <1>0, <2>0, <3>1 DEF ServerTyped
    <2>2. LocalTyped'
      BY <1>0, <2>0 DEF LocalTyped, Labels
    <2>3. HandsTyped'
      <3>1. upto' \in [Stream -> 0..Exhausted]
        <4>1. upto \in [Stream -> 0..Exhausted] /\ upto' = [upto EXCEPT ![stream[e]] = 0]
          BY <1>0, <2>0 DEF HandsTyped
        <4>2. 0 \in 0..Exhausted
          OBVIOUS
        <4> HIDE <1>0
        <4> QED
          BY <4>1, <4>2, Zenon
      <3> QED
        BY <1>0, <2>0, <3>1 DEF HandsTyped
    <2> QED
      BY <2>1, <2>2, <2>3, TypesSplitNext
  <1>2. Log'
    BY <1>0, <1>1 DEF Log, StreamsTypeOK, Hands, Given, Nowhere
  <1>3. Reach'
    BY <1>0, <1>1 DEF Reach, Log, StreamsTypeOK, Given, Nowhere
  <1>4. Cursor'
    BY <1>0, <1>1 DEF Cursor, Log, StreamsTypeOK, Hands, Given, Nowhere
  <1>5. Hands'
    BY <1>0, <1>1 DEF Hands, Log, StreamsTypeOK, Given, None
  <1> QED
    BY <1>1, <1>2, <1>3, <1>4, <1>5

(* A spare whose release failed is remembered as stray. *)
LEMMA ReleaseRaisesKeeps == ASSUME StreamsInv, ReleaseRaises PROVE StreamsInv'
  <1> USE DEF StreamsInv, ReleaseRaises, AtStep, Back, Goto, Fault, server, broker, lane, control, history, local, streamsVars
  <1>0. /\ Head(spare) \in Entry /\ spare' \in Seq(Entry) /\ Head(spare) \in Spare
        /\ Spare' = Spare \ {Head(spare)}
        /\ \A i, j \in DOMAIN spare' : spare'[i] = spare'[j] => i = j
    BY SparePops
  <1>1. StreamsTypeOK'
    <2>0. ServerTyped /\ LocalTyped /\ HandsTyped
      BY TypesSplit
    <2>1. ServerTyped'
      BY <1>0, <2>0 DEF ServerTyped
    <2>2. LocalTyped'
      BY <1>0, <2>0 DEF LocalTyped, Labels
    <2>3. HandsTyped'
      BY <1>0, <2>0 DEF HandsTyped, None
    <2> QED
      BY <2>1, <2>2, <2>3, TypesSplitNext
  <1>2. Log'
    BY <1>0, <1>1 DEF Log, StreamsTypeOK, Hands, Given, Nowhere
  <1>3. Reach'
    BY <1>0, <1>1 DEF Reach, Log, StreamsTypeOK, Given, Nowhere
  <1>4. Cursor'
    BY <1>0, <1>1 DEF Cursor, Log, StreamsTypeOK, Hands, Given, Nowhere
  <1>5. Hands'
    BY <1>0, <1>1 DEF Hands, Log, StreamsTypeOK, Given, None
  <1> QED
    BY <1>1, <1>2, <1>3, <1>4, <1>5

(* A take that raises leaves every entry where it was. *)
LEMMA TakeRaisesKeeps == ASSUME StreamsInv, TakeRaises PROVE StreamsInv'
  <1> USE DEF StreamsInv, TakeRaises, AtStep, Back, Goto, Fault, server, broker, lane, control, history, local, streamsVars
  <1>0. Spare' = Spare /\ spare' = spare
    BY DEF Spare
  <1>1. StreamsTypeOK'
    <2>0. ServerTyped /\ LocalTyped /\ HandsTyped
      BY TypesSplit
    <2>1. ServerTyped'
      BY <1>0, <2>0 DEF ServerTyped
    <2>2. LocalTyped'
      BY <1>0, <2>0 DEF LocalTyped, Labels
    <2>3. HandsTyped'
      BY <1>0, <2>0 DEF HandsTyped, None
    <2> QED
      BY <2>1, <2>2, <2>3, TypesSplitNext
  <1>2. Log'
    BY <1>0, <1>1 DEF Log, StreamsTypeOK, Hands, Given, Nowhere
  <1>3. Reach'
    BY <1>0, <1>1 DEF Reach, Log, StreamsTypeOK, Given, Nowhere
  <1>4. Cursor'
    BY <1>0, <1>1 DEF Cursor, Log, StreamsTypeOK, Hands, Given, Nowhere
  <1>5. Hands'
    BY <1>0, <1>1 DEF Hands, Log, StreamsTypeOK, Given, None
  <1> QED
    BY <1>1, <1>2, <1>3, <1>4, <1>5

(* Groups created again come with every cursor forgotten. *)
LEMMA RegroupKeeps == ASSUME StreamsInv, Regroup PROVE StreamsInv'
  <1> USE DEF StreamsInv, Regroup, AtStep, Goto, server, broker, lane, control, history, local, streamsVars
  <1>0. Spare' = Spare /\ spare' = spare
    BY DEF Spare
  <1>1. StreamsTypeOK'
    <2>0. ServerTyped /\ LocalTyped /\ HandsTyped
      BY TypesSplit
    <2>1. ServerTyped'
      BY <1>0, <2>0, CreatedTyped DEF ServerTyped, LocalTyped
    <2>2. LocalTyped'
      BY <1>0, <2>0 DEF LocalTyped, Labels
    <2>3. HandsTyped'
      BY <1>0, <2>0 DEF HandsTyped, None
    <2> QED
      BY <2>1, <2>2, <2>3, TypesSplitNext
  <1>a. /\ \A e \in Entry : Given(e) => Given(e)'
        /\ Reach' /\ \A s \in Stream : last'[s] <= published'
    BY Grouped, TypesSplit DEF ServerTyped, LocalTyped
  <1>2. Log'
    BY <1>0, <1>1, <1>a DEF Log
  <1>3. Reach'
    BY <1>a
  <1>4. Cursor'
    BY <1>0, <1>1 DEF Cursor, Log, StreamsTypeOK, Hands, Given, Nowhere
  <1>5. Hands'
    BY <1>0, <1>1 DEF Hands, Log, StreamsTypeOK, Given, None
  <1> QED
    BY <1>1, <1>2, <1>3, <1>4, <1>5

(* A send that ends makes its entry answered, still in the hands. *)
LEMMA CompleteKeeps == ASSUME StreamsInv, NEW e \in Entry, Complete(e) PROVE StreamsInv'
  <1> USE DEF StreamsInv, Complete, server, broker, lane, control, history, local, streamsVars
  <1>0. Spare' = Spare /\ spare' = spare
    BY DEF Spare
  <1>1. StreamsTypeOK'
    <2>0. ServerTyped /\ LocalTyped /\ HandsTyped
      BY TypesSplit
    <2>1. ServerTyped'
      BY <1>0, <2>0 DEF ServerTyped
    <2>2. LocalTyped'
      BY <1>0, <2>0 DEF LocalTyped, Labels
    <2>3. HandsTyped'
      BY <1>0, <2>0 DEF HandsTyped, None
    <2> QED
      BY <2>1, <2>2, <2>3, TypesSplitNext
  <1>2. Log'
    BY <1>0, <1>1 DEF Log, StreamsTypeOK, Hands, Given, Nowhere
  <1>3. Reach'
    BY <1>0, <1>1 DEF Reach, Log, StreamsTypeOK, Given, Nowhere
  <1>4. Cursor'
    BY <1>0, <1>1 DEF Cursor, Log, StreamsTypeOK, Hands, Given, Nowhere
  <1>5. Hands'
    BY <1>0, <1>1 DEF Hands, Log, StreamsTypeOK, Given, None
  <1> QED
    BY <1>1, <1>2, <1>3, <1>4, <1>5

(* A peer reads the oldest new entry: nothing before it was new. *)
LEMMA PeerReadsKeeps == ASSUME StreamsInv, NEW s \in Stream, PeerReads(s) PROVE StreamsInv'
  <1> DEFINE m == Min(New(s))
  <1>n. PICK n \in Entry :
        /\ n = m /\ n \in kept /\ stream[n] = s /\ n > last[s] /\ n <= published
        /\ \A e \in Entry : e \in kept /\ stream[e] = s /\ e > last[s] => n <= e
    <2>1. New(s) \in SUBSET Nat /\ New(s) # {} /\ New(s) \subseteq kept
      BY DEF PeerReads, New, Holding, StreamsInv, StreamsTypeOK
    <2>2. m \in New(s) /\ \A e \in New(s) : m <= e
      BY <2>1, LeastIsMin
    <2> QED
      BY <2>1, <2>2 DEF New, Holding, StreamsInv, StreamsTypeOK, Log
  <1>m. /\ s \in group /\ owner' = [owner EXCEPT ![n] = Peer] /\ last' = [last EXCEPT ![s] = n]
        /\ theirs' = theirs \cup ({n} \ foreign)
        /\ UNCHANGED <<foreign, published, stream, kept, group, idle, known, local, history, faults>>
    BY <1>n DEF PeerReads
  <1> HIDE DEF m
  <1> USE DEF StreamsInv, server, broker, lane, control, history, local, streamsVars
  <1>0. Spare' = Spare /\ spare' = spare
    BY <1>m DEF Spare
  <1>1. StreamsTypeOK'
    <2>0. ServerTyped /\ LocalTyped /\ HandsTyped
      BY TypesSplit
    <2>1. ServerTyped'
      <3>1. /\ last' \in [Stream -> 0..Entries] /\ owner' \in [Entry -> {Me, Peer, NoOne}]
            /\ idle' \subseteq {e \in Entry : owner'[e] # NoOne} /\ theirs' \subseteq Entry
        <4>1. n \in 0..Entries
          BY DEF Entry
        <4>2. last' \in [Stream -> 0..Entries]
          BY <1>m, <2>0, <4>1 DEF ServerTyped
        <4>3. owner' \in [Entry -> {Me, Peer, NoOne}] /\ idle' \subseteq {e \in Entry : owner'[e] # NoOne}
          BY <1>m, <2>0 DEF ServerTyped
        <4> QED
          BY <1>m, <2>0, <4>2, <4>3 DEF ServerTyped
      <3> QED
        BY <1>m, <2>0, <3>1 DEF ServerTyped
    <2>2. LocalTyped'
      BY <1>m, <2>0 DEF LocalTyped, Labels
    <2>3. HandsTyped'
      BY <1>0, <1>m, <2>0 DEF HandsTyped, None
    <2> QED
      BY <2>1, <2>2, <2>3, TypesSplitNext
  <1>2. Log'
    <2>1. \A e \in Entry : Given(e) => Given(e)'
      BY <1>n, <1>m DEF Given, StreamsTypeOK
    <2>2. Given(n)'
      BY <1>n, <1>m DEF Given, StreamsTypeOK
    <2>3. n \notin settled
      BY <1>n DEF Log, Given, StreamsTypeOK
    <2>4. \A r \in Stream : last'[r] <= published'
      BY <1>n, <1>m DEF Log, StreamsTypeOK
    <2> HIDE DEF Given
    <2> QED
      BY <1>0, <1>1, <1>n, <1>m, <2>1, <2>2, <2>3, <2>4 DEF Log, StreamsTypeOK
  <1>3. Reach'
    <2> SUFFICES ASSUME NEW e \in Entry, e <= published, e \notin settled \cup dropped
                 PROVE  e \in kept /\ (owner'[e] = NoOne => stream[e] \notin group \/ e > last'[stream[e]])
      BY <1>m DEF Reach
    <2>1. stream[e] \in Stream /\ last[stream[e]] \in Nat
      BY Placed
    <2> QED
      BY <1>n, <1>m, <2>1 DEF Reach, StreamsTypeOK
  <1>4. Cursor'
    BY <1>0, <1>1, <1>m DEF Cursor, StreamsTypeOK
  <1>5. Hands'
    BY <1>0, <1>1, <1>m DEF Hands, StreamsTypeOK
  <1> QED
    BY <1>1, <1>2, <1>3, <1>4, <1>5

(* A peer takes a pending entry over. *)
LEMMA PeerClaimsKeeps == ASSUME StreamsInv, NEW e \in Entry, PeerClaims(e) PROVE StreamsInv'
  <1> USE DEF StreamsInv, PeerClaims, server, broker, lane, control, history, local, streamsVars
  <1>0. Spare' = Spare /\ spare' = spare
    BY DEF Spare
  <1>1. StreamsTypeOK'
    <2>0. ServerTyped /\ LocalTyped /\ HandsTyped
      BY TypesSplit
    <2>1. ServerTyped'
      BY <1>0, <2>0 DEF ServerTyped
    <2>2. LocalTyped'
      BY <1>0, <2>0 DEF LocalTyped, Labels
    <2>3. HandsTyped'
      BY <1>0, <2>0 DEF HandsTyped, None
    <2> QED
      BY <2>1, <2>2, <2>3, TypesSplitNext
  <1>2. Log'
    BY <1>0, <1>1 DEF Log, StreamsTypeOK, Hands, Given, Nowhere
  <1>3. Reach'
    BY <1>0, <1>1 DEF Reach, Log, StreamsTypeOK, Given, Nowhere
  <1>4. Cursor'
    BY <1>0, <1>1 DEF Cursor, Log, StreamsTypeOK, Hands, Given, Nowhere
  <1>5. Hands'
    BY <1>0, <1>1 DEF Hands, Log, StreamsTypeOK, Given, None
  <1> QED
    BY <1>1, <1>2, <1>3, <1>4, <1>5

(* A peer answers what it holds. *)
LEMMA PeerAnswersKeeps == ASSUME StreamsInv, NEW e \in Entry, PeerAnswers(e) PROVE StreamsInv'
  <1> USE DEF StreamsInv, PeerAnswers, server, broker, lane, control, history, local, streamsVars
  <1>0. Spare' = Spare /\ spare' = spare
    BY DEF Spare
  <1>1. StreamsTypeOK'
    <2>0. ServerTyped /\ LocalTyped /\ HandsTyped
      BY TypesSplit
    <2>1. ServerTyped'
      BY <1>0, <2>0 DEF ServerTyped
    <2>2. LocalTyped'
      BY <1>0, <2>0 DEF LocalTyped, Labels
    <2>3. HandsTyped'
      BY <1>0, <2>0 DEF HandsTyped, None
    <2> QED
      BY <2>1, <2>2, <2>3, TypesSplitNext
  <1>2. Log'
    BY <1>0, <1>1 DEF Log, StreamsTypeOK, Hands, Given, Nowhere
  <1>3. Reach'
    BY <1>0, <1>1 DEF Reach, Log, StreamsTypeOK, Given, Nowhere
  <1>4. Cursor'
    BY <1>0, <1>1 DEF Cursor, Log, StreamsTypeOK, Hands, Given, Nowhere
  <1>5. Hands'
    BY <1>0, <1>1 DEF Hands, Log, StreamsTypeOK, Given, None
  <1> QED
    BY <1>1, <1>2, <1>3, <1>4, <1>5

(* A peer settles what it was handed, whoever holds it by now. *)
LEMMA PeerAcksKeeps == ASSUME StreamsInv, NEW e \in Entry, PeerAcks(e) PROVE StreamsInv'
  <1> USE DEF StreamsInv, PeerAcks, server, broker, lane, control, history, local, streamsVars
  <1>0. Spare' = Spare /\ spare' = spare
    BY DEF Spare
  <1>1. StreamsTypeOK'
    <2>0. ServerTyped /\ LocalTyped /\ HandsTyped
      BY TypesSplit
    <2>1. ServerTyped'
      BY <1>0, <2>0 DEF ServerTyped
    <2>2. LocalTyped'
      BY <1>0, <2>0 DEF LocalTyped, Labels
    <2>3. HandsTyped'
      BY <1>0, <2>0 DEF HandsTyped, None
    <2> QED
      BY <2>1, <2>2, <2>3, TypesSplitNext
  <1>2. Log'
    BY <1>0, <1>1 DEF Log, StreamsTypeOK, Hands, Given, Nowhere
  <1>3. Reach'
    BY <1>0, <1>1 DEF Reach, Log, StreamsTypeOK, Given, Nowhere
  <1>4. Cursor'
    BY <1>0, <1>1 DEF Cursor, Log, StreamsTypeOK, Hands, Given, Nowhere
  <1>5. Hands'
    BY <1>0, <1>1 DEF Hands, Log, StreamsTypeOK, Given, None
  <1> QED
    BY <1>1, <1>2, <1>3, <1>4, <1>5

(* A peer that ends leaves its entries pending. *)
LEMMA PeerEndsKeeps == ASSUME StreamsInv, PeerEnds PROVE StreamsInv'
  <1> USE DEF StreamsInv, PeerEnds, Fault, server, broker, lane, control, history, local, streamsVars
  <1>0. Spare' = Spare /\ spare' = spare
    BY DEF Spare
  <1>1. StreamsTypeOK'
    <2>0. ServerTyped /\ LocalTyped /\ HandsTyped
      BY TypesSplit
    <2>1. ServerTyped'
      BY <1>0, <2>0 DEF ServerTyped
    <2>2. LocalTyped'
      BY <1>0, <2>0 DEF LocalTyped, Labels
    <2>3. HandsTyped'
      BY <1>0, <2>0 DEF HandsTyped, None
    <2> QED
      BY <2>1, <2>2, <2>3, TypesSplitNext
  <1>2. Log'
    BY <1>0, <1>1 DEF Log, StreamsTypeOK, Hands, Given, Nowhere
  <1>3. Reach'
    BY <1>0, <1>1 DEF Reach, Log, StreamsTypeOK, Given, Nowhere
  <1>4. Cursor'
    BY <1>0, <1>1 DEF Cursor, Log, StreamsTypeOK, Hands, Given, Nowhere
  <1>5. Hands'
    BY <1>0, <1>1 DEF Hands, Log, StreamsTypeOK, Given, None
  <1> QED
    BY <1>1, <1>2, <1>3, <1>4, <1>5

(* What a reclaim takes over is ahead of the cursor, which it sets back. *)
LEMMA ReclaimKeeps == ASSUME StreamsInv, Reclaim, NEW l \in {"turn", "take"}, step' = l PROVE StreamsInv'
  <1> USE DEF StreamsInv, server, broker, lane, control, history, local
  <1>r. PICK made \in SUBSET Stream, claimed \in SUBSET Entry :
        /\ grouped' \subseteq Stream /\ reclaimed' \in BOOLEAN /\ faults' \in 0..MaxFaults
        /\ group' = group \cup made /\ last' = Created(made)
        /\ owner' = [e \in Entry |-> IF e \in claimed THEN Me ELSE owner[e]]
        /\ idle' = idle \ claimed
        /\ upto' \in [Stream -> 0..Exhausted]
        /\ \A s \in Stream : upto'[s] = 0 \/ upto'[s] = upto[s]
        /\ \A e \in claimed : owner[e] # NoOne /\ upto'[stream[e]] = 0
        /\ UNCHANGED <<foreign, published, stream, kept, known, lane, keys, unsettled, spare, sends,
                       finished, theirs, history>>
    <2>0. ServerTyped /\ LocalTyped /\ HandsTyped
      BY TypesSplit
    <2>1. PICK usable \in SUBSET Stream, n \in 0..Streams, old \in SUBSET Entry :
            LET reached == {s \in usable : s <= n}
                new == usable \ grouped
                missing == reached \ (group \cup new)
                made == IF missing = {} THEN new ELSE usable
                claimed == {e \in old \cup idle : stream[e] \in reached}
            IN /\ Usable(usable)
               /\ \A e \in old : owner[e] # NoOne /\ stream[e] \in reached
               /\ n = Streams \/ n + 1 \in usable
               /\ IF usable = served /\ n = Streams THEN UNCHANGED faults ELSE Fault
               /\ reclaimed' = (usable # {} /\ n = Streams)
               /\ group' = group \cup made /\ last' = Created(made)
               /\ owner' = [e \in Entry |-> IF e \in claimed THEN Me ELSE owner[e]]
               /\ idle' = idle \ claimed
               /\ upto' = [s \in Stream |-> IF missing # {} \/ \E e \in claimed : stream[e] = s
                                            THEN 0 ELSE upto[s]]
               /\ UNCHANGED <<foreign, published, stream, kept, known, lane, keys, unsettled, spare, sends,
                              finished, theirs, history>>
      BY DEF Reclaim
    <2> DEFINE reached == {s \in usable : s <= n}
               new == usable \ grouped
               missing == reached \ (group \cup new)
               made == IF missing = {} THEN new ELSE usable
               claimed == {e \in old \cup idle : stream[e] \in reached}
    <2>2. made \in SUBSET Stream /\ claimed \in SUBSET Entry
      BY <2>0 DEF ServerTyped
    <2>3. upto' = [s \in Stream |-> IF missing # {} \/ \E e \in claimed : stream[e] = s THEN 0 ELSE upto[s]]
      BY <2>1
    <2>4. \A e \in claimed : owner[e] # NoOne /\ stream[e] \in Stream
      BY <2>0, <2>1 DEF ServerTyped
    <2>5. faults' \in 0..MaxFaults /\ grouped' \subseteq Stream /\ reclaimed' \in BOOLEAN
      BY <2>0, <2>1 DEF LocalTyped, Fault, Usable
    <2>6. /\ group' = group \cup made /\ last' = Created(made)
          /\ owner' = [e \in Entry |-> IF e \in claimed THEN Me ELSE owner[e]]
          /\ idle' = idle \ claimed
          /\ UNCHANGED <<foreign, published, stream, kept, known, lane, keys, unsettled, spare, sends,
                       finished, theirs, history>>
      BY <2>1
    <2> HIDE DEF missing, claimed, made
    <2>7. upto' \in [Stream -> 0..Exhausted] /\ \A s \in Stream : upto'[s] = 0 \/ upto'[s] = upto[s]
      BY <2>0, <2>3 DEF HandsTyped
    <2>8. \A e \in claimed : upto'[stream[e]] = 0
      BY <2>3, <2>4
    <2> QED
      BY <2>2, <2>4, <2>5, <2>6, <2>7, <2>8
  <1>0. Spare' = Spare /\ spare' = spare
    BY <1>r DEF Spare
  <1>1. StreamsTypeOK'
    <2>0. ServerTyped /\ LocalTyped /\ HandsTyped
      BY TypesSplit
    <2>1. ServerTyped'
      <3>1. last' \in [Stream -> 0..Entries] /\ group' \subseteq Stream
        BY <1>r, <2>0, CreatedTyped DEF ServerTyped
      <3>2. owner' \in [Entry -> {Me, Peer, NoOne}] /\ idle' \subseteq {e \in Entry : owner'[e] # NoOne}
        BY <1>r, <2>0 DEF ServerTyped
      <3> QED
        BY <1>r, <2>0, <3>1, <3>2 DEF ServerTyped
    <2>2. LocalTyped'
      BY <1>r, <2>0 DEF LocalTyped, Labels
    <2>3. HandsTyped'
      BY <1>r, <2>0 DEF HandsTyped
    <2> QED
      BY <2>1, <2>2, <2>3, TypesSplitNext
  <1>o. \A e \in Entry : owner'[e] = (IF e \in claimed THEN Me ELSE owner[e]) /\ (owner'[e] = NoOne <=> owner[e] = NoOne)
    BY <1>r
  <1>a. /\ \A e \in Entry : Given(e) => Given(e)'
        /\ Reach' /\ \A s \in Stream : last'[s] <= published'
    BY <1>o, <1>r, Grouped
  <1>2. Log'
    BY <1>0, <1>r, <1>o, <1>a DEF Log
  <1>3. Reach'
    BY <1>a
  <1>4. Cursor'
    <2> SUFFICES ASSUME NEW e \in Entry, e \notin foreign \cup stray, owner'[e] = Me, e \notin unsettled \cup Spare
                 PROVE  e > upto'[stream[e]]
      BY <1>0, <1>r DEF Cursor
    <2>1. owner[e] # NoOne /\ e <= published
      BY <1>o DEF Log
    <2>2. stream[e] \in Stream /\ e > 0
      BY <2>1, Placed
    <2> QED
      BY <1>r, <1>o, <2>2 DEF Cursor
  <1>5. Hands'
    BY <1>0, <1>r DEF Hands
  <1> QED
    BY <1>1, <1>2, <1>3, <1>4, <1>5

-----------------------------------------------------------------------------
(* The recovery read *)

(* The entry a read hands out of one stream. *)
LEMMA FirstIs ==
  ASSUME NEW es \in SUBSET Nat, es # {}
  PROVE  \E m \in es : First(es) = {m} /\ \A f \in es : m <= f
  <1>1. PICK m \in es : \A f \in es : m <= f
    BY Least
  <1>2. \A e \in First(es) : e = m
    BY <1>1 DEF First
  <1>3. m \in First(es)
    BY <1>1 DEF First
  <1> QED
    BY <1>1, <1>2, <1>3

(* A read of an empty stream hands out nothing. *)
LEMMA FirstOfNone == First({}) = {}
  BY DEF First

(* The page is the head of what this consumer holds ahead of its cursor: it *)
(* is empty only where that is, and it leaves nothing out that comes before *)
(* one of its own.                                                          *)
LEMMA PageReaches ==
  ASSUME StreamsTypeOK, NEW e \in kept, owner[e] = Me, e > upto[stream[e]]
  PROVE  /\ PendingPage(stream[e]) # {}
         /\ \A m \in PendingPage(stream[e]) : e <= m => e \in PendingPage(stream[e])
  <1> DEFINE s == stream[e]
             mine == {f \in Holding(s) : owner[f] = Me /\ f > upto[s]}
             Before(m) == {f \in mine : f < m}
  <1>1. mine \in SUBSET Entry /\ e \in mine
    BY DEF Holding, StreamsTypeOK
  <1>2. PendingPage(s) = {m \in mine : Cardinality(Before(m)) < Page}
    BY DEF PendingPage
  <1>3. \A m \in mine : Before(m) \in SUBSET Entry
    BY <1>1
  <1> HIDE DEF mine
  <1>4. PICK m \in mine : \A f \in mine : m <= f
    <2>1. mine \in SUBSET Nat /\ mine # {}
      BY <1>1
    <2> QED
      BY <2>1, Least
  <1>5. Before(m) = {}
    <2>1. \A f \in mine : f \in Nat /\ m \in Nat
      BY <1>1
    <2> QED
      BY <1>4, <2>1
  <1>6. m \in PendingPage(s)
    BY <1>2, <1>5, FS_EmptySet
  <1>7. ASSUME NEW k \in PendingPage(s), e <= k PROVE e \in PendingPage(s)
    <2>1. k \in mine /\ Cardinality(Before(k)) < Page
      BY <1>2
    <2>2. Before(e) \in SUBSET Before(k)
      <3>1. e \in Nat /\ k \in Nat /\ \A f \in mine : f \in Nat
        BY <1>1, <2>1
      <3>2. \A f \in Before(e) : f \in Before(k)
        BY <1>7, <2>1, <3>1
      <3> QED
        BY <3>2
    <2>3. /\ IsFiniteSet(Before(k)) /\ Cardinality(Before(k)) \in Nat
          /\ Cardinality(Before(e)) \in Nat
      BY <1>1, <1>3, <2>1, EntriesFinite
    <2>4. Cardinality(Before(e)) <= Cardinality(Before(k))
      BY <2>2, <2>3, FS_Subset
    <2>5. Cardinality(Before(e)) < Page
      BY <2>1, <2>3, <2>4
    <2> QED
      BY <1>1, <1>2, <2>5
  <1> QED
    BY <1>6, <1>7

(* A page holds entries. *)
LEMMA PageTyped ==
  ASSUME StreamsTypeOK, NEW s \in Stream
  PROVE  /\ PendingPage(s) \in SUBSET Entry
         /\ \A e \in PendingPage(s) : e \in kept /\ stream[e] = s /\ owner[e] = Me
  BY DEF PendingPage, Holding, StreamsTypeOK

(* The recovery moves a cursor only past what is in the hands, what it     *)
(* hands out, and what is not its own.                                     *)
LEMMA RecoverKeeps == ASSUME StreamsInv, Recover PROVE StreamsInv'
  <1> USE DEF StreamsInv, server, broker, lane, control, history, local
  <1> DEFINE out(s) == First(Unhanded(PendingPage(s)))
             from == First({s \in keys : out(s) # {}})
             spotted == {s \in keys : \A r \in from : s <= r}
  <1>r. /\ step = "held" /\ spare = <<>>
        /\ idle' = idle \ UNION {PendingPage(s) : s \in spotted}
        /\ upto' = [s \in Stream |->
              IF s \notin spotted THEN upto[s]
              ELSE IF PendingPage(s) = {} THEN Exhausted
              ELSE Max(IF s \in from THEN out(s) ELSE PendingPage(s))]
        /\ IF from = {}
           THEN Goto("read") /\ UNCHANGED <<keys, unsettled, sends>>
           ELSE Back("turn") /\ \E s \in from : Hand(Max(out(s)))
        /\ UNCHANGED <<foreign, published, stream, kept, group, last, owner, known, lane, reclaimed,
                       grouped, spare, finished, theirs, history, faults>>
    BY DEF Recover, AtStep
  <1>s. Spare = {} /\ Spare' = {} /\ spare' = <<>>
    BY <1>r DEF Spare
  <1>k. keys \in SUBSET Stream /\ keys \in SUBSET Nat
    BY DEF StreamsTypeOK
  <1>p. ASSUME NEW s \in Stream
        PROVE  /\ Unhanded(PendingPage(s)) \in SUBSET PendingPage(s)
               /\ out(s) # {} <=> Unhanded(PendingPage(s)) # {}
               /\ out(s) # {} => \E m \in Unhanded(PendingPage(s)) :
                     out(s) = {m} /\ Max(out(s)) = m /\ \A f \in Unhanded(PendingPage(s)) : m <= f
    <2>1. Unhanded(PendingPage(s)) \in SUBSET PendingPage(s) /\ Unhanded(PendingPage(s)) \in SUBSET Nat
      BY PageTyped DEF Unhanded
    <2>2. CASE Unhanded(PendingPage(s)) = {}
      BY <2>1, <2>2, FirstOfNone
    <2>3. CASE Unhanded(PendingPage(s)) # {}
      <3>1. PICK m \in Unhanded(PendingPage(s)) :
               out(s) = {m} /\ \A f \in Unhanded(PendingPage(s)) : m <= f
        BY <2>1, <2>3, FirstIs
      <3>2. Max(out(s)) = m
        BY <2>1, <3>1, OneIsMax
      <3> QED
        BY <2>1, <3>1, <3>2
    <2> QED
      BY <2>2, <2>3
  <1>f. \/ from = {} /\ \A s \in keys : out(s) = {}
        \/ \E r \in keys : from = {r} /\ out(r) # {} /\ \A s \in keys : out(s) # {} => r <= s
    <2> DEFINE able == {s \in keys : out(s) # {}}
    <2>1. able \in SUBSET Nat /\ from = First(able) /\ able \subseteq keys
      BY <1>k
    <2>2. CASE able = {}
      BY <2>1, <2>2, FirstOfNone
    <2>3. CASE able # {}
      <3>1. PICK r \in able : First(able) = {r} /\ \A s \in able : r <= s
        BY <2>1, <2>3, FirstIs
      <3> QED
        BY <2>1, <3>1
    <2> QED
      BY <2>2, <2>3
  <1> HIDE DEF out, from
  <1>h. \/ step' = "read" /\ UNCHANGED <<keys, unsettled, sends>> /\ from = {}
        \/ /\ step' = "turn" /\ keys' = {}
           /\ \E r \in keys, m \in Entry :
                 /\ from = {r} /\ out(r) = {m} /\ m \in PendingPage(r) \ unsettled
                 /\ unsettled' = unsettled \cup {m} /\ sends' = [sends EXCEPT ![m] = @ + 1]
    <2>1. CASE from = {}
      BY <1>r, <2>1 DEF Goto
    <2>2. CASE from # {}
      <3>1. PICK r \in keys : from = {r} /\ out(r) # {}
        BY <1>f, <2>2
      <3>2. PICK m \in Unhanded(PendingPage(r)) : out(r) = {m} /\ Max(out(r)) = m
        BY <1>k, <1>p, <3>1
      <3>3. m \in Entry /\ m \in PendingPage(r) \ unsettled
        BY <1>k, <3>2, PageTyped DEF Unhanded
      <3>4. step' = "turn" /\ keys' = {} /\ Hand(m)
        BY <1>r, <3>1, <3>2 DEF Back, Goto
      <3> QED
        BY <3>1, <3>2, <3>3, <3>4 DEF Hand
    <2> QED
      BY <2>1, <2>2
  <1>m. ASSUME NEW s \in Stream, PendingPage(s) # {}
        PROVE  Max(PendingPage(s)) \in PendingPage(s) /\ \A f \in PendingPage(s) : f <= Max(PendingPage(s))
    <2>1. PendingPage(s) \in SUBSET Nat /\ \A f \in PendingPage(s) : f <= Entries
      BY PageTyped DEF Entry
    <2> QED
      BY <1>m, <2>1, Greatest
  <1>1. StreamsTypeOK'
    <2>0. ServerTyped /\ LocalTyped /\ HandsTyped
      BY TypesSplit
    <2>1. ServerTyped'
      BY <1>r, <2>0 DEF ServerTyped
    <2>2. LocalTyped'
      BY <1>r, <1>h, <2>0 DEF LocalTyped, Labels
    <2>3. HandsTyped'
      <3>1. ASSUME NEW s \in Stream PROVE upto'[s] \in 0..Exhausted
        <4>1. \A m \in Entry : m \in 0..Exhausted
          BY DEF Entry, Exhausted
        <4>2. upto[s] \in 0..Exhausted /\ Exhausted \in 0..Exhausted
          BY <2>0 DEF HandsTyped
        <4>3. PendingPage(s) # {} => Max(PendingPage(s)) \in Entry
          BY <1>m, PageTyped
        <4>4. s \in from => Max(out(s)) \in Entry
          BY <1>k, <1>f, <1>p, PageTyped
        <4> QED
          BY <1>r, <4>1, <4>2, <4>3, <4>4
      <3>2. upto' \in [Stream -> 0..Exhausted]
        BY <1>r, <3>1
      <3>3. unsettled' \subseteq Entry /\ sends' \in [Entry -> Nat]
        <4>1. ASSUME NEW m \in Entry PROVE [sends EXCEPT ![m] = @ + 1] \in [Entry -> Nat]
          BY <2>0 DEF HandsTyped
        <4>2. CASE UNCHANGED <<unsettled, sends>>
          BY <2>0, <4>2 DEF HandsTyped
        <4>3. CASE \E m \in Entry : unsettled' = unsettled \cup {m} /\ sends' = [sends EXCEPT ![m] = @ + 1]
          BY <2>0, <4>1, <4>3 DEF HandsTyped
        <4> QED
          BY <1>h, <4>2, <4>3
      <3> QED
        BY <1>r, <2>0, <3>2, <3>3 DEF HandsTyped
    <2> QED
      BY <2>1, <2>2, <2>3, TypesSplitNext
  <1>u. \A e \in Entry : e \in unsettled' => e \in unsettled \/ owner[e] = Me
    BY <1>h, <1>k, PageTyped
  <1>2. Log'
    <2>1. \A e \in Entry : Given(e)' = Given(e)
      BY <1>r DEF Given
    <2> QED
      BY <1>r, <1>s, <1>u, <2>1 DEF Log
  <1>3. Reach'
    BY <1>r DEF Reach
  <1>4. Cursor'
    <2> SUFFICES ASSUME NEW e \in Entry, e \notin foreign \cup stray, owner[e] = Me, e \notin unsettled',
                        ~(e > upto'[stream[e]])
                 PROVE  FALSE
      BY <1>r, <1>s DEF Cursor
    <2> DEFINE s == stream[e]
    <2>1. e \notin unsettled /\ e \in kept /\ e <= published
      BY <1>h DEF Log
    <2>2. s \in Stream /\ e > upto[s]
      BY <1>s, <2>1, Placed DEF Cursor
    <2>3. PendingPage(s) # {} /\ \A m \in PendingPage(s) : e <= m => e \in PendingPage(s)
      BY <2>1, <2>2, PageReaches
    <2>4. e \in PendingPage(s) => e \in Unhanded(PendingPage(s))
      BY <2>1 DEF Unhanded
    <2>5. s \in spotted /\ upto'[s] = Max(IF s \in from THEN out(s) ELSE PendingPage(s))
      BY <1>r, <2>2, <2>3
    <2>6. s \in keys /\ \A r \in from : s <= r
      BY <2>5
    <2>7. upto'[s] \in 0..Exhausted
      BY <1>1, <2>2 DEF StreamsTypeOK
    <2>8. e <= upto'[s]
      <3>1. e \in Nat
        OBVIOUS
      <3>2. upto'[s] \in Nat
        BY <2>7, StreamsConstants
      <3> HIDE DEF s
      <3> QED
        BY <3>1, <3>2 DEF s
    <2> HIDE DEF spotted, s
    <2>9. CASE s \in from
      <3>1. PICK m \in Unhanded(PendingPage(s)) :
               out(s) = {m} /\ Max(out(s)) = m /\ \A f \in Unhanded(PendingPage(s)) : m <= f
        BY <1>f, <1>p, <2>2, <2>9
      <3>2. m \in PendingPage(s) /\ m \in Nat
        BY <2>2, <3>1, <1>p, PageTyped
      <3>3. e \in Unhanded(PendingPage(s))
        BY <2>3, <2>4, <2>5, <2>8, <2>9, <3>1, <3>2
      <3>4. e = m
        BY <2>5, <2>8, <2>9, <3>1, <3>2, <3>3
      <3>5. m \in unsettled'
        BY <1>h, <2>9, <3>1
      <3> QED
        BY <3>4, <3>5
    <2>10. CASE s \notin from
      <3>1. e \in Unhanded(PendingPage(s))
        BY <1>m, <2>2, <2>3, <2>4, <2>5, <2>8, <2>10
      <3>2. out(s) # {}
        BY <1>p, <2>2, <3>1
      <3>3. PICK r \in keys : from = {r} /\ r <= s
        BY <1>f, <2>6, <3>2
      <3> QED
        BY <1>k, <2>6, <2>10, <3>3
    <2> QED
      BY <2>9, <2>10
  <1>5. Hands'
    <2>1. CASE UNCHANGED <<unsettled, sends>> /\ step' = "read"
      BY <1>r, <1>s, <2>1 DEF Hands
    <2>2. CASE step' = "turn" /\ \E m \in Entry \ unsettled :
                  unsettled' = unsettled \cup {m} /\ sends' = [sends EXCEPT ![m] = @ + 1]
      BY <1>r, <1>s, <2>2 DEF Hands, StreamsTypeOK
    <2> QED
      BY <1>h, <2>1, <2>2
  <1> QED
    BY <1>1, <1>2, <1>3, <1>4, <1>5

-----------------------------------------------------------------------------
(* A read of new entries *)

(* The spares of a read are the entries it is given, each once: no two of   *)
(* them are of one stream, so their places in its order are all different   *)
(* and there are no others.                                                 *)
LEMMA SparesAre ==
  ASSUME stream \in [Entry -> Stream \cup {Nowhere}], NEW es \in SUBSET Entry,
         \A e, f \in es : stream[e] = stream[f] => e = f
  PROVE  /\ Spares(es) \in Seq(Entry)
         /\ {Spares(es)[i] : i \in DOMAIN Spares(es)} = es
         /\ \A i, j \in DOMAIN Spares(es) : Spares(es)[i] = Spares(es)[j] => i = j
  <1> DEFINE n == Cardinality(es)
             Ahead(e) == {f \in es : stream[f] < stream[e]}
             rank == [e \in es |-> Cardinality(Ahead(e)) + 1]
             G(i) == CHOOSE e \in es : Cardinality(Ahead(e)) = i - 1
  <1>0. Spares(es) = [i \in 1..n |-> G(i)]
    BY DEF Spares
  <1>1. IsFiniteSet(es) /\ n \in Nat
    BY EntriesFinite
  <1>2. \A e \in es : stream[e] \in Nat
    <2> TAKE e \in es
    <2>1. stream[e] \in Stream \cup {Nowhere}
      OBVIOUS
    <2>2. CASE stream[e] \in Stream
      BY <2>2
    <2>3. CASE stream[e] = Nowhere
      BY <2>3 DEF Nowhere
    <2> QED
      BY <2>1, <2>2, <2>3
  <1>3. ASSUME NEW e \in es PROVE IsFiniteSet(Ahead(e)) /\ Cardinality(Ahead(e)) \in Nat
    <2>1. Ahead(e) \in SUBSET Entry
      OBVIOUS
    <2> QED
      BY <2>1, EntriesFinite
  <1>4. ASSUME NEW e \in es, NEW f \in es, stream[e] < stream[f]
        PROVE  Cardinality(Ahead(e)) < Cardinality(Ahead(f))
    <2>1. Ahead(e) \cup {e} \in SUBSET Ahead(f)
      <3>1. \A g \in Ahead(e) : g \in es /\ stream[g] < stream[f]
        BY <1>2, <1>4
      <3> QED
        BY <1>4, <3>1
    <2>2. e \notin Ahead(e)
      BY <1>2
    <2>3. Cardinality(Ahead(e) \cup {e}) = Cardinality(Ahead(e)) + 1
      BY <1>3, <2>2, FS_AddElement
    <2>4. Cardinality(Ahead(e) \cup {e}) <= Cardinality(Ahead(f))
      BY <1>3, <2>1, FS_Subset
    <2>5. Cardinality(Ahead(e)) \in Nat /\ Cardinality(Ahead(f)) \in Nat
      BY <1>3
    <2> HIDE DEF Ahead
    <2> QED
      BY <2>3, <2>4, <2>5, SMT
  <1>5. \A e \in es : rank[e] \in 1..n
    <2> TAKE e \in es
    <2>1. Ahead(e) \in SUBSET es /\ Ahead(e) # es
      BY <1>2
    <2>2. Cardinality(Ahead(e)) <= n /\ Cardinality(Ahead(e)) # n
      BY <1>1, <2>1, FS_Subset
    <2> HIDE DEF n, Ahead
    <2> QED
      BY <1>1, <1>3, <2>2
  <1>6. \A e, f \in es : rank[e] = rank[f] => e = f
    <2> TAKE e, f \in es
    <2> HAVE rank[e] = rank[f]
    <2> HIDE DEF Ahead
    <2>1. Cardinality(Ahead(e)) = Cardinality(Ahead(f))
      BY <1>3
    <2>2. ~(stream[e] < stream[f]) /\ ~(stream[f] < stream[e])
      BY <1>3, <1>4, <2>1
    <2>3. stream[e] = stream[f]
      BY <1>2, <2>2
    <2> QED
      BY <2>3
  <1> HIDE DEF n, Ahead
  <1>7. rank \in Injection(es, 1..n)
    <2>1. rank \in [es -> 1..n]
      BY <1>5
    <2> HIDE DEF rank
    <2> QED
      BY <1>6, <2>1 DEF Injection, IsInjective
  <1>8. rank \in Surjection(es, 1..n)
    <2>1. IsFiniteSet(1..n) /\ Cardinality(1..n) = n
      BY <1>1, FS_Interval
    <2> QED
      BY <1>7, <2>1, FS_Injection DEF n
  <1>9. ASSUME NEW i \in 1..n PROVE G(i) \in es /\ rank[G(i)] = i
    <2>1. PICK e \in es : rank[e] = i
      BY <1>8 DEF Surjection
    <2>2. Cardinality(Ahead(e)) = i - 1
      BY <1>3, <2>1
    <2>3. G(i) \in es /\ Cardinality(Ahead(G(i))) = i - 1
      BY <2>2, Zenon
    <2>4. i \in Int /\ Cardinality(Ahead(G(i))) + 1 = i
      BY <1>1, <2>3
    <2>5. rank[G(i)] = Cardinality(Ahead(G(i))) + 1
      BY <2>3
    <2> HIDE DEF G, rank
    <2> QED
      BY <2>3, <2>4, <2>5
  <1> HIDE DEF G, rank
  <1>10. Spares(es) \in [1..n -> Entry] /\ DOMAIN Spares(es) = 1..n
    <2>1. \A i \in 1..n : G(i) \in Entry
      BY <1>9
    <2>2. [i \in 1..n |-> G(i)] \in [1..n -> Entry] /\ DOMAIN [i \in 1..n |-> G(i)] = 1..n
      BY <2>1
    <2> QED
      BY <1>0, <2>2
  <1>11. Spares(es) \in Seq(Entry)
    BY <1>1, <1>10, SeqDef
  <1>12. \A i \in 1..n : Spares(es)[i] \in es /\ rank[Spares(es)[i]] = i
    BY <1>0, <1>9
  <1> HIDE DEF Spares
  <1>13. \A e \in es : e \in {Spares(es)[i] : i \in DOMAIN Spares(es)}
    <2> TAKE e \in es
    <2>1. Spares(es)[rank[e]] = e
      BY <1>5, <1>6, <1>12
    <2> QED
      BY <1>5, <1>10, <2>1
  <1>14. \A i, j \in DOMAIN Spares(es) : Spares(es)[i] = Spares(es)[j] => i = j
    BY <1>10, <1>12
  <1>15. \A i \in DOMAIN Spares(es) : Spares(es)[i] \in es
    BY <1>10, <1>12
  <1>16. {Spares(es)[i] : i \in DOMAIN Spares(es)} = es
    <2> DEFINE T == {Spares(es)[i] : i \in DOMAIN Spares(es)}
    <2>1. \A e \in T : e \in es
      BY <1>15
    <2>2. \A e \in es : e \in T
      BY <1>13
    <2> HIDE DEF T
    <2>3. T = es
      BY <2>1, <2>2
    <2> QED
      BY <2>3 DEF T
  <1> QED
    BY <1>11, <1>14, <1>16

(* A read of new entries hands one out and keeps the others as spares. *)
LEMMA FreshKeeps == ASSUME StreamsInv, Fresh PROVE StreamsInv'
  <1> USE DEF StreamsInv, server, broker, lane, control, history, local
  <1> DEFINE got == {e \in Entry : \E s \in keys : e \in First(New(s))}
             ours == got \ foreign
             first == {e \in ours : \A f \in ours : stream[e] <= stream[f]}
  <1>r. /\ step \in {"read", "retry"} /\ keys \subseteq group
        /\ owner' = [e \in Entry |-> IF e \in got THEN Me ELSE owner[e]]
        /\ last' = [s \in Stream |-> Max({last[s]} \cup {e \in got : stream[e] = s})]
        /\ spare' = Spares(ours \ first)
        /\ IF ours = {} THEN UNCHANGED <<unsettled, sends>>
           ELSE \E e \in first : Hand(e)
        /\ step' = "turn" /\ keys' = {}
        /\ UNCHANGED <<foreign, published, stream, kept, group, idle, known, lane, reclaimed, grouped,
                       upto, finished, theirs, history, faults>>
    BY DEF Fresh, Back, Goto
  <1>g. ASSUME NEW e \in got
        PROVE  /\ e \in kept /\ stream[e] \in keys /\ stream[e] \in Stream /\ e > last[stream[e]]
               /\ \A f \in kept : stream[f] = stream[e] /\ f > last[stream[e]] => e <= f
    <2>1. PICK s \in keys : e \in First(New(s))
      OBVIOUS
    <2> QED
      BY <2>1 DEF First, New, Holding, StreamsTypeOK
  <1>i. /\ got \in SUBSET Entry /\ first \in SUBSET ours /\ ours \in SUBSET Entry
        /\ \A e \in ours : e \in got /\ e \notin foreign
        /\ \A e, f \in got : stream[e] = stream[f] => e = f
    <2>1. ASSUME NEW e \in got, NEW f \in got, stream[e] = stream[f] PROVE e = f
      <3>1. e \in Nat /\ f \in Nat /\ e <= f /\ f <= e
        BY <1>g, <2>1
      <3> QED
        BY <3>1
    <2> QED
      BY <2>1
  <1> HIDE DEF got
  <1>n. ASSUME NEW e \in got
        PROVE  e <= published /\ owner[e] = NoOne /\ e \notin unsettled \cup theirs \cup settled
    <2>1. e \in Entry /\ e <= published
      BY <1>g, <1>i DEF Log
    <2>2. ~Given(e)
      BY <1>g, <2>1, Placed DEF Given
    <2> QED
      BY <2>1, <2>2 DEF Log
  <1>l. ASSUME NEW s \in Stream
        PROVE  /\ last'[s] \in 0..Entries /\ last[s] <= last'[s] /\ last'[s] <= published
               /\ \A e \in got : stream[e] = s => e <= last'[s]
               /\ last'[s] = last[s] \/ \E e \in got : stream[e] = s /\ last'[s] = e
    <2> DEFINE S == {last[s]} \cup {e \in got : stream[e] = s}
    <2>1. last[s] \in 0..Entries /\ last[s] <= published /\ published \in 0..Entries
      BY DEF Log, StreamsTypeOK
    <2>2. S \in SUBSET Nat /\ S # {} /\ \A x \in S : x <= published
      <3>1. ASSUME NEW x \in S PROVE x \in Nat /\ x <= published
        <4>1. CASE x = last[s]
          BY <2>1, <4>1
        <4>2. CASE x \in got
          BY <1>i, <1>n, <4>2
        <4> QED
          BY <4>1, <4>2
      <3> QED
        BY <3>1
    <2>3. Max(S) \in S /\ \A x \in S : x <= Max(S)
      <3> HIDE DEF S
      <3>1. published \in Nat
        BY <2>1
      <3> QED
        BY <2>2, <3>1, Greatest
    <2>4. last'[s] = Max(S)
      BY <1>r
    <2>5. Max(S) <= published /\ Max(S) \in Nat
      BY <2>2, <2>3
    <2>6. last[s] \in S /\ \A e \in got : stream[e] = s => e \in S
      OBVIOUS
    <2>7. Max(S) = last[s] \/ \E e \in got : stream[e] = s /\ Max(S) = e
      BY <2>3
    <2> HIDE DEF S
    <2> QED
      BY <2>1, <2>3, <2>4, <2>5, <2>6, <2>7
  <1>s. /\ spare' \in Seq(Entry) /\ Spare' = ours \ first
        /\ \A i, j \in DOMAIN spare' : spare'[i] = spare'[j] => i = j
    <2>1. /\ ours \ first \in SUBSET Entry
          /\ \A e, f \in ours \ first : stream[e] = stream[f] => e = f
      BY <1>i
    <2>2. stream \in [Entry -> Stream \cup {Nowhere}]
      BY DEF StreamsTypeOK
    <2> DEFINE es == ours \ first
    <2> HIDE DEF es
    <2>3. /\ Spares(es) \in Seq(Entry)
          /\ {Spares(es)[i] : i \in DOMAIN Spares(es)} = es
          /\ \A i, j \in DOMAIN Spares(es) : Spares(es)[i] = Spares(es)[j] => i = j
      BY <2>1, <2>2, SparesAre DEF es
    <2>4. spare' = Spares(es)
      BY <1>r DEF es
    <2>5. Spare' = {spare'[i] : i \in DOMAIN spare'}
      BY DEF Spare
    <2>6. /\ spare' \in Seq(Entry) /\ {spare'[i] : i \in DOMAIN spare'} = es
          /\ \A i, j \in DOMAIN spare' : spare'[i] = spare'[j] => i = j
      BY <2>3, <2>4
    <2> QED
      BY <2>5, <2>6 DEF es
  <1>h. \/ ours = {} /\ UNCHANGED <<unsettled, sends>>
        \/ \E e \in ours : /\ first = {e}
                           /\ unsettled' = unsettled \cup {e} /\ sends' = [sends EXCEPT ![e] = @ + 1]
    <2>1. CASE ours = {}
      BY <1>r, <2>1
    <2>2. CASE ours # {}
      <3>1. PICK e \in first : Hand(e)
        BY <1>r, <2>2
      <3>2. ASSUME NEW f \in first PROVE f = e
        <4>1. stream[e] <= stream[f] /\ stream[f] <= stream[e] /\ stream[e] \in Nat /\ stream[f] \in Nat
          BY <1>g
        <4> QED
          BY <1>i, <4>1
      <3>3. first = {e}
        BY <3>2
      <3>4. e \in ours
        BY <1>i
      <3> QED
        BY <3>1, <3>3, <3>4 DEF Hand
    <2> QED
      BY <2>1, <2>2
  <1> HIDE DEF first, ours
  <1>0. Spare = {}
    BY <1>r DEF Hands, Spare
  <1>1. StreamsTypeOK'
    <2>0. ServerTyped /\ LocalTyped /\ HandsTyped
      BY TypesSplit
    <2>1. ServerTyped'
      <3>1. last' \in [Stream -> 0..Entries]
        BY <1>r, <1>l
      <3>2. owner' \in [Entry -> {Me, Peer, NoOne}] /\ idle' \subseteq {e \in Entry : owner'[e] # NoOne}
        BY <1>r, <2>0 DEF ServerTyped
      <3> QED
        BY <1>r, <2>0, <3>1, <3>2 DEF ServerTyped
    <2>2. LocalTyped'
      BY <1>r, <2>0 DEF LocalTyped, Labels
    <2>3. HandsTyped'
      <3>1. ASSUME NEW m \in Entry PROVE [sends EXCEPT ![m] = @ + 1] \in [Entry -> Nat]
        BY <2>0 DEF HandsTyped
      <3>2. unsettled' \subseteq Entry /\ sends' \in [Entry -> Nat]
        <4>1. CASE UNCHANGED <<unsettled, sends>>
          BY <2>0, <4>1 DEF HandsTyped
        <4>2. CASE \E m \in Entry : unsettled' = unsettled \cup {m} /\ sends' = [sends EXCEPT ![m] = @ + 1]
          BY <2>0, <3>1, <4>2 DEF HandsTyped
        <4> QED
          BY <1>h, <1>i, <4>1, <4>2
      <3> QED
        BY <1>r, <1>s, <2>0, <3>2 DEF HandsTyped
    <2> QED
      BY <2>1, <2>2, <2>3, TypesSplitNext
  <1>2. Log'
    <2>1. ASSUME NEW e \in Entry, e <= published, Given(e) PROVE Given(e)'
      <3>1. stream[e] \in Stream /\ last[stream[e]] \in Nat /\ e \in Nat
        BY <2>1, Placed
      <3>2. last'[stream[e]] \in 0..Entries /\ last[stream[e]] <= last'[stream[e]]
        BY <1>l, <3>1
      <3> QED
        BY <1>r, <2>1, <3>1, <3>2 DEF Given
    <2>2. ASSUME NEW e \in got PROVE Given(e)'
      BY <1>g, <1>l, <1>r DEF Given
    <2>3. ASSUME NEW e \in Entry,
                 owner'[e] # NoOne \/ e \in unsettled' \cup Spare' \cup theirs' \cup settled'
          PROVE  e <= published' /\ Given(e)'
      <3>1. e \in got \/ owner[e] # NoOne \/ e \in unsettled \cup Spare \cup theirs \cup settled
        BY <1>h, <1>i, <1>r, <1>s, <2>3
      <3> QED
        BY <1>n, <1>r, <2>1, <2>2, <3>1 DEF Log
    <2>4. \A e \in Entry : owner'[e] # NoOne => e \in kept' /\ e \notin settled'
      BY <1>g, <1>n, <1>r DEF Log
    <2>5. \A s \in Stream : last'[s] <= published'
      BY <1>l, <1>r
    <2>6. (\A e \in Entry : stream'[e] = Nowhere <=> e > published') /\ \A e \in kept' : e <= published'
      BY <1>r DEF Log
    <2> QED
      BY <2>3, <2>4, <2>5, <2>6 DEF Log
  <1>3. Reach'
    <2> SUFFICES ASSUME NEW e \in Entry, e <= published, e \notin settled \cup dropped
                 PROVE  e \in kept /\ (owner'[e] = NoOne => stream[e] \notin group \/ e > last'[stream[e]])
      BY <1>r DEF Reach
    <2>1. e \in kept
      BY DEF Reach
    <2> SUFFICES ASSUME owner'[e] = NoOne, stream[e] \in group PROVE e > last'[stream[e]]
      BY <2>1
    <2>2. e \notin got /\ owner[e] = NoOne
      BY <1>r
    <2>3. e > last[stream[e]] /\ stream[e] \in Stream /\ e \in Nat
      BY <2>2, Placed DEF Reach
    <2>4. CASE last'[stream[e]] = last[stream[e]]
      BY <2>3, <2>4
    <2>5. CASE \E f \in got : stream[f] = stream[e] /\ last'[stream[e]] = f
      <3>1. PICK f \in got : stream[f] = stream[e] /\ last'[stream[e]] = f
        BY <2>5
      <3>2. f <= e /\ f # e /\ f \in Nat
        BY <1>g, <1>i, <2>1, <2>2, <2>3, <3>1
      <3> QED
        BY <2>3, <3>1, <3>2
    <2> QED
      BY <1>l, <2>3, <2>4, <2>5
  <1>4. Cursor'
    <2> SUFFICES ASSUME NEW e \in Entry, e \notin foreign \cup stray, owner'[e] = Me
                 PROVE  e \in unsettled' \/ e \in Spare' \/ e > upto[stream[e]]
      BY <1>r DEF Cursor
    <2>1. CASE e \in got
      BY <1>h, <1>s, <2>1 DEF ours
    <2>2. CASE e \notin got
      BY <1>0, <1>h, <1>r, <2>2 DEF Cursor
    <2> QED
      BY <2>1, <2>2
  <1>5. Hands'
    <2>1. \A e \in ours : e \in Entry /\ e \notin unsettled
      BY <1>i, <1>n
    <2>2. (Spare' \cap unsettled') = {}
      BY <1>h, <1>s, <2>1
    <2>3. \A e \in Entry : sends'[e] <= 1 /\ (sends'[e] > 0 => e \in unsettled' \ finished)
      BY <1>h, <2>1 DEF Hands, StreamsTypeOK
    <2>4. finished \subseteq unsettled' \cap answered
      BY <1>h DEF Hands
    <2> QED
      BY <1>r, <1>s, <2>2, <2>3, <2>4 DEF Hands
  <1> QED
    BY <1>1, <1>2, <1>3, <1>4, <1>5

-----------------------------------------------------------------------------
(* The theorems *)

(* Every step keeps the invariant. *)
LEMMA Keeps == StreamsInv /\ [StreamsNext]_streamsVars => StreamsInv'
  <1> SUFFICES ASSUME StreamsInv, [StreamsNext]_streamsVars PROVE StreamsInv'
    OBVIOUS
  <1>1. CASE UNCHANGED streamsVars
    <2>1. StreamsTypeOK' /\ Spare' = Spare
      BY <1>1 DEF StreamsInv, StreamsTypeOK, Spare, streamsVars, server, local, broker, control, lane, history
    <2>2. \A e \in Entry : Given(e)' = Given(e)
      BY <1>1 DEF Given, streamsVars, server
    <2> QED
      BY <1>1, <2>1, <2>2 DEF StreamsInv, Log, Reach, Cursor, Hands, streamsVars, server, local, broker, control, lane, history
  <1>2. CASE Others
    <2>1. ASSUME NEW s \in Stream, Discard(s) \/ DiscardIfEmpty(s) PROVE StreamsInv'
      BY <2>1, DeleteKeeps DEF Discard, DiscardIfEmpty
    <2> QED
      BY <1>2, <2>1, PublishKeeps, TrimKeeps, PeerReadsKeeps, PeerClaimsKeeps, PeerAnswersKeeps, PeerAcksKeeps,
         PeerEndsKeeps, ServeKeeps DEF Others
  <1>3. CASE Start
    BY <1>3, ReclaimKeeps DEF Start, Goto
  <1>4. CASE Loop
    <2>1. CASE ReclaimAgain
      BY <2>1, ReclaimKeeps DEF ReclaimAgain, Goto
    <2> QED
      BY <1>4, <2>1, AckKeeps, HoldKeeps, TakeStartsKeeps, TakeSpareKeeps, ReleaseSpareKeeps, ReleaseRaisesKeeps,
         RecoverKeeps, TakeRaisesKeeps, RegroupKeeps, FreshKeeps DEF Loop
  <1> QED
    BY <1>1, <1>2, <1>3, <1>4, CompleteKeeps, CrashKeeps DEF StreamsNext

(* The inductive invariant holds in every state. *)
THEOREM Invariance == StreamsSpec => []StreamsInv
  BY AtTheStart, Keeps, PTL DEF StreamsSpec

(* The state of the server, the consumer and its peers is typed. *)
THEOREM StreamsTyped == StreamsSpec => []StreamsTypeOK
  <1>1. StreamsInv => StreamsTypeOK
    BY DEF StreamsInv
  <1> QED
    BY Invariance, <1>1, PTL

(* Nothing slips out of reach: an entry published, not acknowledged and    *)
(* not removed is in its stream, new to the group or pending; what is      *)
(* pending with the running consumer is in its hands or ahead of its       *)
(* recovery cursor; and no entry has two sends under way in one consumer.  *)
THEOREM StreamsTracked == StreamsSpec => []Tracked
  <1>1. StreamsInv => Tracked
    <2> SUFFICES ASSUME StreamsInv PROVE Tracked
      OBVIOUS
    <2> USE DEF StreamsInv
    <2>1. ASSUME NEW e \in Entry, stream[e] # Nowhere, e \notin settled \cup dropped
          PROVE  e \in kept /\ (owner[e] = NoOne => stream[e] \notin group \/ e > last[stream[e]])
      <3>1. e \in Nat /\ published \in Nat /\ ~(e > published)
        BY <2>1 DEF Log, StreamsTypeOK
      <3> QED
        BY <2>1, <3>1 DEF Reach
    <2>2. ASSUME NEW e \in Entry \ (foreign \cup stray), owner[e] = Me
          PROVE  e \in unsettled \/ (\E i \in DOMAIN spare : spare[i] = e) \/ e > upto[stream[e]]
      BY <2>2 DEF Cursor, Spare
    <2>3. \A e \in Entry : sends[e] <= 1
      BY DEF Hands
    <2> QED
      BY <2>1, <2>2, <2>3 DEF Tracked
  <1> QED
    BY Invariance, <1>1, PTL

-----------------------------------------------------------------------------
(* The contract *)

Taken == unsettled \cup theirs

(* Entries nobody holds any more are waiting again. *)
LEMMA ContractReturns ==
  ASSUME StreamsTypeOK, UNCHANGED <<settled, answered>>, Taken' \subseteq Taken
  PROVE  Contract!Next
  <1> DEFINE back == {e \in Entry : e \in Taken \ Taken' /\ e \notin settled}
  <1>1. back \in SUBSET Entry /\ back \subseteq {e \in Entry : where[e] = "taken"}
    BY DEF where, Taken
  <1>2. where' = [e \in Entry |-> IF e \in back THEN "waiting" ELSE where[e]]
    BY DEF where, Taken
  <1> HIDE DEF back, where
  <1>3. PICK some \in SUBSET Entry : some = back
    BY <1>1
  <1>4. Contract!Return(some)
    BY <1>1, <1>2, <1>3 DEF Contract!Return
  <1> QED
    BY <1>4 DEF Contract!Next

(* An entry handed out was waiting. *)
LEMMA ContractTakes ==
  ASSUME StreamsTypeOK, UNCHANGED <<settled, answered>>, NEW e \in Entry, Taken' = Taken \cup {e}
  PROVE  Contract!Next \/ UNCHANGED <<where, answered>>
  <1>1. CASE e \in settled \cup Taken
    BY <1>1 DEF where, Taken
  <1>2. CASE e \notin settled \cup Taken
    <2>1. where[e] = "waiting" /\ where' = [where EXCEPT ![e] = "taken"]
      BY <1>2 DEF where, Taken
    <2> QED
      BY <2>1 DEF Contract!Take, Contract!Next
  <1> QED
    BY <1>1, <1>2

(* An acknowledgement settles an entry that was answered. *)
LEMMA ContractSettles ==
  ASSUME StreamsInv, UNCHANGED answered, NEW e \in Entry, owner[e] # NoOne, e \in Taken, e \in answered,
         Taken' = Taken \/ Taken' = Taken \ {e}, settled' = settled \cup {e}
  PROVE  Contract!Next
  <1>1. e \notin settled
    BY DEF StreamsInv, Log
  <1>2. where[e] = "taken" /\ where' = [where EXCEPT ![e] = "settled"]
    BY <1>1 DEF where, Taken
  <1> QED
    BY <1>2 DEF Contract!Settle, Contract!Next

(* An answer is given to a taken entry. *)
LEMMA ContractAnswers ==
  ASSUME StreamsInv, NEW e \in Entry, answered' = answered \cup {e}, UNCHANGED <<settled, Taken>>
  PROVE  Contract!Next \/ UNCHANGED <<where, answered>>
  <1>1. where' = where
    BY DEF where, Taken
  <1>2. CASE e \in settled
    BY <1>1, <1>2 DEF StreamsInv, Hands
  <1>3. CASE e \notin settled
    <2>1. where[e] # "settled"
      BY <1>3 DEF where
    <2> QED
      BY <1>1, <2>1 DEF Contract!Answer, Contract!Next
  <1> QED
    BY <1>2, <1>3

(* Every step is one of the contract's, or none. *)
LEMMA ContractStep == StreamsInv /\ [StreamsNext]_streamsVars => [Contract!Next]_(Contract!vars)
  <1> SUFFICES ASSUME StreamsInv, [StreamsNext]_streamsVars PROVE Contract!Next \/ UNCHANGED <<where, answered>>
    BY DEF Contract!vars, where
  <1> USE DEF server, broker, lane, control, history, local
  <1>0. StreamsTypeOK
    BY DEF StreamsInv
  <1>1. CASE UNCHANGED streamsVars
    BY <1>0, <1>1, ContractReturns DEF streamsVars, Taken
  <1>2. ASSUME NEW s \in Stream, Publish(s) \/ Trim(s) \/ Discard(s) \/ DiscardIfEmpty(s) PROVE Contract!Next
    BY <1>0, <1>2, ContractReturns DEF Taken, Publish, Trim, Discard, DiscardIfEmpty, Delete
  <1>3. ASSUME NEW s \in Stream, PeerReads(s) PROVE Contract!Next \/ UNCHANGED <<where, answered>>
    <2>1. PICK n \in Entry : n = Min(New(s))
      <3>1. New(s) \in SUBSET Nat /\ New(s) # {} /\ New(s) \subseteq Entry
        BY <1>0, <1>3 DEF PeerReads, New, Holding, StreamsTypeOK
      <3> QED
        BY <3>1, LeastIsMin
    <2>2. theirs' = theirs \cup ({n} \ foreign) /\ UNCHANGED <<unsettled, settled, answered>>
      BY <1>3, <2>1 DEF PeerReads
    <2> QED
      BY <1>0, <2>2, ContractReturns, ContractTakes DEF Taken
  <1>4. ASSUME NEW e \in Entry, PeerClaims(e) PROVE Contract!Next \/ UNCHANGED <<where, answered>>
    <2>1. theirs' = theirs \cup ({e} \ foreign) /\ UNCHANGED <<unsettled, settled, answered>>
      BY <1>4 DEF PeerClaims
    <2> QED
      BY <1>0, <2>1, ContractReturns, ContractTakes DEF Taken
  <1>5. ASSUME NEW e \in Entry, PeerAnswers(e) PROVE Contract!Next \/ UNCHANGED <<where, answered>>
    BY <1>5, ContractAnswers DEF PeerAnswers, Taken
  <1>6. ASSUME NEW e \in Entry, PeerAcks(e) PROVE Contract!Next
    <2>1. theirs' = theirs \ {e} /\ e \in theirs /\ e \in answered /\ UNCHANGED <<unsettled, answered>>
      BY <1>6 DEF PeerAcks
    <2>2. CASE owner[e] = NoOne
      BY <1>0, <1>6, <2>1, <2>2, ContractReturns DEF PeerAcks, Taken
    <2>3. CASE owner[e] # NoOne
      BY <1>6, <2>1, <2>3, ContractSettles DEF PeerAcks, Taken
    <2> QED
      BY <2>2, <2>3
  <1>7. CASE PeerEnds \/ Serve
    BY <1>0, <1>7, ContractReturns DEF PeerEnds, Serve, Taken
  <1>8. ASSUME NEW e \in Entry, Complete(e) PROVE Contract!Next \/ UNCHANGED <<where, answered>>
    BY <1>8, ContractAnswers DEF Complete, Taken
  <1>9. CASE Start \/ ReclaimAgain
    BY <1>0, <1>9, ContractReturns DEF Start, ReclaimAgain, Reclaim, Taken
  <1>10. CASE Crash
    BY <1>0, <1>10, ContractReturns DEF Crash, Taken
  <1>11. ASSUME NEW e \in Entry, Ack(e) PROVE Contract!Next
    <2>1. e \in finished /\ e \in unsettled /\ e \in answered /\ UNCHANGED <<theirs, answered>>
      BY <1>11 DEF Ack, StreamsInv, Hands
    <2>2. CASE UNCHANGED <<settled, unsettled>> \/ (settled' = settled /\ unsettled' = unsettled \ {e})
      BY <1>0, <2>1, <2>2, ContractReturns DEF Taken
    <2>3. CASE owner[e] # NoOne /\ settled' = settled \cup {e} /\ unsettled' = unsettled \ {e}
      BY <2>1, <2>3, ContractSettles DEF Taken
    <2> QED
      BY <1>11, <2>2, <2>3 DEF Ack
  <1>12. CASE Hold \/ TakeStarts \/ ReleaseSpare \/ ReleaseRaises \/ TakeRaises \/ Regroup
    BY <1>0, <1>12, ContractReturns DEF Hold, TakeStarts, ReleaseSpare, ReleaseRaises, TakeRaises, Regroup, Taken
  <1>13. ASSUME NEW e \in Entry, Hand(e), UNCHANGED <<theirs, settled, answered>>
         PROVE  Contract!Next \/ UNCHANGED <<where, answered>>
    BY <1>0, <1>13, ContractTakes DEF Hand, Taken
  <1>14. CASE TakeSpare
    <2>1. Head(spare) \in Entry
      BY <1>0, <1>14, SparePops DEF TakeSpare, StreamsInv
    <2> QED
      BY <1>13, <1>14, <2>1 DEF TakeSpare
  <1>15. CASE Recover
    <2>1. UNCHANGED <<theirs, settled, answered>> /\ unsettled' \subseteq Entry
      BY <1>15, RecoverKeeps DEF Recover, StreamsInv, StreamsTypeOK
    <2>2. CASE UNCHANGED unsettled
      BY <1>0, <2>1, <2>2, ContractReturns DEF Taken
    <2>3. ASSUME NEW e, Hand(e) PROVE Contract!Next \/ UNCHANGED <<where, answered>>
      <3>1. e \in Entry
        BY <2>1, <2>3 DEF Hand
      <3> QED
        BY <1>13, <2>1, <2>3, <3>1
    <2>4. UNCHANGED unsettled \/ \E e : Hand(e)
      BY <1>15 DEF Recover
    <2> QED
      BY <2>2, <2>3, <2>4
  <1>16. CASE Fresh
    BY <1>0, <1>13, <1>16, ContractReturns DEF Fresh, Taken
  <1> QED
    BY <1>1, <1>2, <1>3, <1>4, <1>5, <1>6, <1>7, <1>8, <1>9, <1>10, <1>11, <1>12, <1>14, <1>15, <1>16
       DEF StreamsNext, Others, Loop

(* The transport keeps the contract of broker/base.py: an entry is handed  *)
(* out only while it waits and is settled only once it was answered.       *)
THEOREM StreamsKeepContract == StreamsSpec => Implements
  <1>1. StreamsInit => Contract!Init
    BY DEF StreamsInit, Contract!Init, where
  <1> QED
    BY <1>1, AtTheStart, Keeps, ContractStep, PTL DEF StreamsSpec, Implements, Contract!Spec

HIDE StreamsConstants

-----------------------------------------------------------------------------
(* The constants, each by itself. *)
LEMMA Constants ==
    /\ Window \in Nat \ {0} /\ Attempts \in Nat \ {0} /\ Lease \in Nat /\ Limit \in Nat
    /\ MaxTime \in Nat /\ IsFiniteSet(Run)
    /\ Len(Endings) \in Nat /\ DOMAIN Endings = 1..Len(Endings)
<1>1. Endings \in Seq([message : Message, code : {"lost", "deliberate", "unacknowledged"}])
  BY ReplayAssumption, Zenon
<1>2. Len(Endings) \in Nat /\ DOMAIN Endings = 1..Len(Endings)
  BY <1>1
<1> QED
  BY <1>2, ReplayAssumption, Zenon

USE Constants DEF Place

-----------------------------------------------------------------------------
(* The inductive invariant *)

\* A run that has picked an ending, and one that has one before it.
Picked == {"look", "delete", "insert", "enqueue", "mark", "record"}
Walking == {"row"} \cup Picked

(* What is true of one run on its walk: where it may be, what it counted,  *)
(* that it writes only where something is sent, and that what it has       *)
(* written is on the queue.                                                *)
Walks(r) ==
    /\ pc[r] \in Walking => at[r] \in Row
    /\ pc[r] = "new" => replayed[r] = 0
    /\ pc[r] \in Walking \cup {"window"} => replayed[r] < at[r]
    /\ went[r] = replayed[r] /\ (Limit # 0 => replayed[r] <= Limit)
    /\ pc[r] \in Picked => r \notin dry /\ ~Spent(r)
    /\ pc[r] \in Walking \cup {"window"} /\ r \notin dry => setup # "disabled"
    /\ done[r] \subseteq sent
    /\ pc[r] \in {"mark", "record"} => copies[M(r)] > 0
    /\ pc[r] \in {"enqueue", "mark"} /\ Kept(r) => ~claim[M(r)].queued
    /\ pc[r] = "over" => at[r] > Len(Endings) \/ went[r] = Limit

\* The runs that are at one of these places for the message.
Group(states, m) == {r \in Run : pc[r] \in states /\ M(r) = m}
One(condition) == IF condition THEN 1 ELSE 0

(* What is true of one message: a claim was inserted for each copy, there  *)
(* or still to be made; a copy is marked, about to be, or told of; and so  *)
(* with the row that joins it.                                             *)
Counted(m) ==
    /\ claim[m].queued => copies[m] > 0
    /\ copies[m] + Cardinality(Group({"enqueue"}, m)) <= taken[m] + One(claim[m] # NoClaim)
    /\ <<m, "twice">> \in told \/ copies[m] <= Cardinality(Group({"mark"}, m)) + One(claim[m].queued)
    /\ <<m, "hole">> \in told \/ copies[m] <= Cardinality(Group({"mark", "record"}, m)) + joined[m]

IInv == /\ TypeOK /\ (\A r \in Run : Walks(r)) /\ (\A m \in Message : Counted(m))
        /\ ~lied

-----------------------------------------------------------------------------
(* Endings, groups of runs, and words *)

(* An ending is of a message of the selection. *)
LEMMA EndingIs ==
    \A i \in Row : Of(i) \in Message /\ i \in Nat /\ 1 <= i /\ i <= Len(Endings)
  BY DEF Row, Of, Message

(* A message that a run is at, with a picked ending, is one. *)
LEMMA MessageIs ==
    ASSUME IInv, NEW r \in Run, pc[r] \in Walking
    PROVE  M(r) \in Message /\ at[r] \in Row
  BY EndingIs DEF IInv, Walks, M

(* Two groups that differ by one run at most. *)
LEMMA CountRun ==
    ASSUME NEW S \in SUBSET Run, NEW T \in SUBSET Run, NEW r \in Run, S \ {r} = T \ {r},
           NEW was \in {0, 1}, r \in S <=> was = 1, NEW is \in {0, 1}, r \in T <=> is = 1
    PROVE  /\ Cardinality(S) \in Nat /\ Cardinality(T) \in Nat
           /\ Cardinality(T) = Cardinality(S) - was + is
<1>1. IsFiniteSet(S) /\ IsFiniteSet(T)
  BY FS_Subset
<1>2. Cardinality(S) \in Nat /\ Cardinality(T) \in Nat
  BY <1>1, FS_CardinalityType
<1>3. Cardinality(S \ {r}) = Cardinality(S) - was
  <2>1. Cardinality(S \ {r}) = IF r \in S THEN Cardinality(S) - 1 ELSE Cardinality(S)
    BY <1>1, FS_RemoveElement
  <2> QED
    BY <1>2, <2>1
<1>4. Cardinality(T \ {r}) = Cardinality(T) - is
  <2>1. Cardinality(T \ {r}) = IF r \in T THEN Cardinality(T) - 1 ELSE Cardinality(T)
    BY <1>1, FS_RemoveElement
  <2> QED
    BY <1>2, <2>1
<1>5. Cardinality(S \ {r}) = Cardinality(T \ {r})
  OBVIOUS
<1> QED
  BY <1>2, <1>3, <1>4, <1>5

(* A group changes by the run that moves. *)
LEMMA CountStep ==
    ASSUME NEW r \in Run, \A q \in Run \ {r} : pc'[q] = pc[q] /\ at'[q] = at[q],
           NEW states, NEW m,
           NEW was \in {0, 1}, (pc[r] \in states /\ M(r) = m) <=> was = 1,
           NEW is \in {0, 1}, (pc'[r] \in states /\ M(r)' = m) <=> is = 1
    PROVE  /\ Cardinality(Group(states, m)) \in Nat
           /\ Cardinality(Group(states, m))' = Cardinality(Group(states, m)) - was + is
<1> DEFINE G == Group(states, m)
<1> DEFINE H == Group(states, m)'
<1>1. G \in SUBSET Run /\ H \in SUBSET Run
  BY DEF Group
<1>2. \A q \in Run \ {r} : q \in H <=> q \in G
  BY DEF Group, M
<1>3. (r \in G <=> was = 1) /\ (r \in H <=> is = 1)
  BY DEF Group
<1>4. G \ {r} = H \ {r}
  BY <1>1, <1>2
<1>5. Cardinality(G) \in Nat /\ Cardinality(H) = Cardinality(G) - was + is
  BY <1>1, <1>3, <1>4, CountRun
<1> QED
  BY <1>5

(* A group that has no run in it counts nothing. *)
LEMMA CountNone ==
    ASSUME NEW states, NEW m
    PROVE  /\ Cardinality(Group(states, m)) \in Nat
           /\ Cardinality(Group(states, m)) > 0 => \E r \in Run : pc[r] \in states /\ M(r) = m
<1>1. Group(states, m) \in SUBSET Run
  BY DEF Group
<1>2. IsFiniteSet(Group(states, m))
  BY <1>1, FS_Subset
<1>3. Group(states, m) = {} => Cardinality(Group(states, m)) = 0
  BY FS_EmptySet
<1>4. Cardinality(Group(states, m)) \in Nat
  BY <1>2, FS_CardinalityType
<1> QED
  BY <1>3, <1>4 DEF Group

\* The step is one of this run, and says nothing of what another one is at.
Alone(r) ==
    /\ \A q \in Run \ {r} :
          /\ pc'[q] = pc[q] /\ at'[q] = at[q] /\ replayed'[q] = replayed[q] /\ went'[q] = went[q]
          /\ done'[q] = done[q] /\ (q \in dry' <=> q \in dry)
    /\ setup' = setup /\ sent \subseteq sent'

(* One ending is over: the run is at the next one or at a new window, and  *)
(* counts what it put back.                                                *)
LEMMA SaysDoes ==
    ASSUME IInv, NEW r \in Run, pc[r] \in Walking, NEW word, Says(r, word)
    PROVE  /\ pc' \in [Run -> Place]
           /\ at' \in [Run -> 0..Len(Endings) + 1] /\ tries' \in [Run -> 0..Attempts]
           /\ seen' \in [Run -> Claim]
           /\ {replayed', went'} \subseteq [Run -> 0..Len(Endings)] /\ lied' \in BOOLEAN
           /\ \A q \in Run \ {r} : /\ pc'[q] = pc[q] /\ at'[q] = at[q]
                                   /\ replayed'[q] = replayed[q] /\ went'[q] = went[q]
           /\ at'[r] = at[r] + 1 /\ pc'[r] \in {"window", "row"} /\ (pc'[r] = "row" => at'[r] \in Row)
           /\ replayed'[r] = replayed[r] + One(word = "replayed") /\ went'[r] = replayed'[r]
           /\ replayed'[r] < at'[r]
           /\ lied' = (lied \/ ~True(r, word))
<1>1. TypeOK /\ at[r] \in Row /\ Len(Endings) \in Nat /\ at[r] \in 1..Len(Endings)
  BY MessageIs, EndingIs DEF IInv, Row
<1>2. replayed[r] \in 0..Len(Endings) /\ replayed[r] < at[r] /\ went[r] = replayed[r]
  BY <1>1 DEF IInv, Walks, TypeOK
<1>3. at' \in [Run -> 0..Len(Endings) + 1] /\ at'[r] = at[r] + 1 /\ \A q \in Run \ {r} : at'[q] = at[q]
  BY <1>1 DEF Says, Set, TypeOK
<1>4. /\ pc' \in [Run -> Place]
      /\ pc'[r] \in {"window", "row"} /\ \A q \in Run \ {r} : pc'[q] = pc[q]
  BY <1>1 DEF Says, Goes, Set, TypeOK
<1>5. pc'[r] = "row" => at[r] # Len(Endings)
  BY <1>1 DEF Says, Goes, Set, TypeOK
<1>6. /\ {replayed', went'} \subseteq [Run -> 0..Len(Endings)]
      /\ replayed'[r] = replayed[r] + One(word = "replayed") /\ went'[r] = replayed'[r]
      /\ \A q \in Run \ {r} : replayed'[q] = replayed[q] /\ went'[q] = went[q]
  <2>1. CASE word = "replayed"
    BY <1>1, <1>2, <2>1 DEF Says, Counts, Set, TypeOK, One
  <2>2. CASE word # "replayed"
    BY <1>1, <1>2, <2>2 DEF Says, Counts, TypeOK, One
  <2> QED
    BY <2>1, <2>2
<1>7. replayed'[r] < at'[r]
  BY <1>1, <1>2, <1>3, <1>6 DEF One
<1>8. tries' \in [Run -> 0..Attempts] /\ seen' \in [Run -> Claim]
  BY <1>1 DEF Says, Set, TypeOK, Claim, NoClaim
<1>9. lied' = (lied \/ ~True(r, word)) /\ lied' \in BOOLEAN
  BY DEF Says
<1> QED
  BY <1>1, <1>3, <1>4, <1>5, <1>6, <1>7, <1>8, <1>9 DEF Row

(* A run that says what is so goes on as it should. *)
LEMMA SaysKeeps ==
    ASSUME IInv, NEW r \in Run, pc[r] \in Walking, ~Spent(r), NEW word, Says(r, word), True(r, word),
           UNCHANGED <<options, done, sent>>
    PROVE  Alone(r) /\ Walks(r)' /\ ~lied'
<1>1. /\ \A q \in Run \ {r} : /\ pc'[q] = pc[q] /\ at'[q] = at[q]
                              /\ replayed'[q] = replayed[q] /\ went'[q] = went[q]
      /\ pc'[r] \in {"window", "row"} /\ (pc'[r] = "row" => at'[r] \in Row)
      /\ replayed'[r] = replayed[r] + One(word = "replayed") /\ went'[r] = replayed'[r]
      /\ replayed'[r] < at'[r]
      /\ lied' = (lied \/ ~True(r, word))
  BY SaysDoes
<1>2. Alone(r) /\ ~lied'
  BY <1>1 DEF Alone, options, IInv
<1>3. replayed[r] \in Nat /\ (Limit # 0 => replayed[r] < Limit)
  <2>1. replayed[r] \in 0..Len(Endings)
    BY DEF IInv, TypeOK
  <2> QED
    BY <2>1 DEF Spent
<1>4. Limit # 0 => replayed'[r] <= Limit
  BY <1>1, <1>3 DEF One
<1>5. dry' = dry /\ setup' = setup /\ done'[r] = done[r] /\ sent' = sent
  BY DEF options
<1>6. Walks(r)'
  BY <1>1, <1>4, <1>5 DEF IInv, Walks, Walking, Picked
<1> QED
  BY <1>2, <1>6

(* What one run does keeps what is true of the walks of the others: a      *)
(* claim it writes is its own.                                             *)
LEMMA OthersWalk ==
    ASSUME IInv, NEW r \in Run, Alone(r),
           \A m \in Message : copies[m] > 0 => copies'[m] > 0,
           \A m \in Message : claim'[m] = claim[m] \/ claim'[m].by \in {<<>>, <<r, at[r]>>}
    PROVE  \A q \in Run \ {r} : Walks(q)'
<1> SUFFICES ASSUME NEW q \in Run \ {r} PROVE Walks(q)'
  OBVIOUS
<1>1. /\ pc'[q] = pc[q] /\ at'[q] = at[q] /\ replayed'[q] = replayed[q] /\ went'[q] = went[q]
      /\ done'[q] = done[q] /\ (q \in dry' <=> q \in dry)
      /\ setup' = setup /\ sent \subseteq sent'
  BY DEF Alone
<1>2. pc[q] \in {"enqueue", "mark", "record"} => M(q) \in Message /\ at[q] \in Row
  BY MessageIs DEF Walking, Picked
<1>3. M(q)' = M(q) /\ (Spent(q)' <=> Spent(q))
  BY <1>1 DEF M, Spent
<1>4. pc[q] \in {"enqueue", "mark"} /\ Kept(q)' => claim'[M(q)] = claim[M(q)] /\ Kept(q)
  <2>1. <<q, at[q]>> # <<r, at[r]>> /\ <<q, at[q]>> # <<>>
    OBVIOUS
  <2>2. Kept(q)' <=> claim'[M(q)].by = <<q, at[q]>>
    BY <1>1, <1>3 DEF Kept
  <2> QED
    BY <1>2, <2>1, <2>2 DEF Kept
<1>5. Walks(q)
  BY DEF IInv
<1>6. pc[q] \in {"enqueue", "mark"} /\ Kept(q)' => ~claim'[M(q)].queued
  BY <1>4, <1>5 DEF Walks
<1>7. pc[q] \in {"mark", "record"} => copies'[M(q)] > 0
  BY <1>2, <1>5 DEF Walks
<1>8. done[q] \subseteq sent'
  BY <1>1, <1>5 DEF Walks
<1> QED
  BY <1>1, <1>3, <1>5, <1>6, <1>7, <1>8 DEF Walks

(* A run that is writing nothing, before or after, changes no count. *)
LEMMA QuietCounts ==
    ASSUME IInv, NEW r \in Run, Alone(r), UNCHANGED <<claim, copies, joined, taken, told>>,
           pc[r] \notin {"enqueue", "mark", "record"}, pc'[r] \notin {"enqueue", "mark", "record"}
    PROVE  \A m \in Message : Counted(m)'
<1> SUFFICES ASSUME NEW m \in Message PROVE Counted(m)'
  OBVIOUS
<1>1. \A q \in Run \ {r} : pc'[q] = pc[q] /\ at'[q] = at[q]
  BY DEF Alone
<1>2. ASSUME NEW states \in SUBSET {"enqueue", "mark", "record"}
      PROVE  Cardinality(Group(states, m))' = Cardinality(Group(states, m))
  <2>1. /\ (pc[r] \in states /\ M(r) = m) <=> 0 = 1
        /\ (pc'[r] \in states /\ M(r)' = m) <=> 0 = 1
    <3>1. pc[r] \notin states /\ pc'[r] \notin states
      OBVIOUS
    <3> QED
      BY <3>1
  <2>2. /\ Cardinality(Group(states, m)) \in Nat
        /\ Cardinality(Group(states, m))' = Cardinality(Group(states, m)) - 0 + 0
    BY <1>1, <2>1, CountStep
  <2> QED
    BY <2>2
<1>3. /\ Cardinality(Group({"enqueue"}, m))' = Cardinality(Group({"enqueue"}, m))
      /\ Cardinality(Group({"mark"}, m))' = Cardinality(Group({"mark"}, m))
      /\ Cardinality(Group({"mark", "record"}, m))' = Cardinality(Group({"mark", "record"}, m))
  BY <1>2
<1> QED
  BY <1>3 DEF IInv, Counted

(* What a run does about one message is nothing to the other ones. *)
LEMMA OtherMessages ==
    ASSUME IInv, NEW r \in Run, Alone(r), at'[r] = at[r] \/ pc'[r] \in {"window", "row", "dead"},
           NEW m \in Message, m # M(r),
           copies'[m] = copies[m], claim'[m] = claim[m], joined'[m] = joined[m], taken'[m] = taken[m],
           told \subseteq told'
    PROVE  Counted(m)'
<1>1. \A q \in Run \ {r} : pc'[q] = pc[q] /\ at'[q] = at[q]
  BY DEF Alone
<1>2. ASSUME NEW states \in SUBSET {"enqueue", "mark", "record"}
      PROVE  Cardinality(Group(states, m))' = Cardinality(Group(states, m))
  <2>1. /\ (pc[r] \in states /\ M(r) = m) <=> 0 = 1
        /\ (pc'[r] \in states /\ M(r)' = m) <=> 0 = 1
    <3>1. pc'[r] \in {"window", "row", "dead"} => pc'[r] \notin states
      OBVIOUS
    <3>2. at'[r] = at[r] => M(r)' = M(r)
      BY DEF M
    <3> QED
      BY <3>1, <3>2
  <2>2. /\ Cardinality(Group(states, m)) \in Nat
        /\ Cardinality(Group(states, m))' = Cardinality(Group(states, m)) - 0 + 0
    BY <1>1, <2>1, CountStep
  <2> QED
    BY <2>2
<1>3. /\ Cardinality(Group({"enqueue"}, m))' = Cardinality(Group({"enqueue"}, m))
      /\ Cardinality(Group({"mark"}, m))' = Cardinality(Group({"mark"}, m))
      /\ Cardinality(Group({"mark", "record"}, m))' = Cardinality(Group({"mark", "record"}, m))
  BY <1>2
<1>4. Counted(m)
  BY DEF IInv
<1> QED
  BY <1>3, <1>4 DEF Counted

(* A run goes from one place to another with the ending it is at. *)
LEMMA GoesDoes ==
    ASSUME IInv, NEW r \in Run,
           NEW place \in Place \ {"new"}, Goes(r, place)
    PROVE  /\ pc' \in [Run -> Place]
           /\ pc'[r] = place /\ \A q \in Run \ {r} : pc'[q] = pc[q]
  BY DEF IInv, TypeOK, Goes, Set

(* Where a run comes from and goes to is what changes the counts of the    *)
(* message it is at.                                                       *)
LEMMA OwnMessage ==
    ASSUME NEW r \in Run, Alone(r), at'[r] = at[r] \/ pc'[r] \in {"window", "row", "dead"},
           NEW m, m = M(r),
           NEW e \in {0, 1}, pc[r] = "enqueue" <=> e = 1,
           NEW k \in {0, 1}, pc[r] = "mark" <=> k = 1,
           NEW d \in {0, 1}, pc[r] = "record" <=> d = 1,
           NEW e2 \in {0, 1}, pc'[r] = "enqueue" <=> e2 = 1,
           NEW k2 \in {0, 1}, pc'[r] = "mark" <=> k2 = 1,
           NEW d2 \in {0, 1}, pc'[r] = "record" <=> d2 = 1
    PROVE  /\ Cardinality(Group({"enqueue"}, m)) \in Nat
           /\ Cardinality(Group({"enqueue"}, m))' = Cardinality(Group({"enqueue"}, m)) - e + e2
           /\ Cardinality(Group({"mark"}, m)) \in Nat
           /\ Cardinality(Group({"mark"}, m))' = Cardinality(Group({"mark"}, m)) - k + k2
           /\ Cardinality(Group({"mark", "record"}, m)) \in Nat
           /\ Cardinality(Group({"mark", "record"}, m))' =
                 Cardinality(Group({"mark", "record"}, m)) - (k + d) + (k2 + d2)
<1>1. \A q \in Run \ {r} : pc'[q] = pc[q] /\ at'[q] = at[q]
  BY DEF Alone
<1>2. pc'[r] \in {"enqueue", "mark", "record"} => M(r)' = m
  BY DEF M
<1>3. k + d \in {0, 1} /\ k2 + d2 \in {0, 1}
  OBVIOUS
<1>4. /\ (pc[r] \in {"enqueue"} /\ M(r) = m) <=> e = 1
      /\ (pc'[r] \in {"enqueue"} /\ M(r)' = m) <=> e2 = 1
  BY <1>2
<1>5. /\ (pc[r] \in {"mark"} /\ M(r) = m) <=> k = 1
      /\ (pc'[r] \in {"mark"} /\ M(r)' = m) <=> k2 = 1
  BY <1>2
<1>6. /\ (pc[r] \in {"mark", "record"} /\ M(r) = m) <=> k + d = 1
      /\ (pc'[r] \in {"mark", "record"} /\ M(r)' = m) <=> k2 + d2 = 1
  BY <1>2
<1>7. /\ Cardinality(Group({"enqueue"}, m)) \in Nat
      /\ Cardinality(Group({"enqueue"}, m))' = Cardinality(Group({"enqueue"}, m)) - e + e2
  BY <1>1, <1>4, CountStep
<1>8. /\ Cardinality(Group({"mark"}, m)) \in Nat
      /\ Cardinality(Group({"mark"}, m))' = Cardinality(Group({"mark"}, m)) - k + k2
  BY <1>1, <1>5, CountStep
<1>9. /\ Cardinality(Group({"mark", "record"}, m)) \in Nat
      /\ Cardinality(Group({"mark", "record"}, m))' =
            Cardinality(Group({"mark", "record"}, m)) - (k + d) + (k2 + d2)
  BY <1>1, <1>3, <1>6, CountStep
<1> QED
  BY <1>7, <1>8, <1>9

-----------------------------------------------------------------------------
(* The steps that write nothing *)

(* A run begins, unless there is nothing for it to read, send or record. *)
LEMMA BeginKeeps ==
    ASSUME IInv, NEW r \in Run, NEW isDry \in BOOLEAN, Begin(r, isDry)
    PROVE  IInv'
<1> USE DEF world, report
<1>1. TypeOK /\ Walks(r) /\ pc[r] = "new"
  BY DEF IInv, Begin
<1>2. dry' \subseteq Run /\ started' \in [Run -> 0..MaxTime]
  BY <1>1 DEF Begin, Set, TypeOK
<1>3. CASE Refuses(isDry)
  <2>1. Goes(r, "refused") /\ UNCHANGED at
    BY <1>3 DEF Begin
  <2>2. /\ pc' \in [Run -> Place]
        /\ pc'[r] = "refused" /\ \A q \in Run \ {r} : pc'[q] = pc[q]
    BY <2>1, GoesDoes
  <2>3. TypeOK'
    BY <1>1, <1>2, <2>1, <2>2 DEF Begin, TypeOK
  <2>4. Alone(r)
    BY <2>1, <2>2 DEF Begin, Alone
  <2>5. Walks(r)'
    BY <1>1, <2>2 DEF Begin, Walks, Walking, Picked
  <2>6. \A q \in Run \ {r} : Walks(q)'
    BY <2>4, OthersWalk DEF Begin
  <2>7. \A m \in Message : Counted(m)'
    BY <1>1, <2>2, <2>4, QuietCounts DEF Begin
  <2> QED
    BY <2>3, <2>5, <2>6, <2>7 DEF Begin, IInv
<1>4. CASE ~Refuses(isDry)
  <2>1. Goes(r, "window") /\ at' = Set(at, r, 1)
    BY <1>4 DEF Begin
  <2>2. /\ pc' \in [Run -> Place]
        /\ pc'[r] = "window" /\ \A q \in Run \ {r} : pc'[q] = pc[q]
    BY <2>1, GoesDoes
  <2>3. at' \in [Run -> 0..Len(Endings) + 1] /\ at'[r] = 1 /\ \A q \in Run \ {r} : at'[q] = at[q]
    BY <1>1, <2>1 DEF Set, TypeOK
  <2>4. TypeOK'
    BY <1>1, <1>2, <2>2, <2>3 DEF Begin, TypeOK
  <2>5. Alone(r)
    BY <2>2, <2>3 DEF Begin, Alone
  <2>6. replayed'[r] < at'[r]
    BY <1>1, <2>3 DEF Walks, Begin
  <2>7. r \notin dry' => setup' # "disabled"
    BY <1>4 DEF Begin, Refuses
  <2>8. Walks(r)'
    BY <1>1, <2>2, <2>6, <2>7 DEF Begin, Walks, Walking, Picked
  <2>9. \A q \in Run \ {r} : Walks(q)'
    BY <2>5, OthersWalk DEF Begin
  <2>10. \A m \in Message : Counted(m)'
    BY <1>1, <2>2, <2>5, QuietCounts DEF Begin
  <2> QED
    BY <2>4, <2>8, <2>9, <2>10 DEF Begin, IInv
<1> QED
  BY <1>3, <1>4

(* A window is read, or the run is over: with every ending behind it, or   *)
(* with as many put back as it was let.                                    *)
LEMMA WindowKeeps ==
    ASSUME IInv, NEW r \in Run, ReadWindow(r) \/ BoundSpent(r)
    PROVE  IInv'
<1> USE DEF world, report, options
<1>1. TypeOK /\ Walks(r) /\ pc[r] \in {"window", "row"}
  BY DEF IInv, ReadWindow, BoundSpent
<1>2. PICK place \in {"over", "row"} : Goes(r, place)
  BY DEF ReadWindow, BoundSpent, Report
<1>3. /\ pc' \in [Run -> Place]
      /\ pc'[r] = place /\ \A q \in Run \ {r} : pc'[q] = pc[q]
  BY <1>2, GoesDoes
<1>4. /\ done' \in [Run -> SUBSET Message] /\ done'[r] \subseteq sent
      /\ \A q \in Run \ {r} : done'[q] = done[q]
  <2>1. CASE UNCHANGED done
    BY <1>1, <2>1 DEF TypeOK, Walks
  <2>2. CASE done' = Set(done, r, {Of(i) : i \in {j \in Row : at[r] <= j /\ j < at[r] + Window}} \cap sent)
    BY <1>1, <2>2 DEF TypeOK, Set
  <2> QED
    BY <2>1, <2>2 DEF ReadWindow, BoundSpent
<1>5. TypeOK'
  BY <1>1, <1>3, <1>4 DEF ReadWindow, BoundSpent, TypeOK
<1>6. Alone(r)
  BY <1>3, <1>4 DEF ReadWindow, BoundSpent, Alone
<1>7. replayed[r] \in Nat /\ at[r] \in Nat
  BY <1>1 DEF TypeOK
<1>8. place = "over" => at[r] > Len(Endings) \/ went[r] = Limit
  <2>1. Spent(r) => went[r] = Limit
    BY <1>1, <1>7 DEF Walks, Spent
  <2>2. place = "over" => Spent(r) \/ at[r] > Len(Endings)
    BY <1>1, <1>2, <1>3 DEF ReadWindow, BoundSpent, Goes, Set, TypeOK
  <2> QED
    BY <2>1, <2>2
<1>9. place = "row" => at[r] \in Row
  <2>1. place = "row" => pc[r] = "window" /\ ~(at[r] > Len(Endings))
    BY <1>1, <1>3 DEF ReadWindow, BoundSpent, Report, Goes, Set, TypeOK
  <2>2. pc[r] = "window" => at[r] > 0
    BY <1>1, <1>7 DEF Walks
  <2> QED
    BY <1>7, <2>1, <2>2 DEF Row
<1>10. Walks(r)'
  BY <1>1, <1>3, <1>4, <1>8, <1>9 DEF ReadWindow, BoundSpent, Walks, Walking, Picked
<1>11. \A q \in Run \ {r} : Walks(q)'
  BY <1>6, OthersWalk DEF ReadWindow, BoundSpent
<1>12. \A m \in Message : Counted(m)'
  BY <1>1, <1>3, <1>6, QuietCounts DEF ReadWindow, BoundSpent
<1> QED
  BY <1>5, <1>10, <1>11, <1>12 DEF ReadWindow, BoundSpent, IInv

(* An ending that is over without a write. *)
LEMMA SpokenKeeps ==
    ASSUME IInv, NEW r \in Run, pc[r] \in {"row", "look", "delete", "insert"}, ~Spent(r),
           NEW word, Says(r, word), True(r, word),
           UNCHANGED <<world, told, options, done>>, would' \in [Run -> SUBSET Message]
    PROVE  IInv'
<1>1. pc[r] \in Walking /\ UNCHANGED <<now, claim, copies, joined, sent, taken>>
  BY DEF Walking, Picked, world
<1>2. Alone(r) /\ Walks(r)' /\ ~lied'
  BY <1>1, SaysKeeps
<1>3. /\ pc' \in [Run -> Place]
      /\ at' \in [Run -> 0..Len(Endings) + 1] /\ tries' \in [Run -> 0..Attempts]
      /\ seen' \in [Run -> Claim]
      /\ {replayed', went'} \subseteq [Run -> 0..Len(Endings)] /\ lied' \in BOOLEAN
      /\ pc'[r] \in {"window", "row"}
  BY <1>1, SaysDoes
<1>4. TypeOK'
  BY <1>1, <1>3 DEF IInv, TypeOK, options
<1>5. \A q \in Run \ {r} : Walks(q)'
  BY <1>1, <1>2, OthersWalk
<1>6. \A m \in Message : Counted(m)'
  BY <1>1, <1>2, <1>3, QuietCounts
<1> QED
  BY <1>2, <1>4, <1>5, <1>6 DEF IInv

(* A run that is looking for a claim may put the ending back. *)
LEMMA LooksIs ==
    ASSUME IInv, NEW r \in Run, Looks(r)
    PROVE  pc[r] \in {"row", "look"} /\ ~Spent(r) /\ pc[r] \in Walking /\ M(r) \in Message
<1>1. Walks(r)
  BY DEF IInv
<1>2. pc[r] \in {"row", "look"} /\ ~Spent(r) /\ pc[r] \in Walking
  BY <1>1 DEF Looks, Walks, Picked, Walking
<1> QED
  BY <1>2, MessageIs

(* Nothing to do, or nothing to make the message from. *)
LEMMA PassOverKeeps ==
    ASSUME IInv, NEW r \in Run, PassOver(r) \/ Refuse(r)
    PROVE  IInv'
<1>1. pc[r] = "row" /\ ~Spent(r) /\ UNCHANGED <<world, told, options, done, would>>
  BY DEF PassOver, Refuse
<1>2. would' \in [Run -> SUBSET Message]
  BY <1>1 DEF IInv, TypeOK
<1>3. M(r) \in done[r] => M(r) \in sent
  BY DEF IInv, Walks
<1>4. \E word : Says(r, word) /\ True(r, word)
  BY <1>3 DEF PassOver, Refuse, True
<1> QED
  BY <1>1, <1>2, <1>4, SpokenKeeps

(* _would_replay(): the dry run counts and writes nothing. *)
LEMMA LookDryKeeps ==
    ASSUME IInv, NEW r \in Run, LookDry(r)
    PROVE  IInv'
<1>1. pc[r] \in {"row", "look"} /\ ~Spent(r) /\ M(r) \in Message
  BY LooksIs DEF LookDry
<1>2. would' \in [Run -> SUBSET Message]
  <2>1. would \in [Run -> SUBSET Message]
    BY DEF IInv, TypeOK
  <2> QED
    BY <1>1, <2>1 DEF LookDry, Set
<1>3. \E word : Says(r, word) /\ True(r, word)
  <2>1. r \in dry
    BY DEF LookDry
  <2>2. \E word \in {"already", "claimed", "replayed"} : Says(r, word)
    BY DEF LookDry, Held
  <2> QED
    BY <2>1, <2>2 DEF True
<1> QED
  BY <1>1, <1>2, <1>3, SpokenKeeps DEF LookDry

(* What is said of a claim that stands is so: its message is on the queue. *)
LEMMA LookKeeps ==
    ASSUME IInv, NEW r \in Run, Look(r)
    PROVE  IInv'
<1> DEFINE c == claim[M(r)]
<1>1. pc[r] \in {"row", "look"} /\ ~Spent(r) /\ pc[r] \in Walking /\ M(r) \in Message
  BY LooksIs DEF Look
<1>2. TypeOK /\ Walks(r) /\ Counted(M(r)) /\ r \notin dry /\ UNCHANGED <<world, options, done>>
  BY <1>1 DEF IInv, Look
<1>3. CASE Says(r, Held(c)) /\ UNCHANGED <<would, told>>
  <2>1. would' \in [Run -> SUBSET Message]
    BY <1>2, <1>3 DEF TypeOK
  <2>2. True(r, Held(c))
    BY <1>2 DEF True, Held, Counted
  <2> QED
    BY <1>1, <1>2, <1>3, <2>1, <2>2, SpokenKeeps
<1>4. CASE /\ seen' = Set(seen, r, c) /\ Goes(r, IF c = NoClaim THEN "insert" ELSE "delete")
           /\ UNCHANGED <<at, tries, report>>
  <2>1. PICK place \in {"insert", "delete"} : Goes(r, place)
    BY <1>4
  <2>2. /\ pc' \in [Run -> Place]
        /\ pc'[r] = place /\ \A q \in Run \ {r} : pc'[q] = pc[q]
    BY <2>1, GoesDoes
  <2>3. seen' \in [Run -> Claim]
    BY <1>1, <1>2, <1>4 DEF TypeOK, Set
  <2>4. TypeOK'
    BY <1>2, <1>4, <2>2, <2>3 DEF TypeOK, world, options, report
  <2>5. Alone(r)
    BY <1>2, <1>4, <2>2 DEF Alone, world, options, report
  <2>6. Walks(r)'
    BY <1>1, <1>2, <1>4, <2>2 DEF Walks, Walking, Picked, Spent, world, options, report
  <2>7. UNCHANGED <<claim, copies, joined, taken, told>>
    BY <1>2, <1>4 DEF world, report
  <2>8. \A q \in Run \ {r} : Walks(q)'
    BY <2>5, <2>7, OthersWalk
  <2>9. \A m \in Message : Counted(m)'
    BY <1>1, <2>2, <2>5, <2>7, QuietCounts
  <2> QED
    BY <1>4, <2>4, <2>6, <2>8, <2>9 DEF IInv, report
<1> QED
  BY <1>3, <1>4 DEF Look

-----------------------------------------------------------------------------
(* The claim *)

(* No claim is one that stands for none. *)
LEMMA ClaimIs == NoClaim \in Claim /\ ~NoClaim.queued /\ NoClaim.by = <<>>
<1>1. NoClaim \in Claim
  BY DEF NoClaim, Claim
<1> QED
  BY <1>1 DEF NoClaim

(* A claim that is taken over is counted before it is gone. *)
LEMMA TakeOverKeeps ==
    ASSUME IInv, NEW r \in Run, TakeOver(r)
    PROVE  IInv'
<1>1. TypeOK /\ Walks(r) /\ pc[r] = "delete" /\ ~Spent(r)
  BY DEF IInv, TakeOver, Walks, Picked
<1>2. M(r) \in Message /\ Counted(M(r))
  BY <1>1, MessageIs DEF Walking, Picked, IInv
<1>3. UNCHANGED <<now, copies, joined, sent, options, done>>
  BY DEF TakeOver
<1>4. CASE Says(r, "already") /\ ~StillOpen(r) /\ claim[M(r)].by = seen[r].by
           /\ UNCHANGED <<claim, taken, would, told>>
  <2>1. would' \in [Run -> SUBSET Message]
    BY <1>1, <1>4 DEF TypeOK
  <2>2. True(r, "already")
    BY <1>2, <1>4 DEF True, Counted, StillOpen
  <2> QED
    BY <1>1, <1>3, <1>4, <2>1, <2>2, SpokenKeeps DEF world
<1>5. ASSUME Goes(r, "insert"), UNCHANGED <<at, tries, seen, report>>,
             \/ UNCHANGED <<claim, taken>>
             \/ /\ claim' = Set(claim, M(r), NoClaim) /\ taken' = Set(taken, M(r), taken[M(r)] + 1)
                /\ ~claim[M(r)].queued
      PROVE  IInv'
  <2>1. /\ pc' \in [Run -> Place]
        /\ pc'[r] = "insert" /\ \A q \in Run \ {r} : pc'[q] = pc[q]
    BY <1>5, GoesDoes
  <2>2. claim' \in [Message -> Claim] /\ taken' \in [Message -> Nat]
    <3>1. /\ claim \in [Message -> Claim] /\ taken \in [Message -> Nat]
          /\ M(r) \in Message /\ taken[M(r)] + 1 \in Nat
      BY <1>1, <1>2 DEF TypeOK
    <3> QED
      BY <1>5, <3>1, ClaimIs DEF Set
  <2>3. TypeOK'
    BY <1>1, <1>3, <1>5, <2>1, <2>2 DEF TypeOK, options, report
  <2>4. Alone(r)
    BY <1>3, <1>5, <2>1 DEF Alone, options, report
  <2>5. Walks(r)'
    BY <1>1, <1>3, <1>5, <2>1 DEF Walks, Walking, Picked, Spent, options, report
  <2>6. \A m \in Message : claim'[m] = claim[m] \/ claim'[m].by \in {<<>>, <<r, at[r]>>}
    BY <1>1, <1>5 DEF TypeOK, Set, NoClaim
  <2>7. \A q \in Run \ {r} : Walks(q)'
    BY <1>3, <2>4, <2>6, OthersWalk
  <2>8. CASE UNCHANGED <<claim, taken>>
    <3>1. UNCHANGED <<claim, copies, joined, taken, told>>
      BY <1>3, <1>5, <2>8 DEF report
    <3>2. \A m \in Message : Counted(m)'
      BY <1>1, <2>1, <2>4, <3>1, QuietCounts
    <3> QED
      BY <1>5, <2>3, <2>5, <2>7, <3>2 DEF IInv, report
  <2>9. CASE /\ claim' = Set(claim, M(r), NoClaim) /\ taken' = Set(taken, M(r), taken[M(r)] + 1)
             /\ ~claim[M(r)].queued
    <3>1. told' = told
      BY <1>5 DEF report
    <3>2. ASSUME NEW m \in Message, m # M(r) PROVE Counted(m)'
      <4>1. claim'[m] = claim[m] /\ taken'[m] = taken[m] /\ copies'[m] = copies[m] /\ joined'[m] = joined[m]
        BY <1>1, <1>3, <2>9, <3>2 DEF TypeOK, Set
      <4> QED
        BY <1>5, <2>4, <3>1, <3>2, <4>1, OtherMessages
    <3>3. ASSUME NEW m \in Message, m = M(r) PROVE Counted(m)'
      <4>1. /\ Cardinality(Group({"enqueue"}, m)) \in Nat
            /\ Cardinality(Group({"enqueue"}, m))' = Cardinality(Group({"enqueue"}, m)) - 0 + 0
            /\ Cardinality(Group({"mark"}, m)) \in Nat
            /\ Cardinality(Group({"mark"}, m))' = Cardinality(Group({"mark"}, m)) - 0 + 0
            /\ Cardinality(Group({"mark", "record"}, m)) \in Nat
            /\ Cardinality(Group({"mark", "record"}, m))' =
                  Cardinality(Group({"mark", "record"}, m)) - (0 + 0) + (0 + 0)
        BY <1>1, <1>5, <2>1, <2>4, <3>3, OwnMessage
      <4>2. claim'[m] = NoClaim /\ taken'[m] = taken[m] + 1 /\ taken[m] \in Nat /\ copies[m] \in Nat
        BY <1>1, <2>9, <3>3 DEF TypeOK, Set
      <4>3. ~claim[m].queued /\ ~claim'[m].queued
        BY <2>9, <3>3, <4>2 DEF NoClaim
      <4> QED
        BY <1>2, <1>3, <3>1, <3>3, <4>1, <4>2, <4>3 DEF Counted, One
    <3> QED
      BY <1>5, <2>3, <2>5, <2>7, <3>2, <3>3 DEF IInv, report
  <2> QED
    BY <1>5, <2>8, <2>9
<1> QED
  BY <1>4, <1>5 DEF TakeOver, StillOpen

(* A claim that is marked is the same one, and finished. *)
LEMMA MarkedIs ==
    ASSUME NEW c \in Claim
    PROVE  /\ [c EXCEPT !.queued = TRUE] \in Claim
           /\ [c EXCEPT !.queued = TRUE].by = c.by /\ [c EXCEPT !.queued = TRUE].queued
<1>1. ASSUME NEW By, NEW Time, NEW x \in [by : By, at : Time, queued : BOOLEAN]
      PROVE  /\ [x EXCEPT !.queued = TRUE] \in [by : By, at : Time, queued : BOOLEAN]
             /\ [x EXCEPT !.queued = TRUE].by = x.by /\ [x EXCEPT !.queued = TRUE].queued
  OBVIOUS
<1>2. Claim = [by : {<<>>} \cup (Run \X Row), at : 0..MaxTime, queued : BOOLEAN]
  BY DEF Claim
<1> HIDE DEF Claim
<1> QED
  BY <1>1, <1>2

(* A claim that is inserted stands for the copy that is still to be made. *)
LEMMA InsertKeeps ==
    ASSUME IInv, NEW r \in Run, Insert(r)
    PROVE  IInv'
<1>1. TypeOK /\ Walks(r) /\ pc[r] = "insert" /\ ~Spent(r) /\ r \notin dry
  BY DEF IInv, Insert, Walks, Picked
<1>2. M(r) \in Message /\ Counted(M(r)) /\ at[r] \in Row
  BY <1>1, MessageIs DEF Walking, Picked, IInv
<1>3. UNCHANGED <<now, copies, joined, sent, taken, options, done>>
  BY DEF Insert
<1>4. CASE Says(r, "contested") /\ UNCHANGED <<claim, would, told>>
  <2>1. would' \in [Run -> SUBSET Message]
    BY <1>1, <1>4 DEF TypeOK
  <2> QED
    BY <1>1, <1>3, <1>4, <2>1, SpokenKeeps DEF world, True
<1>5. CASE /\ tries[r] + 1 < Attempts /\ tries' = Set(tries, r, tries[r] + 1) /\ Goes(r, "look")
           /\ UNCHANGED <<claim, at, seen, report>>
  <2>1. /\ pc' \in [Run -> Place]
        /\ pc'[r] = "look" /\ \A q \in Run \ {r} : pc'[q] = pc[q]
    BY <1>5, GoesDoes
  <2>2. tries' \in [Run -> 0..Attempts]
    BY <1>1, <1>5 DEF TypeOK, Set
  <2>3. TypeOK'
    BY <1>1, <1>3, <1>5, <2>1, <2>2 DEF TypeOK, options, report
  <2>4. Alone(r)
    BY <1>3, <1>5, <2>1 DEF Alone, options, report
  <2>5. Walks(r)'
    BY <1>1, <1>3, <1>5, <2>1 DEF Walks, Walking, Picked, Spent, options, report
  <2>6. UNCHANGED <<claim, copies, joined, taken, told>>
    BY <1>3, <1>5 DEF report
  <2>7. \A q \in Run \ {r} : Walks(q)'
    BY <2>4, <2>6, OthersWalk
  <2>8. \A m \in Message : Counted(m)'
    BY <1>1, <2>1, <2>4, <2>6, QuietCounts
  <2> QED
    BY <1>5, <2>3, <2>5, <2>7, <2>8 DEF IInv, report
<1>6. CASE /\ claim[M(r)] = NoClaim
           /\ claim' = Set(claim, M(r), [by |-> <<r, at[r]>>, at |-> now, queued |-> FALSE])
           /\ Goes(r, "enqueue") /\ UNCHANGED <<at, tries, seen, report>>
  <2> DEFINE mine == [by |-> <<r, at[r]>>, at |-> now, queued |-> FALSE]
  <2>1. /\ pc' \in [Run -> Place]
        /\ pc'[r] = "enqueue" /\ \A q \in Run \ {r} : pc'[q] = pc[q]
    BY <1>6, GoesDoes
  <2>2. mine \in Claim /\ mine # NoClaim
    <3>1. mine.by = <<r, at[r]>> /\ <<r, at[r]>> # <<>> /\ now \in 0..MaxTime
      BY <1>1 DEF TypeOK
    <3>2. mine # NoClaim
      BY <3>1, ClaimIs
    <3> QED
      BY <1>2, <3>1, <3>2 DEF Claim
  <2>3. /\ claim' \in [Message -> Claim] /\ claim'[M(r)] = mine
        /\ \A m \in Message : m # M(r) => claim'[m] = claim[m]
    BY <1>1, <1>2, <1>6, <2>2 DEF TypeOK, Set
  <2>4. TypeOK'
    BY <1>1, <1>3, <1>6, <2>1, <2>3 DEF TypeOK, options, report
  <2>5. Alone(r)
    BY <1>3, <1>6, <2>1 DEF Alone, options, report
  <2>6. M(r)' = M(r) /\ ~claim'[M(r)].queued
    BY <1>6, <2>3 DEF M
  <2>7. Walks(r)'
    BY <1>1, <1>2, <1>3, <1>6, <2>1, <2>6 DEF Walks, Walking, Picked, Spent, options, report
  <2>8. \A q \in Run \ {r} : Walks(q)'
    BY <1>3, <2>3, <2>5, OthersWalk
  <2>9. told' = told
    BY <1>6 DEF report
  <2>10. ASSUME NEW m \in Message PROVE Counted(m)'
    <3>1. CASE m # M(r)
      BY <1>3, <1>6, <2>3, <2>5, <2>9, <3>1, OtherMessages
    <3>2. CASE m = M(r)
      <4>1. /\ Cardinality(Group({"enqueue"}, m)) \in Nat
            /\ Cardinality(Group({"enqueue"}, m))' = Cardinality(Group({"enqueue"}, m)) - 0 + 1
            /\ Cardinality(Group({"mark"}, m)) \in Nat
            /\ Cardinality(Group({"mark"}, m))' = Cardinality(Group({"mark"}, m)) - 0 + 0
            /\ Cardinality(Group({"mark", "record"}, m)) \in Nat
            /\ Cardinality(Group({"mark", "record"}, m))' =
                  Cardinality(Group({"mark", "record"}, m)) - (0 + 0) + (0 + 0)
        BY <1>1, <1>6, <2>1, <2>5, <3>2, OwnMessage
      <4>2. taken[m] \in Nat /\ copies[m] \in Nat
        BY <1>1 DEF TypeOK
      <4>3. /\ claim[m] = NoClaim /\ ~claim[m].queued
            /\ claim'[m] # NoClaim /\ ~claim'[m].queued
        BY <1>6, <2>2, <2>3, <3>2, ClaimIs
      <4> QED
        BY <1>2, <1>3, <2>9, <3>2, <4>1, <4>2, <4>3 DEF Counted, One
    <3> QED
      BY <3>1, <3>2
  <2> QED
    BY <1>6, <2>4, <2>7, <2>8, <2>10 DEF IInv, report
<1> QED
  BY <1>4, <1>5, <1>6 DEF Insert

-----------------------------------------------------------------------------
(* The queue write *)

(* A run that is at its copy is not one of a project that is disabled. *)
LEMMA EnqueueKeeps ==
    ASSUME IInv, NEW r \in Run, Enqueue(r)
    PROVE  IInv'
<1>1. TypeOK /\ Walks(r) /\ pc[r] = "enqueue" /\ ~Spent(r) /\ r \notin dry /\ setup # "disabled"
  BY DEF IInv, Enqueue, Walks, Picked, Walking
<1>2. M(r) \in Message /\ Counted(M(r)) /\ at[r] \in Row
  BY <1>1, MessageIs DEF Walking, Picked, IInv
<1>3. UNCHANGED <<now, claim, joined, sent, taken, at, tries, seen, report, options, done>>
  BY DEF Enqueue
<1>4. /\ copies' \in [Message -> Nat] /\ copies'[M(r)] = copies[M(r)] + 1
      /\ \A m \in Message : m # M(r) => copies'[m] = copies[m]
  BY <1>1, <1>2 DEF Enqueue, Arrives, Set, TypeOK
<1>5. ASSUME NEW m \in Message PROVE copies[m] \in Nat /\ (copies[m] > 0 => copies'[m] > 0)
  <2>1. copies[m] \in Nat
    BY <1>1 DEF TypeOK
  <2> QED
    BY <1>4, <2>1
<1>6. /\ pc' \in [Run -> Place]
      /\ pc'[r] = "mark" /\ \A q \in Run \ {r} : pc'[q] = pc[q]
  BY GoesDoes DEF Enqueue
<1>7. TypeOK'
  BY <1>1, <1>3, <1>4, <1>6 DEF TypeOK, options, report
<1>8. Alone(r)
  BY <1>3, <1>6 DEF Alone, options, report
<1>9. M(r)' = M(r) /\ (Kept(r)' <=> Kept(r)) /\ copies'[M(r)] > 0
  BY <1>2, <1>3, <1>4, <1>5 DEF M, Kept
<1>10. Walks(r)'
  BY <1>1, <1>3, <1>6, <1>9 DEF Walks, Walking, Picked, Spent, options, report
<1>11. \A q \in Run \ {r} : Walks(q)'
  BY <1>3, <1>5, <1>8, OthersWalk
<1>12. told' = told
  BY <1>3 DEF report
<1>13. ASSUME NEW m \in Message PROVE Counted(m)'
  <2>1. CASE m # M(r)
    BY <1>3, <1>4, <1>8, <1>12, <2>1, OtherMessages
  <2>2. CASE m = M(r)
    <3>1. /\ Cardinality(Group({"enqueue"}, m)) \in Nat
          /\ Cardinality(Group({"enqueue"}, m))' = Cardinality(Group({"enqueue"}, m)) - 1 + 0
          /\ Cardinality(Group({"mark"}, m)) \in Nat
          /\ Cardinality(Group({"mark"}, m))' = Cardinality(Group({"mark"}, m)) - 0 + 1
          /\ Cardinality(Group({"mark", "record"}, m)) \in Nat
          /\ Cardinality(Group({"mark", "record"}, m))' =
                Cardinality(Group({"mark", "record"}, m)) - (0 + 0) + (1 + 0)
      BY <1>1, <1>3, <1>6, <1>8, <2>2, OwnMessage
    <3>2. /\ taken[m] \in Nat /\ joined[m] \in Nat /\ copies[m] \in Nat /\ copies'[m] = copies[m] + 1
          /\ claim'[m] = claim[m] /\ taken'[m] = taken[m] /\ joined'[m] = joined[m]
      BY <1>1, <1>3, <1>4, <2>2 DEF TypeOK
    <3>3. copies'[m] + Cardinality(Group({"enqueue"}, m))' <= taken[m] + One(claim[m] # NoClaim)
      BY <1>2, <2>2, <3>1, <3>2 DEF Counted, One
    <3>4. \/ <<m, "twice">> \in told
          \/ copies'[m] <= Cardinality(Group({"mark"}, m))' + One(claim[m].queued)
      BY <1>2, <2>2, <3>1, <3>2 DEF Counted, One
    <3>5. \/ <<m, "hole">> \in told
          \/ copies'[m] <= Cardinality(Group({"mark", "record"}, m))' + joined[m]
      BY <1>2, <2>2, <3>1, <3>2 DEF Counted
    <3>6. copies'[m] > 0
      BY <3>2
    <3> QED
      BY <1>12, <3>2, <3>3, <3>4, <3>5, <3>6 DEF Counted
  <2> QED
    BY <2>1, <2>2
<1> QED
  BY <1>3, <1>7, <1>10, <1>11, <1>13 DEF IInv, report

(* A write that raised may have made its copy; both are told of it. *)
LEMMA EnqueueRaisesKeeps ==
    ASSUME IInv, NEW r \in Run, EnqueueRaises(r)
    PROVE  IInv'
<1>1. TypeOK /\ Walks(r) /\ pc[r] = "enqueue" /\ ~Spent(r) /\ pc[r] \in Walking
  BY DEF IInv, EnqueueRaises, Walks, Picked, Walking
<1>2. M(r) \in Message /\ Counted(M(r)) /\ at[r] \in Row
  BY <1>1, MessageIs DEF IInv
<1>3. /\ Says(r, "raised") /\ told' = told \cup ({M(r)} \X {"twice", "hole"})
      /\ UNCHANGED <<now, claim, joined, sent, taken, would, options, done>>
  BY DEF EnqueueRaises, Stands
<1>4. Alone(r) /\ Walks(r)' /\ ~lied'
  BY <1>1, <1>3, SaysKeeps DEF True
<1>5. /\ pc' \in [Run -> Place]
      /\ at' \in [Run -> 0..Len(Endings) + 1] /\ tries' \in [Run -> 0..Attempts]
      /\ seen' \in [Run -> Claim]
      /\ {replayed', went'} \subseteq [Run -> 0..Len(Endings)] /\ lied' \in BOOLEAN
      /\ pc'[r] \in {"window", "row"}
  BY <1>1, <1>3, SaysDoes
<1>6. /\ copies' \in [Message -> Nat] /\ copies'[M(r)] \in {copies[M(r)], copies[M(r)] + 1}
      /\ \A m \in Message : m # M(r) => copies'[m] = copies[m]
  <2>1. copies \in [Message -> Nat] /\ copies[M(r)] \in Nat
    BY <1>1, <1>2 DEF TypeOK
  <2>2. PICK n \in {copies[M(r)], copies[M(r)] + 1} : copies' = [copies EXCEPT ![M(r)] = n] \/ copies' = copies
    BY DEF EnqueueRaises, Arrives, Set
  <2> QED
    BY <1>2, <2>1, <2>2
<1>7. ASSUME NEW m \in Message PROVE copies[m] \in Nat /\ (copies[m] > 0 => copies'[m] > 0)
  <2>1. copies[m] \in Nat
    BY <1>1 DEF TypeOK
  <2> QED
    BY <1>6, <2>1
<1>8. told' \subseteq Message \X {"twice", "hole"}
  BY <1>1, <1>2, <1>3 DEF TypeOK
<1>9. TypeOK'
  BY <1>1, <1>3, <1>5, <1>6, <1>8 DEF TypeOK, options
<1>10. \A q \in Run \ {r} : Walks(q)'
  BY <1>3, <1>4, <1>7, OthersWalk
<1>11. ASSUME NEW m \in Message PROVE Counted(m)'
  <2>1. CASE m # M(r)
    <3>1. told \subseteq told'
      BY <1>3
    <3> QED
      BY <1>3, <1>4, <1>5, <1>6, <2>1, <3>1, OtherMessages
  <2>2. CASE m = M(r)
    <3>1. /\ Cardinality(Group({"enqueue"}, m)) \in Nat
          /\ Cardinality(Group({"enqueue"}, m))' = Cardinality(Group({"enqueue"}, m)) - 1 + 0
      <4>1. /\ pc'[r] \in {"window", "row", "dead"}
            /\ pc'[r] # "enqueue" /\ pc'[r] # "mark" /\ pc'[r] # "record"
            /\ pc[r] = "enqueue" /\ pc[r] # "mark" /\ pc[r] # "record"
        BY <1>1, <1>5
      <4> QED
        BY <1>4, <2>2, <4>1, OwnMessage
    <3>2. /\ taken[m] \in Nat /\ copies[m] \in Nat /\ copies'[m] \in {copies[m], copies[m] + 1}
          /\ claim'[m] = claim[m] /\ taken'[m] = taken[m]
      BY <1>1, <1>3, <1>6, <2>2 DEF TypeOK
    <3>3. copies'[m] + Cardinality(Group({"enqueue"}, m))' <= taken[m] + One(claim[m] # NoClaim)
      BY <1>2, <2>2, <3>1, <3>2 DEF Counted, One
    <3>4. <<m, "twice">> \in told' /\ <<m, "hole">> \in told'
      BY <1>3, <2>2
    <3>5. claim[m].queued => copies'[m] > 0
      BY <1>2, <1>7, <2>2 DEF Counted
    <3> QED
      BY <3>2, <3>3, <3>4, <3>5 DEF Counted
  <2> QED
    BY <2>1, <2>2
<1> QED
  BY <1>4, <1>9, <1>10, <1>11 DEF IInv

(* A claim that is still this run's is marked; one that is not is told of. *)
LEMMA MarkQueuedKeeps ==
    ASSUME IInv, NEW r \in Run, MarkQueued(r)
    PROVE  IInv'
<1>1. TypeOK /\ Walks(r) /\ pc[r] = "mark" /\ ~Spent(r) /\ r \notin dry /\ copies[M(r)] > 0
  BY DEF IInv, MarkQueued, Walks, Picked
<1>2. M(r) \in Message /\ Counted(M(r)) /\ at[r] \in Row
  BY <1>1, MessageIs DEF Walking, Picked, IInv
<1>3. UNCHANGED <<now, copies, joined, sent, taken, at, tries, seen, would, replayed, went, lied, options, done>>
  BY DEF MarkQueued
<1>4. /\ claim' \in [Message -> Claim]
      /\ \A m \in Message : m # M(r) => claim'[m] = claim[m]
      /\ claim'[M(r)] = IF Kept(r) THEN [claim[M(r)] EXCEPT !.queued = TRUE] ELSE claim[M(r)]
  <2>1. claim[M(r)] \in Claim /\ [claim[M(r)] EXCEPT !.queued = TRUE] \in Claim
    <3>1. claim[M(r)] \in Claim
      BY <1>1, <1>2 DEF TypeOK
    <3> QED
      BY <3>1, MarkedIs
  <2> QED
    BY <1>1, <1>2, <2>1 DEF MarkQueued, TypeOK
<1>5. Kept(r) => claim'[M(r)].by = <<r, at[r]>> /\ claim'[M(r)].queued
  <2>1. claim[M(r)] \in Claim
    BY <1>1, <1>2 DEF TypeOK
  <2> QED
    BY <1>4, <2>1, MarkedIs DEF Kept
<1>6. /\ pc' \in [Run -> Place]
      /\ pc'[r] = "record" /\ \A q \in Run \ {r} : pc'[q] = pc[q]
  BY GoesDoes DEF MarkQueued
<1>7. /\ told' \subseteq Message \X {"twice", "hole"} /\ told \subseteq told'
      /\ ~Kept(r) => <<M(r), "twice">> \in told'
  BY <1>1, <1>2 DEF MarkQueued, Warns, TypeOK
<1>8. TypeOK'
  BY <1>1, <1>3, <1>4, <1>6, <1>7 DEF TypeOK, options
<1>9. Alone(r)
  BY <1>3, <1>6 DEF Alone, options
<1>10. M(r)' = M(r)
  BY <1>3 DEF M
<1>11. Walks(r)'
  BY <1>1, <1>3, <1>6, <1>10 DEF Walks, Walking, Picked, Spent, options
<1>12. \A m \in Message : claim'[m] = claim[m] \/ claim'[m].by \in {<<>>, <<r, at[r]>>}
  BY <1>4, <1>5
<1>13. \A q \in Run \ {r} : Walks(q)'
  BY <1>3, <1>9, <1>12, OthersWalk
<1>14. ASSUME NEW m \in Message PROVE Counted(m)'
  <2>1. CASE m # M(r)
    BY <1>3, <1>4, <1>7, <1>9, <2>1, OtherMessages
  <2>2. CASE m = M(r)
    <3>1. /\ Cardinality(Group({"enqueue"}, m)) \in Nat
          /\ Cardinality(Group({"enqueue"}, m))' = Cardinality(Group({"enqueue"}, m)) - 0 + 0
          /\ Cardinality(Group({"mark"}, m)) \in Nat
          /\ Cardinality(Group({"mark"}, m))' = Cardinality(Group({"mark"}, m)) - 1 + 0
          /\ Cardinality(Group({"mark", "record"}, m)) \in Nat
          /\ Cardinality(Group({"mark", "record"}, m))' =
                Cardinality(Group({"mark", "record"}, m)) - (1 + 0) + (0 + 1)
      BY <1>1, <1>3, <1>6, <1>9, <2>2, OwnMessage
    <3>2. /\ taken[m] \in Nat /\ joined[m] \in Nat /\ copies[m] \in Nat /\ copies[m] > 0
          /\ copies'[m] = copies[m] /\ taken'[m] = taken[m] /\ joined'[m] = joined[m]
      BY <1>1, <1>3, <2>2 DEF TypeOK
    <3>3. copies[m] + Cardinality(Group({"enqueue"}, m))' <= taken[m] + One(claim'[m] # NoClaim)
      <4>1. claim[m] # NoClaim => claim'[m] # NoClaim
        <5>1. Kept(r) => claim'[m] # NoClaim
          BY <1>5, <2>2, ClaimIs
        <5> QED
          BY <1>4, <2>2, <5>1
      <4> QED
        BY <1>2, <2>2, <3>1, <3>2, <4>1 DEF Counted, One
    <3>4. \/ <<m, "twice">> \in told'
          \/ copies[m] <= Cardinality(Group({"mark"}, m))' + One(claim'[m].queued)
      <4>1. CASE ~Kept(r)
        BY <1>7, <2>2, <4>1
      <4>2. CASE Kept(r)
        <5>1. ~claim[m].queued /\ claim'[m].queued
          BY <1>1, <1>5, <2>2, <4>2 DEF Walks
        <5> QED
          BY <1>2, <1>7, <2>2, <3>1, <3>2, <5>1 DEF Counted, One
      <4> QED
        BY <4>1, <4>2
    <3>5. \/ <<m, "hole">> \in told'
          \/ copies[m] <= Cardinality(Group({"mark", "record"}, m))' + joined[m]
      BY <1>2, <1>7, <2>2, <3>1, <3>2 DEF Counted
    <3> QED
      BY <3>2, <3>3, <3>4, <3>5 DEF Counted
  <2> QED
    BY <2>1, <2>2
<1> QED
  BY <1>3, <1>8, <1>11, <1>13, <1>14 DEF IInv

(* The row that joins a copy to its failure lands, or the hole is told of. *)
LEMMA RecordReplayKeeps ==
    ASSUME IInv, NEW r \in Run, NEW lands \in BOOLEAN, RecordReplay(r, lands)
    PROVE  IInv'
<1>1. TypeOK /\ Walks(r) /\ pc[r] = "record" /\ ~Spent(r) /\ pc[r] \in Walking /\ copies[M(r)] > 0
  BY DEF IInv, RecordReplay, Walks, Picked, Walking
<1>2. M(r) \in Message /\ Counted(M(r)) /\ at[r] \in Row
  BY <1>1, MessageIs DEF IInv
<1>3. /\ Says(r, "replayed")
      /\ UNCHANGED <<now, claim, copies, sent, taken, would, options, done>>
  BY DEF RecordReplay
<1>4. Alone(r) /\ Walks(r)' /\ ~lied'
  BY <1>1, <1>3, SaysKeeps DEF True
<1>5. /\ pc' \in [Run -> Place]
      /\ at' \in [Run -> 0..Len(Endings) + 1] /\ tries' \in [Run -> 0..Attempts]
      /\ seen' \in [Run -> Claim]
      /\ {replayed', went'} \subseteq [Run -> 0..Len(Endings)] /\ lied' \in BOOLEAN
      /\ pc'[r] \in {"window", "row"}
  BY <1>1, <1>3, SaysDoes
<1>6. /\ joined' \in [Message -> Nat]
      /\ \A m \in Message : m # M(r) => joined'[m] = joined[m]
      /\ joined'[M(r)] = IF lands THEN joined[M(r)] + 1 ELSE joined[M(r)]
  BY <1>1, <1>2 DEF RecordReplay, Set, TypeOK
<1>7. /\ told' \subseteq Message \X {"twice", "hole"} /\ told \subseteq told'
      /\ ~lands => <<M(r), "hole">> \in told'
  BY <1>1, <1>2 DEF RecordReplay, TypeOK
<1>8. TypeOK'
  BY <1>1, <1>3, <1>5, <1>6, <1>7 DEF TypeOK, options
<1>9. \A q \in Run \ {r} : Walks(q)'
  BY <1>3, <1>4, OthersWalk
<1>10. ASSUME NEW m \in Message PROVE Counted(m)'
  <2>1. CASE m # M(r)
    BY <1>3, <1>4, <1>5, <1>6, <1>7, <2>1, OtherMessages
  <2>2. CASE m = M(r)
    <3>1. /\ Cardinality(Group({"enqueue"}, m)) \in Nat
          /\ Cardinality(Group({"enqueue"}, m))' = Cardinality(Group({"enqueue"}, m)) - 0 + 0
          /\ Cardinality(Group({"mark"}, m)) \in Nat
          /\ Cardinality(Group({"mark"}, m))' = Cardinality(Group({"mark"}, m)) - 0 + 0
          /\ Cardinality(Group({"mark", "record"}, m)) \in Nat
          /\ Cardinality(Group({"mark", "record"}, m))' =
                Cardinality(Group({"mark", "record"}, m)) - (0 + 1) + (0 + 0)
      <4>1. /\ pc'[r] \in {"window", "row", "dead"}
            /\ pc'[r] # "enqueue" /\ pc'[r] # "mark" /\ pc'[r] # "record"
            /\ pc[r] # "enqueue" /\ pc[r] # "mark" /\ pc[r] = "record"
        BY <1>1, <1>5
      <4> QED
        BY <1>4, <2>2, <4>1, OwnMessage
    <3>2. /\ joined[m] \in Nat /\ copies[m] \in Nat
          /\ copies'[m] = copies[m] /\ taken'[m] = taken[m] /\ claim'[m] = claim[m]
      BY <1>1, <1>3, <2>2 DEF TypeOK
    <3>3. \/ <<m, "hole">> \in told'
          \/ copies[m] <= Cardinality(Group({"mark", "record"}, m))' + joined'[m]
      BY <1>2, <1>6, <1>7, <2>2, <3>1, <3>2 DEF Counted
    <3>4. \/ <<m, "twice">> \in told'
          \/ copies[m] <= Cardinality(Group({"mark"}, m))' + One(claim[m].queued)
      BY <1>2, <1>7, <2>2, <3>1 DEF Counted
    <3>5. copies[m] + Cardinality(Group({"enqueue"}, m))' <= taken[m] + One(claim[m] # NoClaim)
      BY <1>2, <2>2, <3>1 DEF Counted
    <3> QED
      BY <1>2, <2>2, <3>2, <3>3, <3>4, <3>5 DEF Counted
  <2> QED
    BY <2>1, <2>2
<1> QED
  BY <1>4, <1>8, <1>9, <1>10 DEF IInv

-----------------------------------------------------------------------------
(* The steps that are nobody's plan *)

(* A run that is killed with a copy made and not recorded leaves what it   *)
(* had not told to be so.                                                  *)
LEMMA KilledKeeps ==
    ASSUME IInv, NEW r \in Run, Killed(r)
    PROVE  IInv'
<1>1. TypeOK /\ Walks(r)
  BY DEF IInv
<1>2. UNCHANGED <<now, claim, copies, joined, sent, taken, setup, unargued, dry, started, lied>>
  BY DEF Killed, world, options
<1>3. /\ pc' \in [Run -> Place]
      /\ pc'[r] = "dead" /\ \A q \in Run \ {r} : pc'[q] = pc[q]
  BY GoesDoes DEF Killed
<1>4. /\ at' \in [Run -> 0..Len(Endings) + 1] /\ tries' \in [Run -> 0..Attempts] /\ seen' \in [Run -> Claim]
      /\ done' \in [Run -> SUBSET Message] /\ would' \in [Run -> SUBSET Message]
      /\ replayed' \in [Run -> 0..Len(Endings)] /\ went' \in [Run -> 0..Len(Endings)]
      /\ done'[r] = {} /\ replayed'[r] = 0 /\ went'[r] = 0
      /\ \A q \in Run \ {r} : /\ at'[q] = at[q] /\ replayed'[q] = replayed[q] /\ went'[q] = went[q]
                              /\ done'[q] = done[q]
  BY <1>1, ClaimIs DEF Killed, Set, TypeOK
<1>5. /\ told' \subseteq Message \X {"twice", "hole"} /\ told \subseteq told'
      /\ pc[r] \in {"mark", "record"} => <<M(r), "twice">> \in told' /\ <<M(r), "hole">> \in told'
  <2>1. pc[r] \in {"mark", "record"} => M(r) \in Message
    BY MessageIs DEF Walking, Picked
  <2> QED
    BY <1>1, <2>1 DEF Killed, TypeOK
<1>6. TypeOK'
  BY <1>1, <1>2, <1>3, <1>4, <1>5 DEF TypeOK
<1>7. Alone(r)
  BY <1>2, <1>3, <1>4 DEF Alone
<1>8. Walks(r)'
  BY <1>3, <1>4 DEF Walks, Walking, Picked
<1>9. \A q \in Run \ {r} : Walks(q)'
  BY <1>2, <1>7, OthersWalk
<1>10. ASSUME NEW m \in Message PROVE Counted(m)'
  <2>1. CASE m # M(r)
    BY <1>2, <1>3, <1>5, <1>7, <2>1, OtherMessages
  <2>2. CASE m = M(r)
    <3>1. PICK e \in {0, 1}, k \in {0, 1}, d \in {0, 1} :
             (pc[r] = "enqueue" <=> e = 1) /\ (pc[r] = "mark" <=> k = 1) /\ (pc[r] = "record" <=> d = 1)
      OBVIOUS
    <3>2. /\ Cardinality(Group({"enqueue"}, m)) \in Nat
          /\ Cardinality(Group({"enqueue"}, m))' = Cardinality(Group({"enqueue"}, m)) - e + 0
          /\ Cardinality(Group({"mark"}, m)) \in Nat
          /\ Cardinality(Group({"mark"}, m))' = Cardinality(Group({"mark"}, m)) - k + 0
          /\ Cardinality(Group({"mark", "record"}, m)) \in Nat
          /\ Cardinality(Group({"mark", "record"}, m))' =
                Cardinality(Group({"mark", "record"}, m)) - (k + d) + (0 + 0)
      BY <1>3, <1>7, <2>2, <3>1, OwnMessage
    <3>3. k + d > 0 => <<m, "twice">> \in told' /\ <<m, "hole">> \in told'
      BY <1>5, <2>2, <3>1
    <3>4. Counted(m) /\ taken[m] \in Nat /\ copies[m] \in Nat /\ joined[m] \in Nat
      BY <1>1 DEF IInv, TypeOK
    <3>5. copies[m] + Cardinality(Group({"enqueue"}, m))' <= taken[m] + One(claim[m] # NoClaim)
      <4>1. One(claim[m] # NoClaim) \in Nat
        BY DEF One
      <4>2. copies[m] + Cardinality(Group({"enqueue"}, m)) <= taken[m] + One(claim[m] # NoClaim)
        BY <3>4 DEF Counted
      <4>3. Cardinality(Group({"enqueue"}, m))' <= Cardinality(Group({"enqueue"}, m))
            /\ Cardinality(Group({"enqueue"}, m))' \in Int
        BY <3>2
      <4>4. ASSUME NEW a \in Nat, NEW b \in Nat, NEW c \in Int, NEW x \in Nat, NEW y \in Nat,
                   a + b <= x + y, c <= b
            PROVE  a + c <= x + y
        BY <4>4
      <4>5. copies[m] \in Nat /\ taken[m] \in Nat /\ Cardinality(Group({"enqueue"}, m)) \in Nat
        BY <3>2, <3>4
      <4> QED
        BY <4>1, <4>2, <4>3, <4>4, <4>5
    <3>6. CASE k + d > 0
      BY <1>2, <3>3, <3>4, <3>5, <3>6 DEF Counted
    <3>7. CASE k = 0 /\ d = 0
      <4>1. /\ Cardinality(Group({"mark"}, m))' = Cardinality(Group({"mark"}, m))
            /\ Cardinality(Group({"mark", "record"}, m))' = Cardinality(Group({"mark", "record"}, m))
        BY <3>2, <3>7
      <4>2. /\ <<m, "twice">> \in told' \/ copies[m] <= Cardinality(Group({"mark"}, m))' + One(claim[m].queued)
            /\ <<m, "hole">> \in told' \/ copies[m] <= Cardinality(Group({"mark", "record"}, m))' + joined[m]
        BY <1>5, <3>4, <4>1 DEF Counted
      <4> QED
        BY <1>2, <3>4, <3>5, <4>2 DEF Counted
    <3> QED
      BY <3>6, <3>7
  <2> QED
    BY <2>1, <2>2
<1> QED
  BY <1>2, <1>6, <1>8, <1>9, <1>10 DEF IInv

(* A message may be delivered after all, and time passes. *)
LEMMA WorldKeeps ==
    ASSUME IInv, UNCHANGED <<claim, copies, joined, taken, walk, report, options, done>>,
           now' \in 0..MaxTime, sent \subseteq sent', sent' \subseteq Message
    PROVE  IInv'
<1> USE DEF walk, report, options
<1>1. TypeOK'
  BY DEF IInv, TypeOK
<1>2. ASSUME NEW r \in Run PROVE Walks(r)'
  BY DEF IInv, Walks, M, Spent, Kept
<1>3. ASSUME NEW m \in Message PROVE Counted(m)'
  <2>1. ASSUME NEW states PROVE Group(states, m)' = Group(states, m)
    BY DEF Group, M
  <2> QED
    BY <2>1 DEF IInv, Counted
<1> QED
  BY <1>1, <1>2, <1>3 DEF IInv

-----------------------------------------------------------------------------
(* The theorems *)

(* The invariant holds at first. *)
LEMMA InvInit == Init => IInv
<1> SUFFICES ASSUME Init PROVE IInv
  OBVIOUS
<1>1. TypeOK
  <2>1. now \in 0..MaxTime /\ claim \in [Message -> Claim] /\ seen \in [Run -> Claim]
    BY ClaimIs DEF Init
  <2>2. {copies, joined, taken} \subseteq [Message -> Nat] /\ sent \subseteq Message
    BY DEF Init
  <2>3. pc \in [Run -> Place]
    BY DEF Init
  <2>4. started \in [Run -> 0..MaxTime] /\ tries \in [Run -> 0..Attempts]
    BY DEF Init
  <2>5. at \in [Run -> 0..Len(Endings) + 1] /\ {replayed, went} \subseteq [Run -> 0..Len(Endings)]
    BY DEF Init
  <2>6. {done, would} \subseteq [Run -> SUBSET Message]
    BY DEF Init
  <2> QED
    BY <2>1, <2>2, <2>3, <2>4, <2>5, <2>6 DEF Init, TypeOK
<1>2. ASSUME NEW r \in Run PROVE Walks(r)
  BY DEF Init, Walks, Walking, Picked
<1>3. ASSUME NEW m \in Message PROVE Counted(m)
  <2>1. /\ Cardinality(Group({"enqueue"}, m)) \in Nat
        /\ ~(Cardinality(Group({"enqueue"}, m)) > 0)
        /\ Cardinality(Group({"mark"}, m)) \in Nat
        /\ Cardinality(Group({"mark", "record"}, m)) \in Nat
    BY CountNone DEF Init
  <2> QED
    BY <2>1, ClaimIs DEF Init, Counted, One
<1> QED
  BY <1>1, <1>2, <1>3 DEF Init, IInv

(* No step breaks it. *)
LEMMA InvNext == IInv /\ [Next]_vars => IInv'
<1> SUFFICES ASSUME IInv, [Next]_vars PROVE IInv'
  OBVIOUS
<1>1. ASSUME NEW r \in Run, Step(r) PROVE IInv'
  BY <1>1, BeginKeeps, WindowKeeps, PassOverKeeps, LookKeeps, LookDryKeeps, TakeOverKeeps, InsertKeeps,
     EnqueueKeeps, EnqueueRaisesKeeps, MarkQueuedKeeps, RecordReplayKeeps DEF Step
<1>2. ASSUME NEW r \in Run, Killed(r) PROVE IInv'
  BY <1>2, KilledKeeps
<1>3. ASSUME NEW m \in Message, DeliveredLate(m) PROVE IInv'
  <2>1. /\ UNCHANGED <<now, claim, copies, joined, taken, walk, report, options, done>>
        /\ sent \subseteq sent' /\ sent' \subseteq Message /\ now' \in 0..MaxTime
    BY <1>3 DEF DeliveredLate, IInv, TypeOK
  <2> QED
    BY <2>1, WorldKeeps
<1>4. CASE Tick
  <2>1. /\ UNCHANGED <<claim, copies, joined, taken, walk, report, options, done>>
        /\ sent \subseteq sent' /\ sent' \subseteq Message /\ now' \in 0..MaxTime
    BY <1>4 DEF Tick, IInv, TypeOK
  <2> QED
    BY <2>1, WorldKeeps
<1>5. CASE UNCHANGED vars
  <2>1. /\ UNCHANGED <<claim, copies, joined, taken, walk, report, options, done>>
        /\ sent \subseteq sent' /\ sent' \subseteq Message /\ now' \in 0..MaxTime
    BY <1>5 DEF vars, world, IInv, TypeOK
  <2> QED
    BY <2>1, WorldKeeps
<1> QED
  BY <1>1, <1>2, <1>3, <1>4, <1>5 DEF Next

(* Type correctness.  In particular no run walks past its selection, tries *)
(* a claim more often than CLAIM_ATTEMPTS, or counts more than it met.     *)
THEOREM TypeCorrect == Spec => []TypeOK
<1>1. IInv => TypeOK
  BY DEF IInv
<1> QED
  BY <1>1, InvInit, InvNext, PTL DEF Spec

(* One failure gets one replacement, but for a claim that was taken over   *)
(* (_claim, _take_over): each copy was made under a claim, the one that is *)
(* there or one that was taken over.                                       *)
THEOREM ReplacedOnce == Spec => []OneReplacement
<1>1. IInv => OneReplacement
  <2> SUFFICES ASSUME IInv, NEW m \in Message PROVE copies[m] <= 1 + taken[m]
    BY DEF OneReplacement
  <2>1. Counted(m) /\ copies[m] \in Nat /\ taken[m] \in Nat
    BY DEF IInv, TypeOK
  <2>2. Cardinality(Group({"enqueue"}, m)) \in Nat
    BY CountNone
  <2> QED
    BY <2>1, <2>2 DEF Counted, One
<1> QED
  BY <1>1, InvInit, InvNext, PTL DEF Spec

(* What the command reports is so, and what went wrong beside is told      *)
(* (_report, _mark_queued, _record): a copy is marked on its claim, about  *)
(* to be, or told of, and so is the row that joins it to its failure.      *)
THEOREM ReportIsTrue == Spec => []ReportTells
<1>1. IInv => ReportTells
  <2> SUFFICES ASSUME IInv PROVE ReportTells
    OBVIOUS
  <2>1. ASSUME NEW r \in Run, pc[r] = "over" PROVE at[r] > Len(Endings) \/ went[r] = Limit
    BY <2>1 DEF IInv, Walks
  <2>2. ASSUME NEW m \in Message, copies[m] > 1 PROVE <<m, "twice">> \in told \/ At(m, {"mark"})
    <3>1. Counted(m) /\ copies[m] \in Nat
      BY DEF IInv, TypeOK
    <3>2. /\ Cardinality(Group({"mark"}, m)) \in Nat
          /\ Cardinality(Group({"mark"}, m)) > 0 => At(m, {"mark"})
      BY CountNone DEF At
    <3> QED
      BY <2>2, <3>1, <3>2 DEF Counted, One
  <2>3. ASSUME NEW m \in Message, copies[m] > joined[m]
        PROVE  <<m, "hole">> \in told \/ At(m, {"mark", "record"})
    <3>1. Counted(m) /\ copies[m] \in Nat /\ joined[m] \in Nat
      BY DEF IInv, TypeOK
    <3>2. /\ Cardinality(Group({"mark", "record"}, m)) \in Nat
          /\ Cardinality(Group({"mark", "record"}, m)) > 0 => At(m, {"mark", "record"})
      BY CountNone DEF At
    <3> QED
      BY <2>3, <3>1, <3>2 DEF Counted
  <2> QED
    BY <2>1, <2>2, <2>3 DEF IInv, ReportTells
<1> QED
  BY <1>1, InvInit, InvNext, PTL DEF Spec

(* A claim whose message reached the queue is never removed or changed: of *)
(* the steps that write a claim, the delete finds it marked, the insert    *)
(* finds it there, and marking it again marks it no differently.           *)
THEOREM FinishedClaimStands == Spec => FinishedStands
<1>1. TypeOK /\ [Next]_vars => [\A m \in Message : claim[m].queued => claim'[m] = claim[m]]_vars
  <2> SUFFICES ASSUME TypeOK, Next, NEW m \in Message, claim[m].queued PROVE claim'[m] = claim[m]
    OBVIOUS
  <2>1. claim \in [Message -> Claim] /\ claim[m] \in Claim
    BY DEF TypeOK
  <2>2. CASE UNCHANGED claim
    BY <2>2
  <2>3. ASSUME NEW r \in Run, TakeOver(r) PROVE claim'[m] = claim[m]
    BY <2>1, <2>3 DEF TakeOver, StillOpen, Set
  <2>4. ASSUME NEW r \in Run, Insert(r) PROVE claim'[m] = claim[m]
    BY <2>1, <2>4, ClaimIs DEF Insert, Set
  <2>5. ASSUME NEW r \in Run, MarkQueued(r) PROVE claim'[m] = claim[m]
    <3>1. claim' = claim \/ claim' = [claim EXCEPT ![M(r)] = [claim[M(r)] EXCEPT !.queued = TRUE]]
      BY <2>1, <2>5 DEF MarkQueued
    <3>2. [claim[m] EXCEPT !.queued = TRUE] = claim[m]
      BY <2>1 DEF Claim
    <3> QED
      BY <2>1, <3>1, <3>2
  <2>6. ASSUME NEW r \in Run, Killed(r) \/ Step(r) PROVE claim'[m] = claim[m]
    BY <2>2, <2>3, <2>4, <2>5, <2>6 DEF Step, Killed, Begin, ReadWindow, PassOver, Refuse, BoundSpent, Look,
       LookDry, Enqueue, EnqueueRaises, Stands, RecordReplay, world
  <2> QED
    BY <2>2, <2>6 DEF Next, DeliveredLate, Tick
<1>2. IInv => TypeOK
  BY DEF IInv
<1> QED
  BY <1>1, <1>2, InvInit, InvNext, PTL DEF Spec, FinishedStands
=============================================================================
