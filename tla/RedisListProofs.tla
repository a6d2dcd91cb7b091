--------------------------- MODULE RedisListProofs ---------------------------
(***************************************************************************)
(* That the Redis list transport keeps each message in one place, in its   *)
(* order, and keeps the transport's contract: for every number of workers, *)
(* messages and faults, and whatever the management commands do beside     *)
(* them.                                                                   *)
(***************************************************************************)
EXTENDS RedisList, SequenceTheorems, FiniteSetTheorems, TLAPS

USE RedisAssumption

-----------------------------------------------------------------------------
(* Sequences *)

Distinct(s) == \A i, j \in DOMAIN s : s[i] = s[j] => i = j
Increasing(s) == \A i, j \in DOMAIN s : i < j => s[i] < s[j]
Below(s, t) == \A x \in Entries(s), y \in Entries(t) : x < y

LEMMA EntriesType == ASSUME NEW S, NEW s \in Seq(S) PROVE Entries(s) \subseteq S
  BY DEF Entries

LEMMA NoEntries == Entries(<<>>) = {} /\ Distinct(<<>>) /\ Increasing(<<>>)
  BY DEF Entries, Distinct, Increasing

LEMMA OneEntry ==
    ASSUME NEW S, NEW e \in S
    PROVE  <<e>> \in Seq(S) /\ Entries(<<e>>) = {e} /\ Distinct(<<e>>) /\ Increasing(<<e>>)
<1>1. <<e>> \in Seq(S) /\ DOMAIN <<e>> = {1} /\ <<e>>[1] = e
  OBVIOUS
<1> QED
  BY <1>1 DEF Entries, Distinct, Increasing

(* Two lists, one after the other. *)
LEMMA ConcatFacts ==
    ASSUME NEW S \in SUBSET Int, NEW a \in Seq(S), NEW b \in Seq(S)
    PROVE  /\ a \o b \in Seq(S) /\ Entries(a \o b) = Entries(a) \cup Entries(b)
           /\ Distinct(a) /\ Distinct(b) /\ Entries(a) \cap Entries(b) = {} => Distinct(a \o b)
           /\ Increasing(a \o b) <=> Increasing(a) /\ Increasing(b) /\ Below(a, b)
<1> DEFINE c == a \o b
           k == Len(a)
           l == Len(b)
<1>1. /\ c \in Seq(S) /\ k \in Nat /\ l \in Nat /\ DOMAIN a = 1..k /\ DOMAIN b = 1..l /\ DOMAIN c = 1..(k + l)
      /\ \A i \in 1..(k + l) : c[i] = IF i <= k THEN a[i] ELSE b[i - k]
      /\ (\A i \in 1..k : a[i] \in S) /\ (\A i \in 1..l : b[i] \in S)
  <2>1. c \in Seq(S) /\ k \in Nat /\ l \in Nat /\ DOMAIN a = 1..k /\ DOMAIN b = 1..l /\ Len(c) = k + l
    BY ConcatProperties
  <2>2. \A i \in 1..(k + l) : c[i] = IF i <= k THEN a[i] ELSE b[i - k]
    BY ConcatProperties
  <2> QED
    BY <2>1, <2>2
<1> HIDE DEF c, k, l
<1>2. \A i \in 1..k : i \in 1..(k + l) /\ c[i] = a[i]
  BY <1>1
<1>3. \A i \in 1..l : k + i \in 1..(k + l) /\ c[k + i] = b[i]
  BY <1>1
<1>4. \A i \in 1..(k + l) : (i \in 1..k /\ c[i] = a[i]) \/ (i - k \in 1..l /\ c[i] = b[i - k])
  BY <1>1
<1>5. Entries(c) = Entries(a) \cup Entries(b)
  <2>1. Entries(c) \subseteq Entries(a) \cup Entries(b)
    BY <1>1, <1>4 DEF Entries
  <2>2. ASSUME NEW e \in Entries(a) PROVE e \in Entries(c)
    <3>1. PICK i \in 1..k : e = a[i]
      BY <1>1 DEF Entries
    <3> QED
      BY <1>1, <1>2, <3>1 DEF Entries
  <2>3. ASSUME NEW e \in Entries(b) PROVE e \in Entries(c)
    <3>1. PICK i \in 1..l : e = b[i]
      BY <1>1 DEF Entries
    <3>2. k + i \in 1..(k + l) /\ c[k + i] = e
      BY <1>3, <3>1
    <3> QED
      BY <1>1, <3>2 DEF Entries
  <2> QED
    BY <2>1, <2>2, <2>3
<1>6. ASSUME Distinct(a), Distinct(b), Entries(a) \cap Entries(b) = {} PROVE Distinct(c)
  <2>1. ASSUME NEW i \in 1..(k + l), NEW j \in 1..(k + l), c[i] = c[j] PROVE i = j
    <3>1. CASE i \in 1..k /\ c[i] = a[i] /\ j \in 1..k /\ c[j] = a[j]
      BY <1>1, <1>6, <2>1, <3>1 DEF Distinct
    <3>2. CASE i - k \in 1..l /\ c[i] = b[i - k] /\ j - k \in 1..l /\ c[j] = b[j - k]
      <4>1. i - k = j - k
        BY <1>1, <1>6, <2>1, <3>2 DEF Distinct
      <4> QED
        BY <1>1, <4>1
    <3>3. CASE i \in 1..k /\ c[i] = a[i] /\ j - k \in 1..l /\ c[j] = b[j - k]
      <4>1. c[i] \in Entries(a) /\ c[j] \in Entries(b)
        BY <1>1, <3>3 DEF Entries
      <4> QED
        BY <1>6, <2>1, <4>1
    <3>4. CASE i - k \in 1..l /\ c[i] = b[i - k] /\ j \in 1..k /\ c[j] = a[j]
      <4>1. c[j] \in Entries(a) /\ c[i] \in Entries(b)
        BY <1>1, <3>4 DEF Entries
      <4> QED
        BY <1>6, <2>1, <4>1
    <3> QED
      BY <1>4, <3>1, <3>2, <3>3, <3>4
  <2> QED
    BY <1>1, <2>1 DEF Distinct
<1>7. ASSUME Increasing(c) PROVE Increasing(a) /\ Increasing(b) /\ Below(a, b)
  <2>1. Increasing(a)
    BY <1>1, <1>2, <1>7 DEF Increasing
  <2>2. Increasing(b)
    <3> SUFFICES ASSUME NEW i \in 1..l, NEW j \in 1..l, i < j PROVE b[i] < b[j]
      BY <1>1 DEF Increasing
    <3>1. k + i < k + j /\ k + i \in 1..(k + l) /\ k + j \in 1..(k + l)
      BY <1>1
    <3>2. c[k + i] < c[k + j]
      BY <1>1, <1>7, <3>1 DEF Increasing
    <3> QED
      BY <1>3, <3>2
  <2>3. Below(a, b)
    <3> SUFFICES ASSUME NEW x \in Entries(a), NEW y \in Entries(b) PROVE x < y
      BY DEF Below
    <3>1. PICK i \in 1..k : x = a[i]
      BY <1>1 DEF Entries
    <3>2. PICK j \in 1..l : y = b[j]
      BY <1>1 DEF Entries
    <3>3. i \in 1..(k + l) /\ k + j \in 1..(k + l) /\ i < k + j
      BY <1>1
    <3>4. c[i] < c[k + j]
      BY <1>1, <1>7, <3>3 DEF Increasing
    <3> QED
      BY <1>2, <1>3, <3>1, <3>2, <3>4
  <2> QED
    BY <2>1, <2>2, <2>3
<1>8. ASSUME Increasing(a), Increasing(b), Below(a, b) PROVE Increasing(c)
  <2> SUFFICES ASSUME NEW i \in 1..(k + l), NEW j \in 1..(k + l), i < j PROVE c[i] < c[j]
    BY <1>1 DEF Increasing
  <2>1. CASE i \in 1..k /\ c[i] = a[i] /\ j \in 1..k /\ c[j] = a[j]
    BY <1>1, <1>8, <2>1 DEF Increasing
  <2>2. CASE i - k \in 1..l /\ c[i] = b[i - k] /\ j - k \in 1..l /\ c[j] = b[j - k]
    <3>1. i - k < j - k
      BY <1>1
    <3> QED
      BY <1>1, <1>8, <2>2, <3>1 DEF Increasing
  <2>3. CASE i \in 1..k /\ c[i] = a[i] /\ j - k \in 1..l /\ c[j] = b[j - k]
    <3>1. c[i] \in Entries(a) /\ c[j] \in Entries(b)
      BY <1>1, <2>3 DEF Entries
    <3> QED
      BY <1>8, <3>1 DEF Below
  <2>4. CASE i - k \in 1..l /\ j \in 1..k
    BY <1>1, <2>4
  <2> QED
    BY <1>4, <2>1, <2>2, <2>3, <2>4
<1> QED
  BY <1>1, <1>5, <1>6, <1>7, <1>8 DEF c

(* The first entry is taken. *)
LEMMA TailFacts ==
    ASSUME NEW S \in SUBSET Int, NEW s \in Seq(S), s # <<>>
    PROVE  /\ Head(s) \in S /\ Tail(s) \in Seq(S) /\ Entries(s) = {Head(s)} \cup Entries(Tail(s))
           /\ s = <<Head(s)>> \o Tail(s)
           /\ Distinct(s) => Distinct(Tail(s)) /\ Head(s) \notin Entries(Tail(s))
           /\ Increasing(s) => Increasing(Tail(s)) /\ \A x \in Entries(Tail(s)) : Head(s) < x
<1>1. Head(s) \in S /\ Tail(s) \in Seq(S) /\ Len(s) \in Nat \ {0} /\ DOMAIN s = 1..Len(s) /\ Head(s) = s[1]
      /\ Len(Tail(s)) = Len(s) - 1 /\ DOMAIN Tail(s) = 1..(Len(s) - 1)
      /\ \A i \in 1..(Len(s) - 1) : Tail(s)[i] = s[i + 1]
  <2>1. Head(s) \in S /\ Tail(s) \in Seq(S)
    BY HeadTailProperties
  <2>2. Len(s) \in Nat \ {0} /\ DOMAIN s = 1..Len(s) /\ Head(s) = s[1]
    BY EmptySeq
  <2>3. Len(Tail(s)) = Len(s) - 1 /\ \A i \in 1..Len(Tail(s)) : Tail(s)[i] = s[i + 1]
    BY HeadTailProperties
  <2> QED
    BY <2>1, <2>2, <2>3
<1>2. <<Head(s)>> \in Seq(S) /\ Entries(<<Head(s)>>) = {Head(s)}
  BY <1>1, OneEntry
<1>3. s = <<Head(s)>> \o Tail(s)
  BY <1>1
<1>4. /\ Entries(s) = {Head(s)} \cup Entries(Tail(s))
      /\ Increasing(s) => Increasing(Tail(s)) /\ Below(<<Head(s)>>, Tail(s))
  <2> DEFINE a == <<Head(s)>>
             t == Tail(s)
  <2>1. a \in Seq(S) /\ t \in Seq(S) /\ s = a \o t /\ Entries(a) = {Head(s)}
    BY <1>1, <1>2, <1>3
  <2> HIDE DEF a, t
  <2>2. Entries(a \o t) = Entries(a) \cup Entries(t) /\ (Increasing(a \o t) => Increasing(t) /\ Below(a, t))
    BY <2>1, ConcatFacts
  <2>3. Entries(s) = {Head(s)} \cup Entries(t) /\ (Increasing(s) => Increasing(t) /\ Below(a, t))
    BY <2>1, <2>2
  <2> QED
    BY <2>3 DEF a, t
<1>5. Increasing(s) => \A x \in Entries(Tail(s)) : Head(s) < x
  BY <1>2, <1>4 DEF Below
<1>6. ASSUME Distinct(s) PROVE Distinct(Tail(s)) /\ Head(s) \notin Entries(Tail(s))
  <2> DEFINE t == Tail(s)
             k == Len(s) - 1
  <2>1. k \in Nat /\ DOMAIN t = 1..k /\ \A i \in 1..k : t[i] = s[i + 1] /\ i + 1 \in DOMAIN s /\ i + 1 # 1
    BY <1>1
  <2>2. 1 \in DOMAIN s /\ Head(s) = s[1]
    BY <1>1
  <2> HIDE DEF t, k
  <2>3. ASSUME NEW i \in 1..k, NEW j \in 1..k, t[i] = t[j] PROVE i = j
    <3>1. i + 1 = j + 1
      BY <1>6, <2>1, <2>3 DEF Distinct
    <3> QED
      BY <3>1
  <2>4. \A i \in 1..k : t[i] # Head(s)
    BY <1>6, <2>1, <2>2 DEF Distinct
  <2>5. Distinct(t) /\ Head(s) \notin Entries(t)
    BY <2>1, <2>3, <2>4 DEF Distinct, Entries
  <2> QED
    BY <2>5 DEF t
<1> QED
  BY <1>1, <1>3, <1>4, <1>5, <1>6

(* The last entry is taken. *)
LEMMA FrontFacts ==
    ASSUME NEW S \in SUBSET Int, NEW s \in Seq(S), s # <<>>
    PROVE  /\ Last(s) \in S /\ Front(s) \in Seq(S) /\ Entries(s) = Entries(Front(s)) \cup {Last(s)}
           /\ Distinct(s) => Distinct(Front(s)) /\ Last(s) \notin Entries(Front(s))
           /\ Increasing(s) => Increasing(Front(s)) /\ \A x \in Entries(Front(s)) : x < Last(s)
<1> DEFINE k == Len(s)
           f == Front(s)
           l == Last(s)
<1>1. k \in Nat \ {0} /\ DOMAIN s = 1..k /\ l = s[k] /\ k \in 1..k /\ l \in S
  BY EmptySeq DEF Last
<1>2. f \in Seq(S) /\ DOMAIN f = 1..(k - 1) /\ \A i \in 1..(k - 1) : f[i] = s[i]
  <2>1. f = [i \in 1..(k - 1) |-> s[i]]
    <3>1. f = SubSeq(s, 1, k - 1)
      BY DEF Front
    <3>2. 1 \in 1..k + 1 /\ k - 1 \in (1 - 1)..k
      BY <1>1
    <3>3. Len(f) = k - 1 /\ f \in Seq(S) /\ \A i \in 1..(k - 1) : f[i] = s[i]
      BY <1>1, <3>1, <3>2, SubSeqProperties
    <3> QED
      BY <3>3
  <2>2. \A i \in 1..(k - 1) : s[i] \in S
    BY <1>1
  <2>3. k - 1 \in Nat
    BY <1>1
  <2>4. f \in Seq(S)
    BY <2>1, <2>2, <2>3, IsASeq
  <2> QED
    BY <2>1, <2>4
<1> HIDE DEF k, f, l
<1>3. \A i \in 1..(k - 1) : i \in 1..k /\ i < k
  BY <1>1
<1>4. \A i \in 1..k : i = k \/ i \in 1..(k - 1)
  BY <1>1
<1>5. Entries(s) = Entries(f) \cup {l}
  <2>1. Entries(s) \subseteq Entries(f) \cup {l}
    BY <1>1, <1>2, <1>4 DEF Entries
  <2>2. Entries(f) \subseteq Entries(s) /\ l \in Entries(s)
    BY <1>1, <1>2, <1>3 DEF Entries
  <2> QED
    BY <2>1, <2>2
<1>6. Distinct(s) => Distinct(f) /\ l \notin Entries(f)
  BY <1>1, <1>2, <1>3 DEF Distinct, Entries
<1>7. Increasing(s) => Increasing(f) /\ \A x \in Entries(f) : x < l
  BY <1>1, <1>2, <1>3 DEF Increasing, Entries
<1> QED
  BY <1>1, <1>2, <1>5, <1>6, <1>7 DEF f, l

(* An entry of a list that holds it once is removed. *)
LEMMA WithoutFacts ==
    ASSUME NEW S \in SUBSET Int, NEW s \in Seq(S), NEW m \in S, Distinct(s)
    PROVE  /\ Without(s, m) \in Seq(S) /\ Entries(Without(s, m)) = Entries(s) \ {m}
           /\ Distinct(Without(s, m)) /\ (Increasing(s) => Increasing(Without(s, m)))
<1>1. CASE m \notin Entries(s)
  BY <1>1 DEF Without
<1>2. CASE m \in Entries(s)
  <2> DEFINE k == Len(s)
             P(n) == s[n] = m /\ \A j \in 1..(n - 1) : s[j] # m
             i == CHOOSE n \in DOMAIN s : P(n)
             t == [j \in 1..(k - 1) |-> IF j < i THEN s[j] ELSE s[j + 1]]
  <2>1. k \in Nat /\ DOMAIN s = 1..k /\ \A j \in 1..k : s[j] \in S
    OBVIOUS
  <2>2. PICK n \in 1..k : s[n] = m
    BY <1>2, <2>1 DEF Entries
  <2>3. \A j \in 1..(n - 1) : s[j] # m
    <3>1. \A j \in 1..(n - 1) : j \in 1..k /\ j # n
      BY <2>1
    <3> QED
      BY <2>1, <2>2, <3>1 DEF Distinct
  <2>4. i \in DOMAIN s /\ P(i)
    <3>1. n \in DOMAIN s /\ P(n)
      BY <2>1, <2>2, <2>3
    <3> QED
      BY <3>1
  <2>5. Without(s, m) = t
    BY <1>2 DEF Without
  <2> HIDE DEF i
  <2>6. i \in 1..k /\ s[i] = m /\ k - 1 \in Nat
    BY <2>1, <2>4
  <2>7. \A j \in 1..(k - 1) : j \in 1..k /\ j + 1 \in 1..k /\ (j < i => j # i) /\ (~(j < i) => j + 1 # i)
    BY <2>1, <2>6
  <2>8. t \in Seq(S)
    <3>1. \A j \in 1..(k - 1) : (IF j < i THEN s[j] ELSE s[j + 1]) \in S
      BY <2>1, <2>7
    <3> QED
      BY <2>6, <3>1, IsASeq
  <2> DEFINE g(j) == IF j < i THEN j ELSE j + 1
  <2>9. \A j \in 1..(k - 1) : t[j] = s[g(j)] /\ g(j) \in 1..k /\ g(j) # i
    BY <2>7
  <2>10. \A j, l \in 1..(k - 1) : (g(j) = g(l) => j = l) /\ (j < l => g(j) < g(l))
    BY <2>6
  <2>11. \A h \in 1..k : h # i => \E j \in 1..(k - 1) : g(j) = h
    <3> SUFFICES ASSUME NEW h \in 1..k, h # i PROVE \E j \in 1..(k - 1) : g(j) = h
      OBVIOUS
    <3>1. CASE h < i
      <4>1. h \in 1..(k - 1) /\ g(h) = h
        BY <2>1, <2>6, <3>1
      <4> QED
        BY <4>1
    <3>2. CASE h > i
      <4>1. h - 1 \in 1..(k - 1) /\ g(h - 1) = h
        BY <2>1, <2>6, <3>2
      <4> QED
        BY <4>1
    <3> QED
      BY <2>6, <3>1, <3>2
  <2>12. DOMAIN t = 1..(k - 1)
    OBVIOUS
  <2> HIDE DEF g, t, k
  <2>13. Entries(t) = Entries(s) \ {m}
    <3>1. ASSUME NEW e \in Entries(t) PROVE e \in Entries(s) /\ e # m
      <4>1. PICK j \in 1..(k - 1) : e = t[j]
        BY <2>12 DEF Entries
      <4>2. e = s[g(j)] /\ g(j) \in 1..k /\ g(j) # i
        BY <2>9, <4>1
      <4> QED
        BY <2>1, <2>6, <4>2 DEF Entries, Distinct
    <3>2. ASSUME NEW e \in Entries(s), e # m PROVE e \in Entries(t)
      <4>1. PICK h \in 1..k : e = s[h]
        BY <2>1 DEF Entries
      <4>2. h # i
        BY <2>6, <3>2, <4>1
      <4>3. PICK j \in 1..(k - 1) : g(j) = h
        BY <2>11, <4>2
      <4> QED
        BY <2>9, <2>12, <4>1, <4>3 DEF Entries
    <3> QED
      BY <3>1, <3>2
  <2>14. Distinct(t)
    <3> SUFFICES ASSUME NEW j \in 1..(k - 1), NEW l \in 1..(k - 1), t[j] = t[l] PROVE j = l
      BY <2>12 DEF Distinct
    <3>1. g(j) = g(l)
      BY <2>1, <2>9 DEF Distinct
    <3> QED
      BY <2>10, <3>1
  <2>15. ASSUME Increasing(s) PROVE Increasing(t)
    <3> SUFFICES ASSUME NEW j \in 1..(k - 1), NEW l \in 1..(k - 1), j < l PROVE t[j] < t[l]
      BY <2>12 DEF Increasing
    <3>1. g(j) < g(l)
      BY <2>10
    <3> QED
      BY <2>1, <2>9, <2>15, <3>1 DEF Increasing
  <2> QED
    BY <2>5, <2>8, <2>13, <2>14, <2>15
<1> QED
  BY <1>1, <1>2

(* A chunk that is published. *)
LEMMA ChunkFacts ==
    ASSUME NEW p \in Nat, NEW k \in 1..2, p + k <= Messages,
           NEW c, c = [i \in 1..k |-> p + i]
    PROVE  /\ c \in Seq(Msg) /\ Entries(c) = (p + 1)..(p + k) /\ Distinct(c) /\ Increasing(c)
<1>1. k \in Nat /\ \A i \in 1..k : p + i \in Msg
  BY DEF Msg
<1>2. c \in Seq(Msg) /\ DOMAIN c = 1..k
  BY <1>1, IsASeq
<1>3. \A i \in 1..k : c[i] = p + i
  OBVIOUS
<1>4. ASSUME NEW e \in (p + 1)..(p + k) PROVE e \in Entries(c)
  <2>1. e - p \in 1..k /\ p + (e - p) = e
    OBVIOUS
  <2> QED
    BY <1>2, <1>3, <2>1 DEF Entries
<1>5. Entries(c) \subseteq (p + 1)..(p + k)
  BY <1>2, <1>3 DEF Entries
<1>6. Distinct(c) /\ Increasing(c)
  BY <1>2, <1>3 DEF Distinct, Increasing
<1> QED
  BY <1>2, <1>4, <1>5, <1>6

-----------------------------------------------------------------------------
(* Types *)

LEMMA MsgIsInt == Msg \in SUBSET Int /\ \A m \in Msg : m \in Nat /\ m >= 1
  BY DEF Msg

LEMMA TypeInit == Init => TypeOK
<1> SUFFICES ASSUME Init PROVE TypeOK
  OBVIOUS
<1>1. <<>> \in Seq(Msg) /\ None \in [Msg -> Nat]
  BY DEF None
<1> QED
  BY <1>1 DEF Init, TypeOK, Labels, Policies

(* Moving a message back to the queue keeps the lists lists of messages. *)
LEMMA MoveBackType ==
    ASSUME TypeOK, NEW w \in Worker, MoveBack(w)
    PROVE  queue' \in Seq(Msg) /\ inflight' \in [Worker -> Seq(Msg)]
<1>1. inflight[w] \in Seq(Msg) /\ inflight[w] # <<>>
  BY DEF TypeOK, MoveBack
<1>2. Last(inflight[w]) \in Msg /\ Front(inflight[w]) \in Seq(Msg)
  BY <1>1, MsgIsInt, FrontFacts
<1>3. <<Last(inflight[w])>> \o queue \in Seq(Msg)
  BY <1>2 DEF TypeOK
<1> QED
  BY <1>2, <1>3 DEF MoveBack, TypeOK

(* The count of a send that began, or is over. *)
LEMMA CountType ==
    ASSUME NEW f \in [Worker -> [Msg -> Nat]], NEW w \in Worker, NEW m \in Msg
    PROVE  /\ [f EXCEPT ![w][m] = @ + 1] \in [Worker -> [Msg -> Nat]]
           /\ f[w][m] > 0 => [f EXCEPT ![w][m] = @ - 1] \in [Worker -> [Msg -> Nat]]
           /\ \A v \in Worker : \A n \in Msg :
                 /\ [f EXCEPT ![w][m] = @ + 1][v][n] > 0 => f[v][n] > 0 \/ n = m
                 /\ f[w][m] > 0 => ([f EXCEPT ![w][m] = @ - 1][v][n] > 0 => f[v][n] > 0)
  OBVIOUS

LEMMA TypeNext == TypeOK /\ [Next]_vars => TypeOK'
<1> SUFFICES ASSUME TypeOK, [Next]_vars PROVE TypeOK'
  OBVIOUS
<1> USE DEF lists, worker, history, prune, tools
<1>1. ASSUME Publish PROVE TypeOK'
  <2>1. PICK k \in 1..2 : /\ published + k <= Messages /\ published' = published + k
                          /\ queue' = queue \o [i \in 1..k |-> published + i]
    BY <1>1 DEF Publish
  <2>2. published \in Nat /\ queue \in Seq(Msg)
    BY DEF TypeOK
  <2> DEFINE c == [i \in 1..k |-> published + i]
  <2>3. c \in Seq(Msg)
    BY <2>1, <2>2, ChunkFacts
  <2> HIDE DEF c
  <2>4. queue \o c \in Seq(Msg)
    BY <2>2, <2>3
  <2>5. queue' \in Seq(Msg) /\ published' \in 0..Messages
    BY <2>1, <2>2, <2>4 DEF c
  <2> QED
    BY <1>1, <2>5 DEF Publish, TypeOK
<1>2. ASSUME NEW w \in Worker, ReclaimOne(w) PROVE TypeOK'
  BY <1>2, MoveBackType DEF ReclaimOne, TypeOK
<1>3. ASSUME HandMoves PROVE TypeOK'
  <2>1. byHand \in Worker /\ MoveBack(byHand)
    BY <1>3 DEF HandMoves, TypeOK
  <2> QED
    BY <1>3, <2>1, MoveBackType DEF HandMoves, TypeOK
<1>4. ASSUME NEW w \in Worker, Start(w) \/ Stop(w) \/ Crash(w) PROVE TypeOK'
  <2>1. None \in [Msg -> Nat]
    BY DEF None
  <2>2. CASE Start(w)
    BY <2>2 DEF Start, Goto, TypeOK, Labels
  <2>3. CASE Stop(w)
    BY <2>1, <2>3 DEF Stop, Ends, Goto, TypeOK, Labels
  <2>4. CASE Crash(w)
    <3>1. faults' \in 0..MaxFaults
      BY <2>4 DEF Crash, Fault, TypeOK
    <3> QED
      BY <2>1, <2>4, <3>1 DEF Crash, Ends, Goto, TypeOK, Labels
  <2> QED
    BY <1>4, <2>2, <2>3, <2>4
<1>5. ASSUME NEW w \in Worker, ReclaimEnds(w) \/ ReclaimDowngrades(w) \/ ReclaimFails(w) PROVE TypeOK'
  <2>1. ASSUME AfterReclaim(w) PROVE pc' \in [Worker -> Labels]
    BY <2>1 DEF AfterReclaim, Goto, TypeOK, Labels
  <2>2. CASE ReclaimEnds(w)
    BY <2>1, <2>2 DEF ReclaimEnds, TypeOK
  <2>3. CASE ReclaimDowngrades(w)
    BY <2>1, <2>3 DEF ReclaimDowngrades, TypeOK
  <2>4. CASE ReclaimFails(w)
    <3>1. faults' \in 0..MaxFaults
      BY <2>4 DEF ReclaimFails, Fault, TypeOK
    <3> QED
      BY <2>1, <2>4, <3>1 DEF ReclaimFails, TypeOK
  <2> QED
    BY <1>5, <2>2, <2>3, <2>4
<1>6. ASSUME NEW w \in Worker, Turn(w) \/ TakeDowngrades(w) \/ TakeNothing(w) PROVE TypeOK'
  BY <1>6 DEF Turn, TakeDowngrades, TakeNothing, Goto, At, TypeOK, Labels
<1>7. ASSUME NEW w \in Worker, NEW m \in Msg, Ack(w, m) PROVE TypeOK'
  <2>1. finished' \in [Worker -> [Msg -> Nat]]
    BY <1>7, CountType DEF Ack, TypeOK
  <2>2. inflight' \in [Worker -> Seq(Msg)]
    <3>1. inflight' = inflight \/ inflight' = [inflight EXCEPT ![w] = Without(@, m)]
      BY <1>7 DEF Ack
    <3>2. Without(inflight[w], m) \in Seq(Msg)
      <4>1. inflight[w] \in Seq(Msg)
        BY DEF TypeOK
      <4> DEFINE s == inflight[w]
                 i == CHOOSE k \in DOMAIN s : s[k] = m /\ \A j \in 1..(k - 1) : s[j] # m
                 t == [j \in 1..(Len(s) - 1) |-> IF j < i THEN s[j] ELSE s[j + 1]]
      <4>2. CASE m \notin Entries(s)
        BY <4>1, <4>2 DEF Without
      <4>3. CASE m \in Entries(s)
        <5>1. Without(s, m) = t
          BY <4>3 DEF Without
        <5> HIDE DEF i
        <5>2. Len(s) \in Nat \ {0} /\ \A j \in 1..Len(s) : s[j] \in Msg
          <6>1. s # <<>>
            BY <4>3, NoEntries
          <6> QED
            BY <4>1, <6>1, EmptySeq
        <5>3. \A j \in 1..(Len(s) - 1) : j \in 1..Len(s) /\ j + 1 \in 1..Len(s)
          BY <5>2
        <5>4. \A j \in 1..(Len(s) - 1) : (IF j < i THEN s[j] ELSE s[j + 1]) \in Msg
          BY <5>2, <5>3
        <5>5. t \in Seq(Msg)
          <6>1. Len(s) - 1 \in Nat
            BY <5>2
          <6> QED
            BY <5>4, <6>1, IsASeq
        <5> QED
          BY <5>1, <5>5
      <4> QED
        BY <4>2, <4>3
    <3> QED
      BY <3>1, <3>2 DEF TypeOK
  <2>3. settled' \subseteq Msg /\ faults' \in 0..MaxFaults
    BY <1>7 DEF Ack, Fault, TypeOK
  <2> QED
    BY <1>7, <2>1, <2>2, <2>3 DEF Ack, TypeOK
<1>8. ASSUME NEW w \in Worker, TakeMoves(w) \/ TakePops(w) PROVE TypeOK'
  <2> DEFINE m == Head(queue)
  <2>1. m \in Msg /\ Tail(queue) \in Seq(Msg)
    BY <1>8, MsgIsInt, TailFacts DEF TakeMoves, TakePops, TypeOK
  <2> HIDE DEF m
  <2>2. sends' \in [Worker -> [Msg -> Nat]] /\ faults' \in 0..MaxFaults
    <3>1. (sends' = [sends EXCEPT ![w][m] = @ + 1] /\ faults' = faults) \/ (sends' = sends /\ Fault)
      BY <1>8 DEF TakeMoves, TakePops, m
    <3>2. sends \in [Worker -> [Msg -> Nat]]
      BY DEF TypeOK
    <3>3. [sends EXCEPT ![w][m] = @ + 1] \in [Worker -> [Msg -> Nat]]
      BY <2>1, <3>2, CountType
    <3>4. faults' \in 0..MaxFaults
      BY <3>1 DEF TypeOK, Fault
    <3> QED
      BY <3>1, <3>2, <3>3, <3>4
  <2>3. inflight' \in [Worker -> Seq(Msg)]
    <3>1. inflight' = inflight \/ inflight' = [inflight EXCEPT ![w] = Append(@, m)]
      BY <1>8 DEF TakeMoves, TakePops, m
    <3>2. Append(inflight[w], m) \in Seq(Msg)
      BY <2>1 DEF TypeOK
    <3> QED
      BY <3>1, <3>2 DEF TypeOK
  <2>4. popped' \subseteq Msg
    BY <1>8, <2>1 DEF TakeMoves, TakePops, TypeOK, m
  <2> QED
    BY <1>8, <2>1, <2>2, <2>3, <2>4 DEF TakeMoves, TakePops, Goto, TypeOK, Labels
<1>9. ASSUME NEW w \in Worker, NEW m \in Msg, Complete(w, m) PROVE TypeOK'
  <2>1. sends' \in [Worker -> [Msg -> Nat]] /\ finished' \in [Worker -> [Msg -> Nat]]
    <3>1. sends \in [Worker -> [Msg -> Nat]] /\ finished \in [Worker -> [Msg -> Nat]]
      BY DEF TypeOK
    <3>2. sends[w][m] > 0 /\ sends' = [sends EXCEPT ![w][m] = @ - 1]
          /\ (finished' = [finished EXCEPT ![w][m] = @ + 1] \/ finished' = finished)
      BY <1>9 DEF Complete
    <3>3. [sends EXCEPT ![w][m] = @ - 1] \in [Worker -> [Msg -> Nat]]
      BY <3>1, <3>2, CountType
    <3>4. [finished EXCEPT ![w][m] = @ + 1] \in [Worker -> [Msg -> Nat]]
      BY <3>1, CountType
    <3> QED
      BY <3>1, <3>2, <3>3, <3>4
  <2>2. answered' \subseteq Msg
    BY <1>9 DEF Complete, TypeOK
  <2> QED
    BY <1>9, <2>1, <2>2 DEF Complete, TypeOK
<1>10. ASSUME Failover PROVE TypeOK'
  BY <1>10 DEF Failover, Fault, TypeOK
<1>11. ASSUME NEW w \in Worker, HandStarts(w) PROVE TypeOK'
  BY <1>11 DEF HandStarts, TypeOK
<1>12. ASSUME HandEnds \/ PruneLists \/ Named \/ PruneLocks \/ DiscardScans \/ DiscardHolds PROVE TypeOK'
  BY <1>12 DEF HandEnds, PruneLists, Named, PruneLocks, DiscardScans, DiscardHolds, TypeOK
<1>13. ASSUME DiscardDeletes PROVE TypeOK'
  <2>1. Entries(queue) \subseteq Msg /\ \A w \in Worker : Entries(inflight[w]) \subseteq Msg
    BY EntriesType DEF TypeOK
  <2>2. UNION {Entries(inflight[w]) : w \in scan} \subseteq Msg
    BY <2>1 DEF TypeOK
  <2>3. <<>> \in Seq(Msg)
    OBVIOUS
  <2>4. inflight' \in [Worker -> Seq(Msg)] /\ queue' \in Seq(Msg)
    BY <1>13, <2>3 DEF DiscardDeletes, TypeOK
  <2>5. dropped' \subseteq Msg
    BY <1>13, <2>1, <2>2 DEF DiscardDeletes, TypeOK
  <2> QED
    BY <1>13, <2>4, <2>5 DEF DiscardDeletes, TypeOK
<1>14. ASSUME UNCHANGED vars PROVE TypeOK'
  BY <1>14 DEF vars, TypeOK
<1> QED
  BY <1>1, <1>2, <1>3, <1>4, <1>5, <1>6, <1>7, <1>8, <1>9, <1>10, <1>11, <1>12, <1>13, <1>14 DEF Next

(* Every list, count and set of the model stays of its type. *)
THEOREM TypeCorrect == Spec => []TypeOK
<1> QED
  BY TypeInit, TypeNext, PTL DEF Spec


-----------------------------------------------------------------------------
(* Where messages are *)

Ended == settled \cup popped \cup dropped
Listed(m) == m \in Entries(queue) \/ \E w \in Worker : m \in Entries(inflight[w])

(* No message is in two lists, or twice in one; the lists hold what was     *)
(* published and did not end; a worker holds nothing before it took         *)
(* something; and what a discard deleted was neither popped nor settled.    *)
Single ==
    /\ Distinct(queue) /\ \A w \in Worker : Distinct(inflight[w])
    /\ \A w \in Worker : Entries(queue) \cap Entries(inflight[w]) = {}
    /\ \A v, w \in Worker : v # w => Entries(inflight[v]) \cap Entries(inflight[w]) = {}
Kept == \A m \in Msg : Listed(m) <=> m <= published /\ m \notin Ended
Gone == (\A m \in Ended : m <= published) /\ dropped \cap (settled \cup popped) = {}
Taken == \A w \in Worker : inflight[w] # <<>> => w \in takers
PlaceInv == Single /\ Kept /\ Gone /\ Taken

(* Where one worker alone has taken messages, its list and then the queue. *)
OrderInv == \A w \in Worker : takers \subseteq {w} =>
    Increasing(inflight[w]) /\ Increasing(queue) /\ Below(inflight[w], queue)

LEMMA PlaceInit == Init => PlaceInv /\ OrderInv
<1> SUFFICES ASSUME Init PROVE PlaceInv /\ OrderInv
  OBVIOUS
<1>1. /\ Entries(queue) = {} /\ Distinct(queue) /\ Increasing(queue)
      /\ \A w \in Worker : inflight[w] = <<>> /\ Entries(inflight[w]) = {} /\ Distinct(inflight[w])
                           /\ Increasing(inflight[w])
  BY NoEntries DEF Init
<1>2. Single /\ Taken
  BY <1>1 DEF Single, Taken
<1>3. Kept
  <2>1. \A m \in Msg : ~(m <= published)
    BY DEF Init, Msg
  <2> QED
    BY <1>1, <2>1 DEF Kept, Listed
<1>4. Gone
  BY DEF Init, Gone, Ended
<1> QED
  BY <1>1, <1>2, <1>3, <1>4 DEF PlaceInv, OrderInv, Below

(* A message goes back to the head of the queue. *)
LEMMA MoveBackPlace ==
    ASSUME TypeOK, PlaceInv, OrderInv, NEW w \in Worker, MoveBack(w),
           UNCHANGED <<published, settled, popped, dropped, takers>>
    PROVE  PlaceInv' /\ OrderInv'
<1> DEFINE l == Last(inflight[w])
           f == Front(inflight[w])
<1>1. /\ inflight[w] \in Seq(Msg) /\ inflight[w] # <<>> /\ queue \in Seq(Msg)
      /\ queue' = <<l>> \o queue /\ inflight' = [inflight EXCEPT ![w] = f]
      /\ inflight'[w] = f /\ \A v \in Worker : v # w => inflight'[v] = inflight[v]
  BY DEF TypeOK, MoveBack
<1>2. /\ l \in Msg /\ f \in Seq(Msg) /\ Entries(inflight[w]) = Entries(f) \cup {l}
      /\ Distinct(f) /\ l \notin Entries(f)
      /\ Increasing(inflight[w]) => Increasing(f) /\ \A x \in Entries(f) : x < l
  BY <1>1, MsgIsInt, FrontFacts DEF PlaceInv, Single
<1> HIDE DEF l, f
<1>3. <<l>> \in Seq(Msg) /\ Entries(<<l>>) = {l} /\ Distinct(<<l>>) /\ Increasing(<<l>>)
  BY <1>2, OneEntry
<1>4. l \notin Entries(queue) /\ Distinct(queue)
  BY <1>2 DEF PlaceInv, Single
<1>5. /\ Entries(<<l>> \o queue) = {l} \cup Entries(queue) /\ Distinct(<<l>> \o queue)
      /\ Increasing(<<l>> \o queue) <=> Increasing(queue) /\ Below(<<l>>, queue)
  <2> DEFINE a == <<l>>
  <2>1. a \in Seq(Msg) /\ queue \in Seq(Msg) /\ Entries(a) = {l} /\ Distinct(a) /\ Increasing(a) /\ Distinct(queue)
        /\ Entries(a) \cap Entries(queue) = {}
    BY <1>1, <1>3, <1>4
  <2> HIDE DEF a
  <2>2. /\ Entries(a \o queue) = Entries(a) \cup Entries(queue)
        /\ Distinct(a) /\ Distinct(queue) /\ Entries(a) \cap Entries(queue) = {} => Distinct(a \o queue)
        /\ Increasing(a \o queue) <=> Increasing(a) /\ Increasing(queue) /\ Below(a, queue)
    BY <2>1, MsgIsInt, ConcatFacts
  <2>3. /\ Entries(a \o queue) = {l} \cup Entries(queue) /\ Distinct(a \o queue)
        /\ Increasing(a \o queue) <=> Increasing(queue) /\ Below(a, queue)
    BY <2>1, <2>2
  <2> QED
    BY <2>3 DEF a
<1>6. Single'
  <2>1. Distinct(queue') /\ Entries(queue') = {l} \cup Entries(queue)
    BY <1>1, <1>5
  <2>2. \A v \in Worker : Entries(inflight'[v]) \subseteq Entries(inflight[v]) /\ l \notin Entries(inflight'[v])
                          /\ Distinct(inflight'[v])
    BY <1>1, <1>2 DEF PlaceInv, Single
  <2> QED
    BY <2>1, <2>2 DEF Single, PlaceInv
<1>7. Kept'
  <2>1. \A m \in Msg : Listed(m)' <=> Listed(m)
    <3> SUFFICES ASSUME NEW m \in Msg PROVE Listed(m)' <=> Listed(m)
      OBVIOUS
    <3>1. CASE m = l
      <4>1. m \in Entries(queue') /\ m \in Entries(inflight[w])
        BY <1>1, <1>2, <1>5, <3>1
      <4> QED
        BY <4>1 DEF Listed
    <3>2. CASE m # l
      <4>1. (m \in Entries(queue') <=> m \in Entries(queue))
            /\ \A v \in Worker : m \in Entries(inflight'[v]) <=> m \in Entries(inflight[v])
        BY <1>1, <1>2, <1>5, <3>2
      <4> QED
        BY <4>1 DEF Listed
    <3> QED
      BY <3>1, <3>2
  <2> QED
    BY <2>1 DEF Kept, PlaceInv, Ended
<1>8. Taken' /\ Gone'
  BY <1>1 DEF PlaceInv, Taken, Gone, Ended
<1>9. OrderInv'
  <2> SUFFICES ASSUME NEW v \in Worker, takers \subseteq {v}
               PROVE  Increasing(inflight'[v]) /\ Increasing(queue') /\ Below(inflight'[v], queue')
    BY DEF OrderInv
  <2>1. v = w
    BY <1>1 DEF PlaceInv, Taken
  <2>2. Increasing(inflight[w]) /\ Increasing(queue) /\ Below(inflight[w], queue)
    BY <2>1 DEF OrderInv
  <2>3. l \in Entries(inflight[w])
    BY <1>2
  <2>4. Below(<<l>>, queue)
    BY <1>3, <2>2, <2>3 DEF Below
  <2>5. Below(f, <<l>> \o queue)
    BY <1>2, <1>5, <2>2 DEF Below
  <2> QED
    BY <1>1, <1>2, <1>5, <2>1, <2>2, <2>4, <2>5
<1> QED
  BY <1>6, <1>7, <1>8, <1>9 DEF PlaceInv

(* New messages wait behind the others. *)
LEMMA PublishPlace ==
    ASSUME TypeOK, PlaceInv, OrderInv, Publish
    PROVE  PlaceInv' /\ OrderInv'
<1>1. PICK k \in 1..2 : /\ published + k <= Messages /\ published' = published + k
                        /\ queue' = queue \o [i \in 1..k |-> published + i]
  BY DEF Publish
<1> DEFINE c == [i \in 1..k |-> published + i]
<1>2. published \in Nat /\ queue \in Seq(Msg) /\ UNCHANGED <<inflight, settled, popped, dropped, takers>>
  BY DEF Publish, TypeOK, history
<1>3. c \in Seq(Msg) /\ Entries(c) = (published + 1)..(published + k) /\ Distinct(c) /\ Increasing(c)
  BY <1>1, <1>2, ChunkFacts
<1>4. queue' = queue \o c
  BY <1>1
<1> HIDE DEF c
<1>5. \A m \in Msg : Listed(m) => m <= published
  BY DEF PlaceInv, Kept
<1>6. Entries(queue) \subseteq Msg /\ \A w \in Worker : Entries(inflight[w]) \subseteq Msg
  BY EntriesType DEF TypeOK
<1>7. \A e \in Entries(queue) : e <= published
  BY <1>5, <1>6 DEF Listed
<1>8. \A w \in Worker : \A e \in Entries(inflight[w]) : e <= published
  BY <1>5, <1>6 DEF Listed
<1>9. \A e \in Entries(c) : e \in Int /\ e > published /\ ~(e <= published)
  BY <1>2, <1>3
<1>10. Entries(queue) \cap Entries(c) = {} /\ Below(queue, c)
  <2>1. \A e \in Entries(queue) : e \in Int
    BY <1>6, MsgIsInt
  <2> QED
    BY <1>2, <1>7, <1>9, <2>1 DEF Below
<1>11. /\ Entries(queue') = Entries(queue) \cup Entries(c) /\ Distinct(queue')
       /\ Increasing(queue) => Increasing(queue')
  <2>1. Distinct(queue)
    BY DEF PlaceInv, Single
  <2>2. /\ Entries(queue \o c) = Entries(queue) \cup Entries(c)
        /\ Distinct(queue) /\ Distinct(c) /\ Entries(queue) \cap Entries(c) = {} => Distinct(queue \o c)
        /\ Increasing(queue \o c) <=> Increasing(queue) /\ Increasing(c) /\ Below(queue, c)
    BY <1>2, <1>3, MsgIsInt, ConcatFacts
  <2> QED
    BY <1>3, <1>4, <1>10, <2>1, <2>2
<1>12. Single'
  <2>1. \A w \in Worker : Entries(c) \cap Entries(inflight[w]) = {}
    BY <1>8, <1>9
  <2> QED
    BY <1>2, <1>11, <2>1 DEF PlaceInv, Single
<1>13. Gone' /\ Taken'
  <2>1. \A m \in Ended : m \in Nat /\ m <= published
    BY MsgIsInt DEF PlaceInv, Gone, Ended, TypeOK
  <2>2. \A m \in Ended : m <= published'
    BY <1>1, <1>2, <2>1
  <2> QED
    BY <1>2, <2>2 DEF PlaceInv, Gone, Ended, Taken
<1>14. Kept'
  <2> SUFFICES ASSUME NEW m \in Msg PROVE Listed(m)' <=> m <= published' /\ m \notin Ended'
    BY DEF Kept
  <2>1. Listed(m)' <=> Listed(m) \/ m \in Entries(c)
    BY <1>2, <1>11 DEF Listed
  <2>2. m \in Entries(c) <=> m > published /\ m <= published'
    BY <1>1, <1>2, <1>3, MsgIsInt
  <2>3. m <= published => m <= published'
    BY <1>1, <1>2, MsgIsInt
  <2>4. m > published => m \notin Ended
    BY <1>2, MsgIsInt DEF PlaceInv, Gone
  <2>5. m > published <=> ~(m <= published)
    BY <1>2, MsgIsInt
  <2>6. Ended' = Ended
    BY <1>2 DEF Ended
  <2> QED
    BY <2>1, <2>2, <2>3, <2>4, <2>5, <2>6 DEF PlaceInv, Kept
<1>15. OrderInv'
  <2> SUFFICES ASSUME NEW w \in Worker, takers \subseteq {w}
               PROVE  Increasing(inflight[w]) /\ Increasing(queue') /\ Below(inflight[w], queue')
    BY <1>2 DEF OrderInv
  <2>1. Increasing(inflight[w]) /\ Increasing(queue) /\ Below(inflight[w], queue)
    BY DEF OrderInv
  <2>2. \A x \in Entries(inflight[w]) : x \in Int /\ x <= published
    BY <1>6, <1>8, MsgIsInt
  <2>3. Below(inflight[w], c)
    BY <1>2, <1>9, <2>2 DEF Below
  <2> QED
    BY <1>11, <2>1, <2>3 DEF Below
<1> QED
  BY <1>12, <1>13, <1>14, <1>15 DEF PlaceInv


(* An acknowledged message leaves the list of its worker, or is in none. *)
LEMMA AckPlace ==
    ASSUME TypeOK, PlaceInv, OrderInv, NEW w \in Worker, NEW m \in Msg, Ack(w, m)
    PROVE  PlaceInv' /\ OrderInv'
<1>1. UNCHANGED <<published, queue, popped, takers, dropped>>
  BY DEF Ack
<1>2. CASE inflight' = [inflight EXCEPT ![w] = Without(@, m)]
           /\ settled' = IF m \in Entries(inflight[w]) THEN settled \cup {m} ELSE settled
  <2> DEFINE s == Without(inflight[w], m)
  <2>1. inflight[w] \in Seq(Msg) /\ Distinct(inflight[w])
    BY DEF TypeOK, PlaceInv, Single
  <2>2. /\ s \in Seq(Msg) /\ Entries(s) = Entries(inflight[w]) \ {m} /\ Distinct(s)
        /\ Increasing(inflight[w]) => Increasing(s)
    BY <2>1, MsgIsInt, WithoutFacts
  <2>3. inflight'[w] = s /\ \A v \in Worker : v # w => inflight'[v] = inflight[v]
    BY <1>2 DEF TypeOK
  <2> HIDE DEF s
  <2>4. Single'
    <3>1. \A v \in Worker : Entries(inflight'[v]) \subseteq Entries(inflight[v]) /\ Distinct(inflight'[v])
      BY <2>2, <2>3 DEF PlaceInv, Single
    <3> QED
      BY <1>1, <3>1 DEF PlaceInv, Single
  <2>5. Taken'
    <3>1. s # <<>> => inflight[w] # <<>>
      BY <1>2, <2>3, NoEntries DEF Without, s
    <3> QED
      BY <1>1, <2>3, <3>1 DEF PlaceInv, Taken
  <2>6. CASE m \notin Entries(inflight[w])
    <3>1. settled' = settled /\ Entries(inflight'[w]) = Entries(inflight[w])
      BY <1>2, <2>2, <2>3, <2>6
    <3>2. \A n \in Msg : Listed(n)' <=> Listed(n)
      BY <1>1, <2>3, <3>1 DEF Listed
    <3> QED
      BY <1>1, <2>2, <2>3, <2>4, <2>5, <3>1, <3>2 DEF PlaceInv, Kept, Gone, Ended, OrderInv, Below
  <2>7. CASE m \in Entries(inflight[w])
    <3>1. settled' = settled \cup {m} /\ Listed(m) /\ m <= published /\ m \notin Ended
      BY <1>2, <2>7 DEF PlaceInv, Kept, Listed
    <3>2. Gone'
      BY <1>1, <3>1 DEF PlaceInv, Gone, Ended
    <3>3. Ended' = Ended \cup {m}
      BY <1>1, <3>1 DEF Ended
    <3>4. \A n \in Msg : Listed(n)' <=> Listed(n) /\ n # m
      <4> SUFFICES ASSUME NEW n \in Msg PROVE Listed(n)' <=> Listed(n) /\ n # m
        OBVIOUS
      <4>1. m \notin Entries(queue) /\ \A v \in Worker : v # w => m \notin Entries(inflight[v])
        BY <2>7 DEF PlaceInv, Single
      <4>2. CASE n = m
        BY <1>1, <2>2, <2>3, <4>1, <4>2 DEF Listed
      <4>3. CASE n # m
        <5>1. \A v \in Worker : n \in Entries(inflight'[v]) <=> n \in Entries(inflight[v])
          BY <2>2, <2>3, <4>3
        <5> QED
          BY <1>1, <4>3, <5>1 DEF Listed
      <4> QED
        BY <4>2, <4>3
    <3>5. Kept'
      BY <1>1, <3>3, <3>4 DEF PlaceInv, Kept
    <3>6. OrderInv'
      BY <1>1, <2>2, <2>3 DEF OrderInv, Below
    <3> QED
      BY <2>4, <2>5, <3>2, <3>5, <3>6 DEF PlaceInv
  <2> QED
    BY <2>6, <2>7
<1>3. CASE inflight' = inflight /\ (settled' = settled \/ (m \in popped /\ settled' = settled \cup {m}))
  <2>1. Ended' = Ended /\ \A n \in Msg : Listed(n)' <=> Listed(n)
    BY <1>1, <1>3 DEF Ended, Listed
  <2>2. dropped' \cap (settled' \cup popped') = {}
    BY <1>1, <1>3 DEF PlaceInv, Gone
  <2>3. Single' /\ Taken' /\ OrderInv'
    BY <1>1, <1>3 DEF PlaceInv, Single, Taken, OrderInv
  <2> QED
    BY <1>1, <2>1, <2>2, <2>3 DEF PlaceInv, Kept, Gone
<1> QED
  BY <1>2, <1>3 DEF Ack

(* A worker takes the message at the head of the queue. *)
LEMMA TakePlace ==
    ASSUME TypeOK, PlaceInv, OrderInv, NEW w \in Worker, TakeMoves(w) \/ TakePops(w)
    PROVE  PlaceInv' /\ OrderInv'
<1> DEFINE m == Head(queue)
           q == Tail(queue)
<1>1. /\ queue \in Seq(Msg) /\ queue # <<>> /\ queue' = q /\ takers' = takers \cup {w}
      /\ UNCHANGED <<published, settled, dropped>>
  BY DEF TakeMoves, TakePops, TypeOK
<1>2. /\ m \in Msg /\ q \in Seq(Msg) /\ Entries(queue) = {m} \cup Entries(q)
      /\ Distinct(queue) => Distinct(q) /\ m \notin Entries(q)
      /\ Increasing(queue) => Increasing(q) /\ \A x \in Entries(q) : m < x
  BY <1>1, MsgIsInt, TailFacts
<1>3. \/ inflight' = [inflight EXCEPT ![w] = Append(@, m)] /\ popped' = popped
      \/ inflight' = inflight /\ popped' = popped \cup {m}
  BY DEF TakeMoves, TakePops
<1> HIDE DEF m, q
<1>4. Distinct(q) /\ m \notin Entries(q) /\ \A v \in Worker : m \notin Entries(inflight[v])
  BY <1>2 DEF PlaceInv, Single
<1>5. Listed(m) /\ m <= published /\ m \notin Ended
  BY <1>2 DEF PlaceInv, Kept, Listed
<1>6. CASE inflight' = [inflight EXCEPT ![w] = Append(@, m)] /\ popped' = popped
  <2> DEFINE s == inflight[w]
             a == <<m>>
  <2>1. s \in Seq(Msg) /\ a \in Seq(Msg) /\ Entries(a) = {m} /\ Distinct(a) /\ Increasing(a) /\ Distinct(s)
    BY <1>2, OneEntry DEF TypeOK, PlaceInv, Single
  <2>2. Append(s, m) = s \o a
    BY <1>2, <2>1, AppendIsConcat
  <2> HIDE DEF a
  <2>3. /\ Entries(s \o a) = Entries(s) \cup Entries(a)
        /\ Distinct(s) /\ Distinct(a) /\ Entries(s) \cap Entries(a) = {} => Distinct(s \o a)
        /\ Increasing(s \o a) <=> Increasing(s) /\ Increasing(a) /\ Below(s, a)
    BY <2>1, MsgIsInt, ConcatFacts
  <2>4. Entries(s) \cap Entries(a) = {}
    BY <1>4, <2>1
  <2>5. inflight'[w] = s \o a /\ \A v \in Worker : v # w => inflight'[v] = inflight[v]
    BY <1>6, <2>2 DEF TypeOK
  <2>6. Entries(inflight'[w]) = Entries(inflight[w]) \cup {m} /\ Distinct(inflight'[w])
    BY <2>1, <2>3, <2>4, <2>5
  <2>7. Single'
    <3>1. \A v \in Worker : Distinct(inflight'[v]) /\ Entries(inflight'[v]) \subseteq Entries(inflight[v]) \cup {m}
      BY <2>5, <2>6 DEF PlaceInv, Single
    <3>2. \A v \in Worker : v # w => Entries(inflight'[v]) = Entries(inflight[v]) /\ m \notin Entries(inflight'[v])
      BY <1>4, <2>5
    <3>3. \A v \in Worker : Entries(q) \cap Entries(inflight'[v]) = {}
      BY <1>2, <1>4, <3>1 DEF PlaceInv, Single
    <3>4. ASSUME NEW v \in Worker, NEW u \in Worker, v # u PROVE Entries(inflight'[v]) \cap Entries(inflight'[u]) = {}
      BY <1>4, <2>6, <3>2, <3>4 DEF PlaceInv, Single
    <3> QED
      BY <1>1, <1>4, <3>1, <3>3, <3>4 DEF Single
  <2>8. Kept'
    <3>1. \A n \in Msg : Listed(n)' <=> Listed(n)
      <4> SUFFICES ASSUME NEW n \in Msg PROVE Listed(n)' <=> Listed(n)
        OBVIOUS
      <4>1. CASE n = m
        BY <1>5, <2>6, <4>1 DEF Listed
      <4>2. CASE n # m
        <5>1. (n \in Entries(queue') <=> n \in Entries(queue))
              /\ \A v \in Worker : n \in Entries(inflight'[v]) <=> n \in Entries(inflight[v])
          BY <1>1, <1>2, <2>5, <2>6, <4>2
        <5> QED
          BY <5>1 DEF Listed
      <4> QED
        BY <4>1, <4>2
    <3> QED
      BY <1>1, <1>6, <3>1 DEF PlaceInv, Kept, Ended
  <2>9. Gone' /\ Taken'
    BY <1>1, <1>6, <2>5 DEF PlaceInv, Gone, Taken, Ended
  <2>10. OrderInv'
    <3> SUFFICES ASSUME NEW v \in Worker, takers' \subseteq {v}
                 PROVE  Increasing(inflight'[v]) /\ Increasing(queue') /\ Below(inflight'[v], queue')
      BY DEF OrderInv
    <3>1. v = w /\ takers \subseteq {w}
      BY <1>1
    <3>2. Increasing(inflight[w]) /\ Increasing(queue) /\ Below(inflight[w], queue)
      BY <3>1 DEF OrderInv
    <3>3. Below(s, a)
      BY <1>2, <2>1, <3>2 DEF Below
    <3>4. Increasing(inflight'[w])
      BY <2>1, <2>3, <2>5, <3>2, <3>3
    <3>5. Below(inflight'[w], q)
      BY <1>2, <2>6, <3>2 DEF Below
    <3> QED
      BY <1>1, <1>2, <3>1, <3>2, <3>4, <3>5
  <2> QED
    BY <2>7, <2>8, <2>9, <2>10 DEF PlaceInv
<1>7. CASE inflight' = inflight /\ popped' = popped \cup {m}
  <2>1. Single'
    BY <1>1, <1>2, <1>4, <1>7 DEF PlaceInv, Single
  <2>2. \A n \in Msg : Listed(n)' <=> Listed(n) /\ n # m
    BY <1>1, <1>2, <1>4, <1>7 DEF Listed
  <2>3. Ended' = Ended \cup {m}
    BY <1>1, <1>7 DEF Ended
  <2>4. Kept'
    BY <1>1, <2>2, <2>3 DEF PlaceInv, Kept
  <2>5. Gone'
    BY <1>1, <1>5, <1>7 DEF PlaceInv, Gone, Ended
  <2>6. Taken'
    BY <1>1, <1>7 DEF PlaceInv, Taken
  <2>7. OrderInv'
    <3> SUFFICES ASSUME NEW v \in Worker, takers' \subseteq {v}
                 PROVE  Increasing(inflight[v]) /\ Increasing(q) /\ Below(inflight[v], q)
      BY <1>1, <1>7 DEF OrderInv
    <3>1. takers \subseteq {v}
      BY <1>1
    <3> QED
      BY <1>2, <3>1 DEF OrderInv, Below
  <2> QED
    BY <2>1, <2>4, <2>5, <2>6, <2>7 DEF PlaceInv
<1> QED
  BY <1>3, <1>6, <1>7

(* A discard deletes what waits and what the lists it found hold. *)
LEMMA DiscardPlace ==
    ASSUME TypeOK, PlaceInv, OrderInv, DiscardDeletes
    PROVE  PlaceInv' /\ OrderInv'
<1> DEFINE gone == Entries(queue) \cup UNION {Entries(inflight[w]) : w \in scan}
<1>1. /\ queue' = <<>> /\ dropped' = dropped \cup gone
      /\ \A w \in Worker : inflight'[w] = IF w \in scan THEN <<>> ELSE inflight[w]
      /\ UNCHANGED <<published, settled, popped, takers>> /\ scan \subseteq Worker
  BY DEF DiscardDeletes, TypeOK
<1>2. \A e : e \in gone <=> e \in Entries(queue) \/ \E w \in scan : e \in Entries(inflight[w])
  OBVIOUS
<1>3. Entries(queue) \subseteq Msg /\ \A w \in Worker : Entries(inflight[w]) \subseteq Msg
  BY EntriesType DEF TypeOK
<1>4. \A e \in gone : e \in Msg /\ Listed(e)
  BY <1>1, <1>2, <1>3 DEF Listed
<1> HIDE DEF gone
<1>5. /\ Entries(queue') = {} /\ Distinct(queue') /\ Increasing(queue')
      /\ \A w \in scan : Entries(inflight'[w]) = {} /\ Distinct(inflight'[w]) /\ Increasing(inflight'[w])
  BY <1>1, NoEntries
<1>6. Single'
  <2>1. \A w \in Worker : Entries(inflight'[w]) \subseteq Entries(inflight[w]) /\ Distinct(inflight'[w])
    BY <1>1, <1>5 DEF PlaceInv, Single
  <2> QED
    BY <1>5, <2>1 DEF PlaceInv, Single
<1>7. Taken'
  BY <1>1 DEF PlaceInv, Taken
<1>8. Gone'
  <2>1. \A e \in gone : e <= published /\ e \notin Ended
    BY <1>4 DEF PlaceInv, Kept
  <2> QED
    BY <1>1, <2>1 DEF PlaceInv, Gone, Ended
<1>9. \A m \in Msg : Listed(m)' <=> Listed(m) /\ m \notin gone
  <2> SUFFICES ASSUME NEW m \in Msg PROVE Listed(m)' <=> Listed(m) /\ m \notin gone
    OBVIOUS
  <2>1. ASSUME Listed(m)' PROVE Listed(m) /\ m \notin gone
    <3>1. PICK w \in Worker : w \notin scan /\ m \in Entries(inflight[w])
      BY <1>1, <1>5, <2>1 DEF Listed
    <3>2. m \notin Entries(queue) /\ \A v \in scan : m \notin Entries(inflight[v])
      BY <1>1, <3>1 DEF PlaceInv, Single
    <3> QED
      BY <1>2, <3>1, <3>2 DEF Listed
  <2>2. ASSUME Listed(m), m \notin gone PROVE Listed(m)'
    <3>1. PICK w \in Worker : w \notin scan /\ m \in Entries(inflight[w])
      BY <1>2, <2>2 DEF Listed
    <3>2. m \in Entries(inflight'[w])
      BY <1>1, <3>1
    <3> QED
      BY <3>2 DEF Listed
  <2> QED
    BY <2>1, <2>2
<1>10. Kept'
  <2>1. Ended' = Ended \cup gone
    BY <1>1 DEF Ended
  <2> QED
    BY <1>1, <1>9, <2>1 DEF PlaceInv, Kept
<1>11. OrderInv'
  <2> SUFFICES ASSUME NEW v \in Worker, takers \subseteq {v}
               PROVE  Increasing(inflight'[v]) /\ Increasing(queue') /\ Below(inflight'[v], queue')
    BY <1>1 DEF OrderInv
  <2>1. Increasing(inflight'[v])
    BY <1>1, <1>5 DEF OrderInv
  <2> QED
    BY <1>5, <2>1 DEF Below
<1> QED
  BY <1>6, <1>7, <1>8, <1>10, <1>11 DEF PlaceInv


(* No step loses a message, or makes two of it. *)
LEMMA PlaceNext == TypeOK /\ PlaceInv /\ OrderInv /\ [Next]_vars => PlaceInv' /\ OrderInv'
<1> SUFFICES ASSUME TypeOK, PlaceInv, OrderInv, [Next]_vars PROVE PlaceInv' /\ OrderInv'
  OBVIOUS
<1> USE DEF lists, history
<1>1. ASSUME UNCHANGED <<published, queue, inflight, settled, popped, dropped, takers>> PROVE PlaceInv' /\ OrderInv'
  <2>1. \A m \in Msg : Listed(m)' <=> Listed(m)
    BY <1>1 DEF Listed
  <2>2. Ended' = Ended
    BY <1>1 DEF Ended
  <2> QED
    BY <1>1, <2>1, <2>2 DEF PlaceInv, Single, Kept, Gone, Taken, OrderInv
<1>2. ASSUME NEW w \in Worker, ReclaimOne(w) PROVE PlaceInv' /\ OrderInv'
  BY <1>2, MoveBackPlace DEF ReclaimOne
<1>3. ASSUME HandMoves PROVE PlaceInv' /\ OrderInv'
  <2>1. byHand \in Worker /\ MoveBack(byHand) /\ UNCHANGED <<published, settled, popped, dropped, takers>>
    BY <1>3 DEF HandMoves, TypeOK
  <2> QED
    BY <2>1, MoveBackPlace
<1>4. ASSUME NEW w \in Worker,
             \/ Start(w) \/ Stop(w) \/ Crash(w) \/ ReclaimEnds(w) \/ ReclaimDowngrades(w) \/ ReclaimFails(w)
             \/ Turn(w) \/ TakeDowngrades(w) \/ TakeNothing(w) \/ HandStarts(w) \/ \E m \in Msg : Complete(w, m)
      PROVE  UNCHANGED <<published, queue, inflight, settled, popped, dropped, takers>>
  BY <1>4 DEF Start, Stop, Crash, Ends, ReclaimEnds, ReclaimDowngrades, ReclaimFails, Turn, TakeDowngrades,
              TakeNothing, HandStarts, Complete
<1>5. ASSUME Failover \/ HandEnds \/ PruneLists \/ Named \/ PruneLocks \/ DiscardScans \/ DiscardHolds
             \/ UNCHANGED vars
      PROVE  UNCHANGED <<published, queue, inflight, settled, popped, dropped, takers>>
  BY <1>5 DEF Failover, HandEnds, PruneLists, Named, PruneLocks, DiscardScans, DiscardHolds, vars
<1> QED
  BY <1>1, <1>2, <1>3, <1>4, <1>5, PublishPlace, AckPlace, TakePlace, DiscardPlace DEF Next

(* Where a value is in a list that holds it at most once. *)
Spots(s, m) == {i \in DOMAIN s : s[i] = m}

LEMMA CountOf ==
    ASSUME NEW S, NEW s \in Seq(S), Distinct(s), NEW m
    PROVE  /\ m \in Entries(s) => \E k : Spots(s, m) = {k}
           /\ m \notin Entries(s) => Spots(s, m) = {}
<1>1. ASSUME NEW k \in DOMAIN s, s[k] = m PROVE Spots(s, m) = {k}
  BY <1>1 DEF Distinct, Spots
<1> QED
  BY <1>1 DEF Entries, Spots

(* A published message is in exactly one list until it is acknowledged,    *)
(* popped by a broker without LMOVE or deleted by a discard: no take,       *)
(* reclaim, reclaim by hand, prune or crash loses it or makes two of it.   *)
THEOREM EachIsKeptOnce == Spec => []KeptOnce
<1>1. TypeOK /\ PlaceInv => KeptOnce
  <2> SUFFICES ASSUME TypeOK, PlaceInv, NEW m \in Msg
               PROVE  Places(m) = IF m <= published /\ m \notin settled \cup popped \cup dropped THEN 1 ELSE 0
    BY DEF KeptOnce
  <2> DEFINE q == Spots(queue, m)
             h(w) == Spots(inflight[w], m)
             u == UNION {{w} \X h(w) : w \in Worker}
  <2>1. /\ m \in Entries(queue) => \E k : q = {k}
        /\ m \notin Entries(queue) => q = {}
    <3>1. queue \in Seq(Msg) /\ Distinct(queue)
      BY DEF TypeOK, PlaceInv, Single
    <3> QED
      BY <3>1, CountOf
  <2>2. ASSUME NEW w \in Worker
        PROVE  /\ m \in Entries(inflight[w]) => \E k : h(w) = {k}
               /\ m \notin Entries(inflight[w]) => h(w) = {}
    <3>1. inflight[w] \in Seq(Msg) /\ Distinct(inflight[w])
      BY DEF TypeOK, PlaceInv, Single
    <3> QED
      BY <3>1, CountOf
  <2>3. Places(m) = Cardinality(q) + Cardinality(u)
    BY DEF Places, Spots
  <2> HIDE DEF q, h
  <2>4. CASE m \in Entries(queue)
    <3>1. \A w \in Worker : h(w) = {}
      BY <2>2, <2>4 DEF PlaceInv, Single
    <3>2. u = {}
      BY <3>1
    <3>3. PICK k : q = {k}
      BY <2>1, <2>4
    <3>4. Cardinality(q) = 1 /\ Cardinality(u) = 0
      BY <3>2, <3>3, FS_Singleton, FS_EmptySet
    <3>5. m <= published /\ m \notin settled \cup popped \cup dropped
      BY <2>4 DEF PlaceInv, Kept, Listed, Ended
    <3> HIDE DEF u
    <3> QED
      BY <2>3, <3>4, <3>5
  <2>5. CASE m \notin Entries(queue) /\ \E w \in Worker : m \in Entries(inflight[w])
    <3>1. PICK w \in Worker : m \in Entries(inflight[w])
      BY <2>5
    <3>2. \A v \in Worker : v # w => h(v) = {}
      BY <2>2, <3>1 DEF PlaceInv, Single
    <3>3. PICK k : h(w) = {k}
      BY <2>2, <3>1
    <3>4. u = {<<w, k>>}
      <4>1. \A x \in u : x = <<w, k>>
        BY <3>2, <3>3
      <4>2. <<w, k>> \in {w} \X h(w)
        BY <3>3
      <4>3. <<w, k>> \in u
        BY <4>2
      <4> QED
        BY <4>1, <4>3
    <3>5. Cardinality(q) = 0 /\ Cardinality(u) = 1
      BY <2>1, <2>5, <3>4, FS_Singleton, FS_EmptySet
    <3>6. m <= published /\ m \notin settled \cup popped \cup dropped
      BY <2>5 DEF PlaceInv, Kept, Listed, Ended
    <3> HIDE DEF u
    <3> QED
      BY <2>3, <3>5, <3>6
  <2>6. CASE ~Listed(m)
    <3>1. q = {} /\ \A w \in Worker : h(w) = {}
      BY <2>1, <2>2, <2>6 DEF Listed
    <3>2. u = {}
      BY <3>1
    <3>3. Cardinality(q) = 0 /\ Cardinality(u) = 0
      BY <3>1, <3>2, FS_EmptySet
    <3>4. ~(m <= published /\ m \notin settled \cup popped \cup dropped)
      BY <2>6 DEF PlaceInv, Kept, Ended
    <3> HIDE DEF u
    <3> QED
      BY <2>3, <3>3, <3>4
  <2> QED
    BY <2>4, <2>5, <2>6 DEF Listed
<1>2. TypeOK /\ PlaceInv /\ OrderInv /\ [Next]_vars => (TypeOK /\ PlaceInv /\ OrderInv)'
  BY TypeNext, PlaceNext
<1> QED
  BY TypeInit, PlaceInit, <1>1, <1>2, PTL DEF Spec

(* As long as one worker alone has taken messages, what it holds and then  *)
(* what waits is in the order of publication, in the middle of a reclaim    *)
(* too: LMOVE RIGHT LEFT puts the newest back first.                        *)
THEOREM ReclaimsKeepOrder == Spec => []OrderKept
<1>1. TypeOK /\ OrderInv => OrderKept
  <2> SUFFICES ASSUME TypeOK, OrderInv, NEW w \in Worker, takers \subseteq {w}
               PROVE  Increasing(inflight[w] \o queue)
    BY DEF OrderKept, Increasing
  <2>1. inflight[w] \in Seq(Msg) /\ queue \in Seq(Msg)
    BY DEF TypeOK
  <2>2. Increasing(inflight[w]) /\ Increasing(queue) /\ Below(inflight[w], queue)
    BY DEF OrderInv
  <2> QED
    BY <2>1, <2>2, MsgIsInt, ConcatFacts
<1>2. TypeOK /\ PlaceInv /\ OrderInv /\ [Next]_vars => (TypeOK /\ PlaceInv /\ OrderInv)'
  BY TypeNext, PlaceNext
<1> QED
  BY TypeInit, PlaceInit, <1>1, <1>2, PTL DEF Spec


-----------------------------------------------------------------------------
(* What a prune may delete *)

Unnamed == pruning \in {"locked", "scanned"} => ~named

LEMMA UnnamedNext == TypeOK /\ Unnamed /\ [Next]_vars => Unnamed'
<1> SUFFICES ASSUME TypeOK, Unnamed, [Next]_vars PROVE Unnamed'
  OBVIOUS
<1>1. CASE PruneLists \/ Named \/ PruneLocks \/ DiscardScans \/ DiscardDeletes \/ DiscardHolds
  BY <1>1 DEF PruneLists, Named, PruneLocks, DiscardScans, DiscardDeletes, DiscardHolds, Unnamed
<1>2. CASE UNCHANGED <<named, pruning>>
  BY <1>2 DEF Unnamed
<1>3. CASE Publish \/ Failover \/ HandMoves \/ HandEnds \/ UNCHANGED vars
  BY <1>2, <1>3 DEF Publish, Failover, HandMoves, HandEnds, tools, prune, vars
<1>4. ASSUME NEW w \in Worker,
             \/ Start(w) \/ Crash(w) \/ Stop(w)
             \/ ReclaimOne(w) \/ ReclaimEnds(w) \/ ReclaimDowngrades(w) \/ ReclaimFails(w)
             \/ Turn(w)
             \/ TakeMoves(w) \/ TakePops(w) \/ TakeDowngrades(w) \/ TakeNothing(w)
             \/ HandStarts(w)
             \/ \E m \in Msg : Ack(w, m) \/ Complete(w, m)
      PROVE  Unnamed'
  BY <1>2, <1>4 DEF Start, Crash, Stop, Ends, ReclaimOne, ReclaimEnds, ReclaimDowngrades, ReclaimFails,
     Turn, TakeMoves, TakePops, TakeDowngrades, TakeNothing, HandStarts, Ack, Complete, tools, prune
<1> QED
  BY <1>1, <1>3, <1>4 DEF Next

LEMMA OnlyDiscards ==
    TypeOK /\ Unnamed /\ [Next]_vars => (dropped' # dropped => policy = "drop" /\ ~named)
<1> SUFFICES ASSUME TypeOK, Unnamed, [Next]_vars, dropped' # dropped PROVE policy = "drop" /\ ~named
  OBVIOUS
<1>1. CASE DiscardDeletes
  <2>1. ~named /\ scan \subseteq Worker
    BY <1>1 DEF DiscardDeletes, Unnamed, TypeOK
  <2>2. ASSUME SeenEmpty PROVE FALSE
    <3>1. Entries(queue) = {} /\ \A w \in scan : Entries(inflight[w]) = {}
      BY <2>2, NoEntries DEF SeenEmpty
    <3>2. UNION {Entries(inflight[w]) : w \in scan} = {}
      BY <3>1
    <3>3. dropped' = dropped
      BY <1>1, <3>1, <3>2 DEF DiscardDeletes
    <3> QED
      BY <3>3
  <2> QED
    BY <1>1, <2>1, <2>2 DEF DiscardDeletes
<1>2. CASE \/ Publish \/ Failover \/ HandMoves \/ HandEnds \/ PruneLists \/ Named \/ PruneLocks
           \/ DiscardScans \/ DiscardHolds \/ UNCHANGED vars
  BY <1>2 DEF Publish, Failover, HandMoves, HandEnds, PruneLists, Named, PruneLocks, DiscardScans,
     DiscardHolds, history, vars
<1>3. ASSUME NEW w \in Worker,
             \/ Start(w) \/ Crash(w) \/ Stop(w)
             \/ ReclaimOne(w) \/ ReclaimEnds(w) \/ ReclaimDowngrades(w) \/ ReclaimFails(w)
             \/ Turn(w)
             \/ TakeMoves(w) \/ TakePops(w) \/ TakeDowngrades(w) \/ TakeNothing(w)
             \/ HandStarts(w)
             \/ \E m \in Msg : Ack(w, m) \/ Complete(w, m)
      PROVE  dropped' = dropped
  BY <1>3 DEF Start, Crash, Stop, Ends, ReclaimOne, ReclaimEnds, ReclaimDowngrades, ReclaimFails,
     Turn, TakeMoves, TakePops, TakeDowngrades, TakeNothing, HandStarts, Ack, Complete, history
<1> QED
  BY <1>1, <1>2, <1>3 DEF Next

(* A prune deletes a message only under the policy that says so and while   *)
(* no bot names the queue: the row it locked is read again, and a list it   *)
(* did not watch is not touched.                                           *)
THEOREM PruneDeletesWhatItMay == Spec => DropsOnlyWhatItMay
<1>1. Init => Unnamed
  BY DEF Init, Unnamed
<1>2. TypeOK /\ Unnamed /\ [Next]_vars => [dropped' # dropped => policy = "drop" /\ ~named]_vars
  BY OnlyDiscards
<1> QED
  BY <1>1, <1>2, TypeInit, TypeNext, UnnamedNext, PTL DEF Spec, DropsOnlyWhatItMay


-----------------------------------------------------------------------------
(* The broker keeps the transport's contract *)

(* A send that is over is answered, and only what is answered is settled. *)
AnswerInv ==
    /\ settled \subseteq answered
    /\ \A w \in Worker, m \in Msg : finished[w][m] > 0 => m \in answered

LEMMA AnswerInit == Init => AnswerInv
  BY DEF Init, AnswerInv, None

LEMMA AnswerNext == TypeOK /\ AnswerInv /\ [Next]_vars => AnswerInv'
<1> SUFFICES ASSUME TypeOK, AnswerInv, [Next]_vars PROVE AnswerInv'
  OBVIOUS
<1>1. CASE UNCHANGED <<settled, answered, finished>>
  BY <1>1 DEF AnswerInv
<1>2. ASSUME NEW w \in Worker, Ends(w) PROVE AnswerInv'
  <2>1. UNCHANGED <<settled, answered>> /\ finished' = [finished EXCEPT ![w] = None]
    BY <1>2 DEF Ends, history
  <2>2. ASSUME NEW v \in Worker, NEW m \in Msg, finished'[v][m] > 0 PROVE finished[v][m] > 0
    BY <2>1, <2>2 DEF TypeOK, None
  <2> QED
    BY <2>1, <2>2 DEF AnswerInv
<1>3. ASSUME NEW w \in Worker, NEW m \in Msg, Ack(w, m) PROVE AnswerInv'
  <2>1. answered' = answered /\ settled' \subseteq settled \cup {m} /\ m \in answered
    BY <1>3 DEF Ack, AnswerInv
  <2>2. finished' = [finished EXCEPT ![w][m] = @ - 1]
    BY <1>3 DEF Ack
  <2>3. ASSUME NEW v \in Worker, NEW n \in Msg, finished'[v][n] > 0 PROVE n \in answered
    <3>1. CASE v = w /\ n = m
      BY <2>1, <3>1
    <3>2. CASE ~(v = w /\ n = m)
      <4>1. finished'[v][n] = finished[v][n]
        BY <2>2, <3>2 DEF TypeOK
      <4> QED
        BY <2>3, <4>1 DEF AnswerInv
    <3> QED
      BY <3>1, <3>2
  <2> QED
    BY <2>1, <2>3 DEF AnswerInv
<1>4. ASSUME NEW w \in Worker, NEW m \in Msg, Complete(w, m) PROVE AnswerInv'
  <2>1. settled' = settled
    BY <1>4 DEF Complete
  <2>2. CASE finished' = [finished EXCEPT ![w][m] = @ + 1] /\ answered' = answered \cup {m}
    <3>1. ASSUME NEW v \in Worker, NEW n \in Msg, finished'[v][n] > 0 PROVE n \in answered'
      <4>1. CASE v = w /\ n = m
        BY <2>2, <4>1
      <4>2. CASE ~(v = w /\ n = m)
        <5>1. finished'[v][n] = finished[v][n]
          BY <2>2, <4>2 DEF TypeOK
        <5> QED
          BY <2>2, <3>1, <5>1 DEF AnswerInv
      <4> QED
        BY <4>1, <4>2
    <3> QED
      BY <2>1, <2>2, <3>1 DEF AnswerInv
  <2> QED
    BY <1>1, <1>4, <2>1, <2>2 DEF Complete
<1>5. ASSUME NEW w \in Worker,
             \/ Start(w) \/ ReclaimOne(w) \/ ReclaimEnds(w) \/ ReclaimDowngrades(w) \/ ReclaimFails(w)
             \/ Turn(w)
             \/ TakeMoves(w) \/ TakePops(w) \/ TakeDowngrades(w) \/ TakeNothing(w)
             \/ HandStarts(w)
      PROVE  AnswerInv'
  BY <1>1, <1>5 DEF Start, ReclaimOne, ReclaimEnds, ReclaimDowngrades, ReclaimFails, Turn, TakeMoves,
     TakePops, TakeDowngrades, TakeNothing, HandStarts, history, worker
<1>6. CASE \/ Publish \/ Failover \/ HandMoves \/ HandEnds \/ PruneLists \/ Named \/ PruneLocks
           \/ DiscardScans \/ DiscardHolds \/ DiscardDeletes \/ UNCHANGED vars
  BY <1>1, <1>6 DEF Publish, Failover, HandMoves, HandEnds, PruneLists, Named, PruneLocks, DiscardScans,
     DiscardHolds, DiscardDeletes, history, worker, vars
<1> QED
  BY <1>2, <1>3, <1>4, <1>5, <1>6 DEF Next, Crash, Stop

Where == [m \in Msg |->
    IF m \in settled THEN "settled"
    ELSE IF m \in dropped THEN "removed"
    ELSE IF m > published \/ m \in Entries(queue) THEN "waiting" ELSE "taken"]

(* Where a message is that a list holds, and one that a pop took. *)
LEMMA WhereListed ==
    ASSUME TypeOK, PlaceInv, NEW m \in Msg
    PROVE  /\ m \in Entries(queue) => Where[m] = "waiting"
           /\ \A w \in Worker : m \in Entries(inflight[w]) => Where[m] = "taken"
           /\ m \in popped \ settled => Where[m] = "taken"
<1>1. CASE Listed(m)
  <2>1. m <= published /\ m \notin Ended
    BY <1>1 DEF PlaceInv, Kept
  <2>2. ~(m > published)
    BY <2>1 DEF TypeOK, Msg
  <2>3. \A w \in Worker : m \in Entries(inflight[w]) => m \notin Entries(queue)
    BY DEF PlaceInv, Single
  <2> QED
    BY <2>1, <2>2, <2>3 DEF Where, Ended
<1>2. CASE ~Listed(m)
  <2>1. m \in popped => m <= published /\ m \notin dropped
    BY DEF PlaceInv, Gone, Ended
  <2>2. m \in popped => ~(m > published)
    BY <2>1 DEF TypeOK, Msg
  <2> QED
    BY <1>2, <2>1, <2>2 DEF Where, Listed
<1> QED
  BY <1>1, <1>2

(* A take of the list is a take of the contract. *)
LEMMA TakeTakes ==
    ASSUME TypeOK, PlaceInv, NEW w \in Worker, TakeMoves(w) \/ TakePops(w)
    PROVE  \E m \in Msg : Contract!Take(m)
<1> DEFINE m == Head(queue)
           q == Tail(queue)
<1>1. /\ queue \in Seq(Msg) /\ queue # <<>> /\ queue' = q
      /\ UNCHANGED <<published, settled, dropped, answered>>
  BY DEF TakeMoves, TakePops, TypeOK
<1>2. /\ m \in Msg /\ q \in Seq(Msg) /\ Entries(queue) = {m} \cup Entries(q) /\ m \notin Entries(q)
  BY <1>1, MsgIsInt, TailFacts DEF PlaceInv, Single
<1> HIDE DEF m, q
<1>3. Where[m] = "waiting"
  BY <1>2, WhereListed
<1>4. m \notin Ended /\ m <= published
  BY <1>2 DEF PlaceInv, Kept, Listed
<1>5. ~(m > published)
  BY <1>2, <1>4 DEF TypeOK, Msg
<1>6. Where' = [Where EXCEPT ![m] = "taken"]
  <2>1. \A n \in Msg : n # m => Where'[n] = Where[n]
    BY <1>1, <1>2 DEF Where
  <2>2. Where'[m] = "taken"
    BY <1>1, <1>2, <1>4, <1>5 DEF Where, Ended
  <2>3. Where \in [Msg -> {"settled", "removed", "waiting", "taken"}]
        /\ Where' \in [Msg -> {"settled", "removed", "waiting", "taken"}]
    BY DEF Where
  <2> HIDE DEF Where
  <2> QED
    BY <1>2, <2>1, <2>2, <2>3
<1> QED
  BY <1>1, <1>2, <1>3, <1>6 DEF Contract!Take, Where

(* What goes back to the queue was taken. *)
LEMMA MoveBackReturns ==
    ASSUME TypeOK, PlaceInv, NEW w \in Worker, MoveBack(w), UNCHANGED <<published, settled, dropped, answered>>
    PROVE  Contract!Next
<1> DEFINE l == Last(inflight[w])
           f == Front(inflight[w])
<1>1. /\ inflight[w] \in Seq(Msg) /\ inflight[w] # <<>> /\ queue \in Seq(Msg) /\ queue' = <<l>> \o queue
  BY DEF TypeOK, MoveBack
<1>2. l \in Msg /\ l \in Entries(inflight[w])
  <2>1. l \in Msg /\ Entries(inflight[w]) = Entries(f) \cup {l}
    BY <1>1, MsgIsInt, FrontFacts
  <2> HIDE DEF l, f
  <2> QED
    BY <2>1
<1> HIDE DEF l, f
<1>3. Entries(queue') = {l} \cup Entries(queue)
  <2> DEFINE a == <<l>>
  <2>1. a \in Seq(Msg) /\ Entries(a) = {l}
    BY <1>2, OneEntry
  <2> HIDE DEF a
  <2>2. Entries(a \o queue) = Entries(a) \cup Entries(queue)
    BY <1>1, <2>1, MsgIsInt, ConcatFacts
  <2>3. queue' = a \o queue
    BY <1>1 DEF a
  <2> QED
    BY <2>1, <2>2, <2>3
<1>4. Where[l] = "taken" /\ l \notin settled /\ l \notin dropped
  BY <1>2, WhereListed DEF Where
<1>5. {l} \subseteq {m \in Msg : Where[m] = "taken"}
  BY <1>2, <1>4
<1>6. Where' = [m \in Msg |-> IF m \in {l} THEN "waiting" ELSE Where[m]]
  BY <1>3, <1>4 DEF Where
<1>7. PICK back \in SUBSET Msg : back = {l}
  BY <1>2
<1>8. Contract!Return(back)
  BY <1>1, <1>5, <1>6, <1>7 DEF Contract!Return, Where
<1> QED
  BY <1>7, <1>8 DEF Contract!Next

(* What LREM removes, or a pop removed before, was taken and is answered. *)
LEMMA AckSettles ==
    ASSUME TypeOK, PlaceInv, AnswerInv, NEW w \in Worker, NEW m \in Msg, Ack(w, m)
    PROVE  Contract!Settle(m) \/ UNCHANGED <<Where, answered>>
<1>1. UNCHANGED <<published, queue, dropped, answered>> /\ m \in answered
  BY DEF Ack, AnswerInv
<1>2. CASE settled' = settled
  BY <1>1, <1>2 DEF Where
<1>3. CASE settled' # settled
  <2>1. settled' = settled \cup {m} /\ m \notin settled
        /\ (m \in Entries(inflight[w]) \/ m \in popped)
    BY <1>3 DEF Ack
  <2>2. Where[m] = "taken"
    BY <2>1, WhereListed
  <2>3. Where' = [Where EXCEPT ![m] = "settled"]
    BY <1>1, <2>1 DEF Where
  <2> QED
    BY <1>1, <2>2, <2>3 DEF Contract!Settle, Where
<1> QED
  BY <1>2, <1>3

(* A discard removes what waits and what is taken, nothing settled. *)
LEMMA DiscardRemoves ==
    ASSUME TypeOK, PlaceInv, DiscardDeletes
    PROVE  Contract!Next
<1> DEFINE gone == Entries(queue) \cup UNION {Entries(inflight[w]) : w \in scan}
<1>1. /\ queue' = <<>> /\ dropped' = dropped \cup gone
      /\ UNCHANGED <<published, settled, answered>> /\ scan \subseteq Worker
  BY DEF DiscardDeletes, TypeOK
<1>2. \A e : e \in gone <=> e \in Entries(queue) \/ \E w \in scan : e \in Entries(inflight[w])
  OBVIOUS
<1>3. gone \in SUBSET Msg
  <2>1. Entries(queue) \subseteq Msg /\ \A w \in Worker : Entries(inflight[w]) \subseteq Msg
    BY EntriesType DEF TypeOK
  <2> QED
    BY <1>1, <2>1
<1> HIDE DEF gone
<1>4. \A e \in gone : Where[e] \in {"waiting", "taken"} /\ e \notin settled
  <2> SUFFICES ASSUME NEW e \in gone PROVE Where[e] \in {"waiting", "taken"} /\ e \notin settled
    OBVIOUS
  <2>1. e \in Msg /\ (e \in Entries(queue) \/ \E w \in Worker : e \in Entries(inflight[w]))
    BY <1>1, <1>2, <1>3
  <2>2. Where[e] \in {"waiting", "taken"}
    BY <2>1, WhereListed
  <2> QED
    BY <2>1, <2>2 DEF Where
<1>5. Entries(queue') = {} /\ Entries(queue) \subseteq gone
  BY <1>1, <1>2, NoEntries
<1>6. Where' = [m \in Msg |-> IF m \in gone THEN "removed" ELSE Where[m]]
  BY <1>1, <1>4, <1>5 DEF Where
<1>7. PICK some \in SUBSET Msg : some = gone
  BY <1>3
<1>8. Contract!Discard(some)
  BY <1>1, <1>4, <1>6, <1>7 DEF Contract!Discard, Where
<1> QED
  BY <1>8 DEF Contract!Next

(* A message waits in the contract from the start: publishing is no step. *)
LEMMA PublishWaits ==
    ASSUME TypeOK, PlaceInv, Publish
    PROVE  UNCHANGED <<Where, answered>>
<1>1. PICK k \in 1..2 : /\ published + k <= Messages /\ published' = published + k
                        /\ queue' = queue \o [i \in 1..k |-> published + i]
  BY DEF Publish
<1> DEFINE c == [i \in 1..k |-> published + i]
<1>2. published \in Nat /\ queue \in Seq(Msg) /\ UNCHANGED <<settled, dropped, answered>>
  BY DEF Publish, TypeOK, history
<1>3. c \in Seq(Msg) /\ Entries(c) = (published + 1)..(published + k)
  BY <1>1, <1>2, ChunkFacts
<1>4. queue' = queue \o c
  BY <1>1
<1> HIDE DEF c
<1>5. Entries(queue') = Entries(queue) \cup Entries(c)
  <2>1. Entries(queue \o c) = Entries(queue) \cup Entries(c)
    BY <1>2, <1>3, MsgIsInt, ConcatFacts
  <2> QED
    BY <1>4, <2>1
<1>6. \A m \in Msg : m > published \/ m \in Entries(queue) <=> m > published' \/ m \in Entries(queue')
  <2> SUFFICES ASSUME NEW m \in Msg
               PROVE  m > published \/ m \in Entries(queue) <=> m > published' \/ m \in Entries(queue')
    OBVIOUS
  <2>1. m > published <=> m > published' \/ m \in (published + 1)..(published + k)
    BY <1>1, <1>2, MsgIsInt
  <2> QED
    BY <1>3, <1>5, <2>1
<1> QED
  BY <1>2, <1>6 DEF Where

LEMMA ContractStep == TypeOK /\ PlaceInv /\ AnswerInv /\ [Next]_vars => [Contract!Next]_(Contract!vars)
<1> SUFFICES ASSUME TypeOK, PlaceInv, AnswerInv, [Next]_vars
             PROVE  Contract!Next \/ UNCHANGED <<Where, answered>>
  BY DEF Contract!vars, Where
<1>1. CASE UNCHANGED <<published, queue, settled, dropped, answered>>
  BY <1>1 DEF Where
<1>2. CASE Publish
  BY <1>2, PublishWaits
<1>3. ASSUME NEW w \in Worker, TakeMoves(w) \/ TakePops(w) PROVE Contract!Next
  BY <1>3, TakeTakes DEF Contract!Next
<1>4. ASSUME NEW w \in Worker, ReclaimOne(w) PROVE Contract!Next
  BY <1>4, MoveBackReturns DEF ReclaimOne, history
<1>5. CASE HandMoves
  BY <1>5, MoveBackReturns DEF HandMoves, history, TypeOK
<1>6. ASSUME NEW w \in Worker, NEW m \in Msg, Ack(w, m) PROVE Contract!Next \/ UNCHANGED <<Where, answered>>
  BY <1>6, AckSettles DEF Contract!Next
<1>7. ASSUME NEW w \in Worker, NEW m \in Msg, Complete(w, m)
      PROVE  Contract!Next \/ UNCHANGED <<Where, answered>>
  <2>1. UNCHANGED <<published, queue, settled, dropped>> /\ (answered' = answered \/ answered' = answered \cup {m})
    BY <1>7 DEF Complete, lists
  <2>2. Where' = Where
    BY <2>1 DEF Where
  <2>3. CASE m \in settled
    BY <2>1, <2>2, <2>3 DEF AnswerInv
  <2>4. CASE m \notin settled
    <3>1. Where[m] # "settled"
      BY <2>4 DEF Where
    <3>2. answered' = answered \cup {m} => Contract!Answer(m)
      BY <2>2, <3>1 DEF Contract!Answer, Where
    <3> QED
      BY <2>1, <2>2, <3>2 DEF Contract!Next
  <2> QED
    BY <2>3, <2>4
<1>8. CASE DiscardDeletes
  BY <1>8, DiscardRemoves
<1>9. ASSUME NEW w \in Worker,
             \/ Start(w) \/ Crash(w) \/ Stop(w) \/ ReclaimEnds(w) \/ ReclaimDowngrades(w) \/ ReclaimFails(w)
             \/ Turn(w) \/ TakeDowngrades(w) \/ TakeNothing(w) \/ HandStarts(w)
      PROVE  UNCHANGED <<published, queue, settled, dropped, answered>>
  BY <1>9 DEF Start, Crash, Stop, Ends, ReclaimEnds, ReclaimDowngrades, ReclaimFails, Turn, TakeDowngrades,
     TakeNothing, HandStarts, lists, history
<1>10. CASE \/ Failover \/ HandEnds \/ PruneLists \/ Named \/ PruneLocks \/ DiscardScans \/ DiscardHolds
            \/ UNCHANGED vars
  BY <1>1, <1>10 DEF Failover, HandEnds, PruneLists, Named, PruneLocks, DiscardScans, DiscardHolds, lists,
     history, vars
<1> QED
  BY <1>1, <1>2, <1>3, <1>4, <1>5, <1>6, <1>7, <1>8, <1>9, <1>10 DEF Next

(* The list transport refines the contract of broker/base.py: it settles    *)
(* only what it gave out and its handler is finished with, gives back only  *)
(* what it gave out, and nothing that is settled comes back.               *)
THEOREM ListKeepsContract == Spec => Implements
<1>1. Init => Contract!Init
  <2> SUFFICES ASSUME Init PROVE Contract!Init
    OBVIOUS
  <2>1. \A m \in Msg : m > published
    BY MsgIsInt DEF Init
  <2> QED
    BY <2>1 DEF Init, Contract!Init
<1>2. TypeOK /\ PlaceInv /\ OrderInv /\ AnswerInv /\ [Next]_vars => (TypeOK /\ PlaceInv /\ OrderInv /\ AnswerInv)'
  BY TypeNext, PlaceNext, AnswerNext
<1> QED
  BY <1>1, <1>2, TypeInit, PlaceInit, AnswerInit, ContractStep, PTL DEF Spec, Implements, Contract!Spec

==============================================================================
