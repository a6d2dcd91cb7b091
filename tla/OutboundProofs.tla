--------------------------- MODULE OutboundProofs ---------------------------
(***************************************************************************)
(* That no message of a block is announced before its commit, that a       *)
(* fan-out stops where it fails, and that an answer "failed" is final, for *)
(* every number of calls, chunks, transactions and faults.                 *)
(***************************************************************************)
EXTENDS Outbound, SequenceTheorems, TLAPS

USE OutboundAssumption

-----------------------------------------------------------------------------
(* The inductive invariant *)

InHooks(c) == \E i \in 1..Len(hooks) : hooks[i] = c

(* A call that was not made has left no trace; one in progress has a chunk *)
(* to write; what a call wrote where it stands is in the transport.        *)
CallsHold ==
    \A c \in Call :
        /\ next[c] <= Size(c) + 1
        /\ at[c] \in {"idle", "open", "held", "async"} => next[c] <= Size(c)
        /\ at[c] = "idle" => next[c] = 1 /\ \A m \in published : m[1] # c
        /\ at[c] \in {"open", "async"} => \A i \in 1..next[c] - 1 : <<c, i>> \in published

(* A call belongs to the open block, to one that was rolled back, or to    *)
(* neither, and only a call whose messages are on a hook belongs to one.   *)
BlocksHold ==
    /\ inside # {} => block = "atomic"
    /\ \A c \in inside : at[c] \in {"held", "returned", "raised"}
    /\ \A c \in undone : at[c] \in {"returned", "raised"}
    /\ block = "committing" => \A c \in Call : at[c] \notin {"open", "held"}

(* The hooks are those of calls that were not rolled back, and the one     *)
(* that runs has published the chunks before the one it is at.             *)
HooksHold ==
    /\ \A i \in 1..Len(hooks) : /\ at[hooks[i]] \in {"held", "returned", "raised"}
                                /\ hooks[i] \notin undone
    /\ hooks # <<>> => block \in {"atomic", "committing"}
    /\ block = "committing" => hooks # <<>>
    /\ block # "committing" => hookNext = 1
    /\ block = "committing" =>
          /\ hookNext = 1 \/ hookNext <= Held(Head(hooks))
          /\ \A i \in 1..hookNext - 1 : <<Head(hooks), i>> \in published

IInv == /\ TypeOK /\ CallsHold /\ BlocksHold /\ HooksHold
        /\ AnnouncedAfterCommit /\ StopsWhereItFails

-----------------------------------------------------------------------------
(* Messages, writes and hooks *)

(* A message is a chunk of its call, and each chunk of a call is one. *)
LEMMA MessageIs ==
    /\ \A c \in Call : Size(c) \in 1..Chunks
    /\ \A m \in Message : m[1] \in Call /\ m[2] \in 1..Size(m[1]) /\ m = <<m[1], m[2]>>
    /\ \A c \in Call : \A i \in 1..Size(c) : <<c, i>> \in Message
<1>1. \A c \in Call : Size(c) \in 1..Chunks
  BY DEF Call, Size
<1>2. ASSUME NEW m \in Message
      PROVE  m[1] \in Call /\ m[2] \in 1..Size(m[1]) /\ m = <<m[1], m[2]>>
  BY <1>2 DEF Message, Call, Size
<1>3. \A c \in Call : \A i \in 1..Size(c) : <<c, i>> \in Message
  BY DEF Message, Call, Size
<1> QED
  BY <1>1, <1>2, <1>3

(* A write adds its message to the transport, or nothing. *)
LEMMA PublishingDoes ==
    ASSUME TypeOK, NEW m \in Message, NEW result, Publishing(m, result)
    PROVE  /\ published \subseteq published' /\ published' \subseteq published \cup {m}
           /\ result = "written" => m \in published'
           /\ queue' \subseteq Message /\ published' \subseteq Message
           /\ buf' \subseteq Row /\ faults' \in 0..MaxFaults
<1>1. <<m, "queued">> \in Row /\ <<m, "queueing">> \in Row
  BY DEF Row, Kind
<1>2. buf' \subseteq Row
  BY <1>1 DEF Publishing, Records, Wanted, TypeOK
<1>3. faults' \in 0..MaxFaults
  BY DEF Publishing, Fault, TypeOK
<1> QED
  BY <1>2, <1>3 DEF Publishing, TypeOK

(* A chunk that cannot be serialised reaches no transport. *)
LEMMA UnserialisableDoes ==
    ASSUME TypeOK, NEW m \in Message, Unserialisable(m)
    PROVE  /\ UNCHANGED <<queue, published>>
           /\ buf' \subseteq Row /\ faults' \in 0..MaxFaults
<1>1. <<m, "serialising">> \in Row
  BY DEF Row, Kind
<1>2. buf' \subseteq Row
  BY <1>1 DEF Unserialisable, Records, Wanted, TypeOK
<1>3. faults' \in 0..MaxFaults
  BY DEF Unserialisable, Fault, TypeOK
<1> QED
  BY <1>2, <1>3 DEF Unserialisable

(* A call that goes on to its next chunk, or ends with this one. *)
LEMMA ReachesDoes ==
    ASSUME TypeOK, NEW c \in Call, next[c] <= Size(c), NEW state \in CallState, Reaches(c, state)
    PROVE  /\ at' \in [Call -> CallState] /\ next' \in [Call -> 1..Chunks + 1]
           /\ \A d \in Call \ {c} : at'[d] = at[d] /\ next'[d] = next[d]
           /\ next'[c] = next[c] + 1 /\ at'[c] \in {state, "returned"}
           /\ at'[c] # "returned" => next'[c] <= Size(c)
<1>1. Size(c) \in 1..Chunks
  BY MessageIs
<1>2. Chunks \in Nat /\ next[c] \in Nat /\ next[c] >= 1 /\ Size(c) \in Nat
  BY <1>1 DEF TypeOK
<1>3. next[c] + 1 \in 1..Chunks + 1 /\ (next[c] # Size(c) => next[c] + 1 <= Size(c))
  BY <1>1, <1>2
<1>4. next' \in [Call -> 1..Chunks + 1] /\ next'[c] = next[c] + 1
      /\ \A d \in Call \ {c} : next'[d] = next[d]
  BY <1>3 DEF Reaches, TypeOK
<1>5. "returned" \in CallState
  BY DEF CallState
<1>6. /\ at' \in [Call -> CallState] /\ \A d \in Call \ {c} : at'[d] = at[d]
      /\ at'[c] = IF next[c] = Size(c) THEN "returned" ELSE state
  BY <1>5 DEF Reaches, Becomes, TypeOK
<1> QED
  BY <1>3, <1>4, <1>6

(* What writing where it stands does to a call: it is over, by an exception *)
(* or with its last chunk, or past a chunk that is now in the transport.   *)
Wrote(c, state) ==
    /\ at' \in [Call -> CallState] /\ next' \in [Call -> 1..Chunks + 1]
    /\ \A d \in Call \ {c} : at'[d] = at[d] /\ next'[d] = next[d]
    /\ published \subseteq published' /\ published' \subseteq published \cup {<<c, next[c]>>}
    /\ at'[c] \in {state, "returned", "raised"} /\ next'[c] <= Size(c) + 1
    /\ at'[c] = state =>
          next'[c] = next[c] + 1 /\ next'[c] <= Size(c) /\ <<c, next[c]>> \in published'
    /\ queue' \subseteq Message /\ published' \subseteq Message
    /\ buf' \subseteq Row /\ faults' \in 0..MaxFaults

(* That is what a write at once comes to, with either twin. *)
LEMMA QueueingDoes ==
    ASSUME IInv, NEW c \in Call, next[c] <= Size(c),
           NEW state \in {"open", "async"}, Queueing(c, state)
    PROVE  Wrote(c, state)
<1> DEFINE m == <<c, next[c]>>
<1>1. TypeOK /\ next[c] \in 1..Size(c)
  BY MessageIs DEF IInv, TypeOK
<1>2. m \in Message
  BY <1>1, MessageIs
<1>3. next[c] <= Size(c) + 1 /\ "raised" # state
  BY <1>1, MessageIs
<1>4. CASE Unserialisable(m) /\ Becomes(c, "raised") /\ UNCHANGED next
  <2>1. /\ at' \in [Call -> CallState] /\ at'[c] = "raised"
        /\ \A d \in Call \ {c} : at'[d] = at[d]
    BY <1>1, <1>4 DEF Becomes, TypeOK, CallState
  <2>2. UNCHANGED <<queue, published>> /\ buf' \subseteq Row /\ faults' \in 0..MaxFaults
    BY <1>1, <1>2, <1>4, UnserialisableDoes
  <2> QED
    BY <1>1, <1>3, <1>4, <2>1, <2>2 DEF Wrote, TypeOK
<1>5. ASSUME Publishing(m, "written"), Reaches(c, state)
      PROVE  Wrote(c, state)
  <2>1. state \in CallState
    BY DEF CallState
  <2>2. /\ at' \in [Call -> CallState] /\ next' \in [Call -> 1..Chunks + 1]
        /\ \A d \in Call \ {c} : at'[d] = at[d] /\ next'[d] = next[d]
        /\ next'[c] = next[c] + 1 /\ at'[c] \in {state, "returned"}
        /\ at'[c] # "returned" => next'[c] <= Size(c)
    BY <1>1, <1>5, <2>1, ReachesDoes
  <2>3. next'[c] <= Size(c) + 1
    BY <1>1, <2>2, MessageIs
  <2>4. /\ published \subseteq published' /\ published' \subseteq published \cup {m} /\ m \in published'
        /\ queue' \subseteq Message /\ published' \subseteq Message
        /\ buf' \subseteq Row /\ faults' \in 0..MaxFaults
    BY <1>1, <1>2, <1>5, PublishingDoes
  <2> QED
    BY <2>2, <2>3, <2>4 DEF Wrote
<1>6. ASSUME NEW result, Publishing(m, result), Becomes(c, "raised"), UNCHANGED next
      PROVE  Wrote(c, state)
  <2>1. /\ at' \in [Call -> CallState] /\ at'[c] = "raised"
        /\ \A d \in Call \ {c} : at'[d] = at[d]
    BY <1>1, <1>6 DEF Becomes, TypeOK, CallState
  <2>2. /\ published \subseteq published' /\ published' \subseteq published \cup {m}
        /\ queue' \subseteq Message /\ published' \subseteq Message
        /\ buf' \subseteq Row /\ faults' \in 0..MaxFaults
    BY <1>1, <1>2, <1>6, PublishingDoes
  <2> QED
    BY <1>1, <1>3, <1>6, <2>1, <2>2 DEF Wrote, TypeOK
<1> QED
  BY <1>4, <1>5, <1>6 DEF Queueing

-----------------------------------------------------------------------------
(* The steps *)

(* A write at once keeps the invariant: its call is on no hook and in no   *)
(* block, and the chunks before this one are in the transport.             *)
LEMMA WriteKeeps ==
    ASSUME IInv, NEW c \in Call, at[c] \in {"idle", "open", "async"},
           NEW state \in {"open", "async"}, block = "committing" => state = "async",
           Queueing(c, state), inside' = inside,
           UNCHANGED <<settings, block, blocks, hooks, hookNext, undone, unhooked, worker, feed>>
    PROVE  IInv'
<1>1. TypeOK /\ next[c] \in 1..Size(c) /\ next[c] \in Nat
  BY MessageIs DEF IInv, CallsHold, TypeOK
<1>2. Wrote(c, state)
  BY <1>1, QueueingDoes
<1>3. TypeOK'
  BY <1>1, <1>2 DEF Wrote, TypeOK, settings, worker
<1>4. \A i \in 1..next[c] - 1 : <<c, i>> \in published
  BY <1>1 DEF IInv, CallsHold
<1>5. CallsHold'
  <2> SUFFICES ASSUME NEW d \in Call PROVE CallsHold!(d)'
    BY DEF CallsHold
  <2>1. CASE d # c
    <3>1. /\ at'[d] = at[d] /\ next'[d] = next[d]
          /\ \A m \in published' : m \in published \/ m = <<c, next[c]>>
      BY <1>2, <2>1 DEF Wrote
    <3>2. published \subseteq published'
      BY <1>2 DEF Wrote
    <3> QED
      BY <2>1, <3>1, <3>2 DEF IInv, CallsHold, Size
  <2>2. CASE d = c
    <3>1. at'[c] \in {state, "returned", "raised"} /\ next'[c] <= Size(c) + 1
      BY <1>2 DEF Wrote
    <3>2. ASSUME at'[c] = state
          PROVE  next'[c] <= Size(c) /\ \A i \in 1..next'[c] - 1 : <<c, i>> \in published'
      <4>1. /\ next'[c] = next[c] + 1 /\ next'[c] <= Size(c)
            /\ <<c, next[c]>> \in published' /\ published \subseteq published'
        BY <1>2, <3>2 DEF Wrote
      <4>2. \A i \in 1..next'[c] - 1 : i \in 1..next[c] - 1 \/ i = next[c]
        BY <1>1, <4>1
      <4> QED
        BY <1>4, <4>1, <4>2
    <3> QED
      BY <2>2, <3>1, <3>2 DEF Size
  <2> QED
    BY <2>1, <2>2
<1>6. BlocksHold'
  <2>1. c \notin inside \cup undone /\ inside \subseteq Call /\ undone \subseteq Call
    BY <1>1 DEF IInv, BlocksHold, TypeOK
  <2>2. \A d \in inside \cup undone : at'[d] = at[d]
    BY <1>2, <2>1 DEF Wrote
  <2>3. block = "committing" => \A d \in Call : at'[d] \notin {"open", "held"}
    BY <1>2 DEF IInv, BlocksHold, Wrote
  <2> QED
    BY <2>2, <2>3 DEF IInv, BlocksHold
<1>7. \A i \in 1..Len(hooks) : hooks[i] \in Call /\ hooks[i] # c
  <2>1. hooks \in Seq(Call)
    BY DEF IInv, TypeOK
  <2>2. \A i \in 1..Len(hooks) : hooks[i] \in Call
    BY <2>1
  <2>3. \A i \in 1..Len(hooks) : at[hooks[i]] \in {"held", "returned", "raised"}
    BY DEF IInv, HooksHold
  <2> QED
    BY <2>2, <2>3
<1>8. HooksHold'
  <2>1. \A i \in 1..Len(hooks) : at'[hooks[i]] = at[hooks[i]]
    BY <1>2, <1>7 DEF Wrote
  <2>2. block = "committing" => Head(hooks) \in Call \ {c}
    <3>1. hooks # <<>> => Len(hooks) \in Nat /\ Len(hooks) # 0 /\ Head(hooks) = hooks[1]
      BY <1>1, EmptySeq, HeadTailProperties DEF TypeOK
    <3> QED
      BY <1>7, <3>1 DEF IInv, HooksHold
  <2>3. block = "committing" => next'[Head(hooks)] = next[Head(hooks)]
    BY <1>2, <2>2 DEF Wrote
  <2>4. published \subseteq published'
    BY <1>2 DEF Wrote
  <2> QED
    BY <2>1, <2>3, <2>4 DEF IInv, HooksHold, Held
<1>9. AnnouncedAfterCommit'
  <2>1. c \notin inside \cup undone
    BY DEF IInv, BlocksHold
  <2>2. \A m \in published' : m \in published \/ m = <<c, next[c]>>
    BY <1>2 DEF Wrote
  <2> QED
    BY <2>1, <2>2 DEF IInv, AnnouncedAfterCommit
<1>10. StopsWhereItFails'
  <2> SUFFICES ASSUME NEW m \in published', NEW i \in 1..m[2] PROVE <<m[1], i>> \in published'
    BY DEF StopsWhereItFails
  <2>1. published \subseteq published' /\ (m \in published \/ m = <<c, next[c]>>)
    BY <1>2 DEF Wrote
  <2>2. CASE m \in published
    BY <2>1, <2>2 DEF IInv, StopsWhereItFails
  <2>3. CASE m = <<c, next[c]>> /\ m \notin published
    <3>1. i \in 1..next[c] - 1 \/ i = next[c]
      BY <1>1, <2>3
    <3> QED
      BY <1>4, <2>1, <2>3, <3>1
  <2> QED
    BY <2>1, <2>2, <2>3
<1> QED
  BY <1>3, <1>5, <1>6, <1>8, <1>9, <1>10 DEF IInv

(* A step that only moves a call, and not back to where it writes at once. *)
LEMMA MoveKeeps ==
    ASSUME IInv, NEW c \in Call, at[c] \in {"idle", "held"},
           NEW state \in CallState \ {"idle"}, Becomes(c, state),
           at[c] = "held" => state \in {"held", "returned", "raised"},
           block = "committing" => state \notin {"open", "held"},
           UNCHANGED <<block, blocks, hooks, next, hookNext, inside, undone, unhooked, published>>,
           TypeOK'
    PROVE  IInv'
<1>1. TypeOK /\ at'[c] = state /\ \A d \in Call \ {c} : at'[d] = at[d]
  BY DEF IInv, TypeOK, Becomes
<1>2. /\ next[c] <= Size(c) + 1
      /\ state \in {"open", "held", "async"} => next[c] <= Size(c)
      /\ state \in {"open", "async"} => next[c] = 1
  BY DEF IInv, CallsHold
<1>3. CallsHold'
  <2>1. \A d \in Call \ {c} : CallsHold!(d)'
    BY <1>1 DEF IInv, CallsHold, Size
  <2>2. state \in {"open", "async"} => \A i \in 1..next[c] - 1 : FALSE
    BY <1>2
  <2>3. CallsHold!(c)'
    BY <1>1, <1>2, <2>2 DEF Size
  <2> QED
    BY <2>1, <2>3 DEF CallsHold
<1>4. BlocksHold'
  <2>1. inside \subseteq Call /\ undone \subseteq Call
    BY <1>1 DEF TypeOK
  <2> QED
    BY <1>1, <2>1 DEF IInv, BlocksHold
<1>5. HooksHold'
  <2>1. \A i \in 1..Len(hooks) : hooks[i] \in Call
    BY <1>1 DEF TypeOK
  <2> QED
    BY <1>1, <2>1 DEF IInv, HooksHold, Held
<1> QED
  BY <1>3, <1>4, <1>5 DEF IInv, AnnouncedAfterCommit, StopsWhereItFails

(* A call on a hook, or that ends before it gets on one: the open block    *)
(* has not committed, and of a call that joins it nothing is published.    *)
LEMMA HoldKeeps ==
    ASSUME IInv, NEW c \in Call,
           \/ at[c] = "idle" /\ Deferred /\ inside' = inside \cup {c}
           \/ at[c] = "held" /\ hooks' = hooks /\ inside' = inside,
           hooks' \in {hooks, Append(hooks, c)},
           \A d \in Call \ {c} : at'[d] = at[d] /\ next'[d] = next[d],
           at'[c] \in {"held", "returned", "raised"}, next'[c] <= Size(c) + 1,
           at'[c] = "held" => next'[c] <= Size(c),
           UNCHANGED <<block, hookNext, undone, published>>,
           TypeOK'
    PROVE  IInv'
<1>1. TypeOK /\ hooks \in Seq(Call) /\ inside \subseteq Call /\ undone \subseteq Call
  BY DEF IInv, TypeOK
<1>2. CallsHold'
  <2>1. \A d \in Call \ {c} : CallsHold!(d)'
    BY <1>1 DEF IInv, CallsHold, Size
  <2>2. CallsHold!(c)'
    BY DEF Size
  <2> QED
    BY <2>1, <2>2 DEF CallsHold
<1>3. c \notin undone /\ block # "committing"
  BY DEF IInv, BlocksHold, Deferred, WillCommit
<1>4. BlocksHold'
  BY <1>1, <1>3 DEF IInv, BlocksHold, Deferred, WillCommit
<1>5. HooksHold'
  <2>1. \A i \in 1..Len(hooks') : hooks'[i] = c \/ \E j \in 1..Len(hooks) : hooks'[i] = hooks[j]
    <3>1. CASE hooks' = hooks
      BY <3>1
    <3>2. CASE hooks' = Append(hooks, c)
      <4>1. /\ Len(hooks) \in Nat /\ Len(hooks') = Len(hooks) + 1 /\ hooks'[Len(hooks) + 1] = c
            /\ \A i \in 1..Len(hooks) : hooks'[i] = hooks[i]
        BY <1>1, <3>2
      <4>2. \A i \in 1..Len(hooks') : i \in 1..Len(hooks) \/ i = Len(hooks) + 1
        BY <4>1
      <4> QED
        BY <4>1, <4>2
    <3> QED
      BY <3>1, <3>2
  <2>2. \A i \in 1..Len(hooks) : hooks[i] \in Call
    BY <1>1
  <2>3. \A i \in 1..Len(hooks') : at'[hooks'[i]] \in {"held", "returned", "raised"}
                                  /\ hooks'[i] \notin undone
    BY <1>3, <2>1, <2>2 DEF IInv, HooksHold
  <2>4. hooks' # <<>> => block = "atomic"
    BY <1>3 DEF IInv, HooksHold, Deferred, WillCommit
  <2> QED
    BY <1>3, <2>3, <2>4 DEF IInv, HooksHold
<1>6. AnnouncedAfterCommit'
  <2>1. at[c] = "idle" => \A m \in published : m[1] # c
    BY DEF IInv, CallsHold
  <2> QED
    BY <2>1 DEF IInv, AnnouncedAfterCommit
<1> QED
  BY <1>2, <1>4, <1>5, <1>6 DEF IInv, StopsWhereItFails

(* The calls *)

(* A disabled bot, a send past the queue, and an awaiting fan-out's start  *)
(* write nothing.                                                          *)
LEMMA QuietCallKeeps ==
    ASSUME IInv, NEW c \in Call, Skipped(c) \/ SendDirect(c) \/ ASendManyStarts(c)
    PROVE  IInv'
<1> USE DEF settings, worker
<1>1. TypeOK /\ next[c] \in 1..Chunks + 1
  BY DEF IInv, TypeOK
<1>2. ASSUME Skipped(c) \/ ASendManyStarts(c) PROVE TypeOK'
  BY <1>1, <1>2 DEF Skipped, ASendManyStarts, Becomes, TypeOK, CallState
<1>3. ASSUME SendDirect(c) PROVE TypeOK'
  <2>1. at' \in [Call -> CallState]
    BY <1>1, <1>3 DEF SendDirect, Becomes, TypeOK, CallState
  <2>2. send' \in [Message -> {None, "sending", "ended"}]
    BY <1>1, <1>3 DEF SendDirect, SendRaw, Sends, TypeOK
  <2> QED
    BY <1>1, <1>3, <2>1, <2>2 DEF SendDirect, TypeOK
<1>4. CASE Skipped(c)
  <2>1. Becomes(c, "skipped") /\ at[c] = "idle"
    BY <1>4 DEF Skipped
  <2> QED
    BY <1>2, <1>4, <2>1, MoveKeeps DEF Skipped, CallState
<1>5. CASE ASendManyStarts(c)
  <2>1. Becomes(c, "async") /\ at[c] = "idle"
    BY <1>5 DEF ASendManyStarts
  <2> QED
    BY <1>2, <1>5, <2>1, MoveKeeps DEF ASendManyStarts, CallState
<1>6. CASE SendDirect(c)
  <2>1. at[c] = "idle" /\ (Becomes(c, "returned") \/ Becomes(c, "skipped"))
    BY <1>6 DEF SendDirect
  <2> QED
    BY <1>3, <1>6, <2>1, MoveKeeps DEF SendDirect, CallState
<1> QED
  BY <1>4, <1>5, <1>6

(* The calls that write at once, outside a block that will commit. *)
LEMMA WritingCallKeeps ==
    ASSUME IInv, NEW c \in Call,
           \/ Enqueue(c) /\ ~Deferred
           \/ AEnqueue(c) \/ SendManyWrites(c) \/ ASendManyWrites(c)
    PROVE  IInv'
<1>1. CASE Enqueue(c) /\ ~Deferred
  <2>1. /\ at[c] = "idle" /\ block # "committing" /\ Queueing(c, "open") /\ inside' = inside
        /\ UNCHANGED <<settings, block, blocks, hooks, hookNext, undone, unhooked, worker, feed>>
    BY <1>1 DEF Enqueue, Free, Joins, Deferred, WillCommit
  <2> QED
    BY <2>1, WriteKeeps
<1>2. CASE AEnqueue(c)
  BY <1>2, WriteKeeps DEF AEnqueue
<1>3. CASE SendManyWrites(c)
  <2>1. at[c] = "open" /\ block # "committing"
    BY <1>3 DEF SendManyWrites, WritesChunk, IInv, BlocksHold
  <2> QED
    BY <1>3, <2>1, WriteKeeps DEF SendManyWrites, WritesChunk
<1>4. CASE ASendManyWrites(c)
  BY <1>4, WriteKeeps DEF ASendManyWrites, WritesChunk
<1> QED
  BY <1>1, <1>2, <1>3, <1>4

(* enqueue on the hook of a block that will commit. *)
LEMMA EnqueueHolds ==
    ASSUME IInv, NEW c \in Call, Enqueue(c), Deferred
    PROVE  IInv'
<1> USE DEF settings, worker
<1>1. TypeOK /\ at[c] = "idle" /\ next[c] = 1 /\ c \in Single /\ Size(c) = 1
  BY DEF IInv, CallsHold, Enqueue, Size, Call
<1>2. inside' = inside \cup {c} /\ UNCHANGED <<block, hookNext, undone>>
  BY DEF Enqueue, Joins, Deferred, WillCommit
<1>3. CASE Unserialisable(<<c, 1>>) /\ Becomes(c, "raised") /\ UNCHANGED <<hooks, next>>
  <2>1. <<c, 1>> \in Message
    BY <1>1, MessageIs
  <2>2. UNCHANGED <<queue, published>> /\ buf' \subseteq Row /\ faults' \in 0..MaxFaults
    BY <1>1, <1>3, <2>1, UnserialisableDoes
  <2>3. /\ at' \in [Call -> CallState] /\ at'[c] = "raised"
        /\ \A d \in Call \ {c} : at'[d] = at[d]
    BY <1>1, <1>3 DEF Becomes, TypeOK, CallState
  <2>4. TypeOK'
    BY <1>1, <1>2, <1>3, <2>2, <2>3 DEF Enqueue, TypeOK
  <2>5. next'[c] <= Size(c) + 1
    BY <1>1, <1>3
  <2> QED
    BY <1>1, <1>2, <1>3, <2>2, <2>3, <2>4, <2>5, HoldKeeps
<1>4. CASE /\ hooks' = Append(hooks, c) /\ Reaches(c, "held")
           /\ UNCHANGED <<queue, published, buf, faults>>
  <2>1. /\ at' \in [Call -> CallState] /\ next' \in [Call -> 1..Chunks + 1]
        /\ \A d \in Call \ {c} : at'[d] = at[d] /\ next'[d] = next[d]
        /\ next'[c] = next[c] + 1 /\ at'[c] \in {"held", "returned"}
        /\ at'[c] # "returned" => next'[c] <= Size(c)
    BY <1>1, <1>4, ReachesDoes DEF CallState
  <2>2. hooks' \in Seq(Call)
    BY <1>1, <1>4 DEF TypeOK
  <2>3. TypeOK'
    BY <1>1, <1>2, <1>4, <2>1, <2>2 DEF Enqueue, TypeOK
  <2>4. next'[c] <= Size(c) + 1
    BY <1>1, <2>1
  <2> QED
    BY <1>1, <1>2, <1>4, <2>1, <2>3, <2>4, HoldKeeps
<1> QED
  BY <1>3, <1>4 DEF Enqueue

(* send_many's decision, once for the batch. *)
LEMMA SendManyStartsKeeps ==
    ASSUME IInv, NEW c \in Call, SendManyStarts(c)
    PROVE  IInv'
<1> USE DEF settings, worker
<1>1. TypeOK /\ at[c] = "idle" /\ next[c] = 1 /\ next[c] <= Size(c) /\ block # "committing"
  BY DEF IInv, CallsHold, SendManyStarts, Free
<1>2. /\ at' \in [Call -> CallState] /\ at'[c] = IF Deferred THEN "held" ELSE "open"
      /\ \A d \in Call \ {c} : at'[d] = at[d]
  BY <1>1 DEF SendManyStarts, Becomes, TypeOK, CallState
<1>3. hooks' \in Seq(Call) /\ inside' \subseteq Call
  <2>1. hooks' \in {hooks, Append(hooks, c)} /\ inside' \in {inside, inside \cup {c}}
    BY DEF SendManyStarts, Joins
  <2>2. hooks \in Seq(Call) /\ inside \subseteq Call
    BY <1>1 DEF TypeOK
  <2> QED
    BY <2>1, <2>2
<1>4. TypeOK'
  BY <1>1, <1>2, <1>3 DEF SendManyStarts, TypeOK
<1>5. CASE Deferred
  <2>1. inside' = inside \cup {c} /\ hooks' = Append(hooks, c) /\ at'[c] = "held"
        /\ UNCHANGED <<block, hookNext, undone, published, next>>
    BY <1>2, <1>5 DEF SendManyStarts, Joins, Deferred, WillCommit
  <2>2. next'[c] <= Size(c) /\ next'[c] <= Size(c) + 1
    BY <1>1, <2>1, MessageIs
  <2> QED
    BY <1>1, <1>2, <1>4, <1>5, <2>1, <2>2, HoldKeeps
<1>6. CASE ~Deferred
  <2>1. inside' = inside /\ hooks' = hooks /\ Becomes(c, "open")
    BY <1>6 DEF SendManyStarts, Joins, Deferred, WillCommit
  <2>2. "open" \in CallState \ {"idle"}
    BY DEF CallState
  <2> QED
    BY <1>1, <1>4, <2>1, <2>2, MoveKeeps DEF SendManyStarts
<1> QED
  BY <1>5, <1>6

(* One more chunk on the hook that already exists. *)
LEMMA SendManyHoldsKeeps ==
    ASSUME IInv, NEW c \in Call, SendManyHolds(c)
    PROVE  IInv'
<1> USE DEF settings, worker
<1>1. TypeOK /\ at[c] = "held" /\ next[c] \in 1..Size(c)
  <2>1. TypeOK /\ at[c] = "held" /\ next[c] <= Size(c)
    BY DEF IInv, CallsHold, SendManyHolds
  <2>2. next[c] \in 1..Chunks + 1
    BY <2>1 DEF TypeOK
  <2> QED
    BY <2>1, <2>2, MessageIs
<1>2. UNCHANGED <<hooks, inside, block, hookNext, undone>>
  BY DEF SendManyHolds
<1>3. CASE Unserialisable(<<c, next[c]>>) /\ Becomes(c, "raised") /\ UNCHANGED next
  <2>1. UNCHANGED <<queue, published>> /\ buf' \subseteq Row /\ faults' \in 0..MaxFaults
    BY <1>1, <1>3, MessageIs, UnserialisableDoes
  <2>2. /\ at' \in [Call -> CallState] /\ at'[c] = "raised"
        /\ \A d \in Call \ {c} : at'[d] = at[d]
    BY <1>1, <1>3 DEF Becomes, TypeOK, CallState
  <2>3. TypeOK'
    BY <1>1, <1>3, <2>1, <2>2 DEF SendManyHolds, TypeOK
  <2>4. next'[c] <= Size(c) + 1
    BY <1>1, <1>3, MessageIs
  <2> QED
    BY <1>1, <1>2, <1>3, <2>1, <2>2, <2>3, <2>4, HoldKeeps
<1>4. CASE Reaches(c, "held") /\ UNCHANGED <<queue, published, buf, faults>>
  <2>1. /\ at' \in [Call -> CallState] /\ next' \in [Call -> 1..Chunks + 1]
        /\ \A d \in Call \ {c} : at'[d] = at[d] /\ next'[d] = next[d]
        /\ next'[c] = next[c] + 1 /\ at'[c] \in {"held", "returned"}
        /\ at'[c] # "returned" => next'[c] <= Size(c)
    BY <1>1, <1>4, ReachesDoes DEF CallState
  <2>2. TypeOK'
    BY <1>1, <1>4, <2>1 DEF SendManyHolds, TypeOK
  <2>3. next'[c] <= Size(c) + 1
    BY <1>1, <2>1, MessageIs
  <2> QED
    BY <1>1, <1>2, <1>4, <2>1, <2>2, <2>3, HoldKeeps
<1> QED
  BY <1>3, <1>4 DEF SendManyHolds

(* The blocks *)

(* A block opens, commits, so that nothing of it is held back any longer,  *)
(* or is rolled back, so that none of its calls is on a hook.              *)
LEMMA BlocksKeep ==
    ASSUME IInv, Blocks
    PROVE  IInv'
<1> USE DEF settings, worker
<1>1. TypeOK /\ inside \subseteq Call /\ hooks \in Seq(Call)
  BY DEF IInv, TypeOK
<1>2. ASSUME NEW kind \in {"atomic", "manual"}, EnterBlock(kind) PROVE IInv'
  <2>1. TypeOK'
    BY <1>1, <1>2 DEF EnterBlock, TypeOK
  <2>2. CallsHold' /\ AnnouncedAfterCommit' /\ StopsWhereItFails'
    BY <1>2 DEF EnterBlock, IInv, CallsHold, Size, AnnouncedAfterCommit, StopsWhereItFails
  <2>3. BlocksHold'
    BY <1>2 DEF EnterBlock, IInv, BlocksHold, None
  <2>4. HooksHold'
    BY <1>2 DEF EnterBlock, IInv, HooksHold, None
  <2> QED
    BY <2>1, <2>2, <2>3, <2>4 DEF IInv
<1>3. ASSUME Commit PROVE IInv'
  <2>1. TypeOK'
    BY <1>1, <1>3 DEF Commit, TypeOK
  <2>2. CallsHold' /\ AnnouncedAfterCommit' /\ StopsWhereItFails'
    BY <1>3 DEF Commit, IInv, CallsHold, Size, AnnouncedAfterCommit, StopsWhereItFails
  <2>3. BlocksHold'
    BY <1>3 DEF Commit, Free, IInv, BlocksHold
  <2>4. HooksHold'
    BY <1>3 DEF Commit, IInv, HooksHold, None, Held
  <2> QED
    BY <2>1, <2>2, <2>3, <2>4 DEF IInv
<1>4. ASSUME Rollback PROVE IInv'
  <2>1. TypeOK'
    BY <1>1, <1>4 DEF Rollback, TypeOK
  <2>2. CallsHold' /\ AnnouncedAfterCommit' /\ StopsWhereItFails'
    BY <1>4 DEF Rollback, IInv, CallsHold, Size, AnnouncedAfterCommit, StopsWhereItFails
  <2>3. BlocksHold'
    BY <1>1, <1>4 DEF Rollback, Free, IInv, BlocksHold, None
  <2>4. HooksHold'
    <3>1. Len(hooks') = 0 /\ hooks' = <<>> /\ block' = None /\ hookNext' = 1
      BY <1>4 DEF Rollback, IInv, HooksHold
    <3> QED
      BY <3>1 DEF HooksHold, None
  <2> QED
    BY <2>1, <2>2, <2>3, <2>4 DEF IInv
<1> QED
  BY <1>2, <1>3, <1>4 DEF Blocks

(* What a step of the running hook publishes, and where it goes on. *)
LEMMA HookDoes ==
    ASSUME IInv, HookPublishes
    PROVE  LET c == Head(hooks) m == <<c, hookNext>> IN
           /\ c \in Call /\ c \notin undone /\ hooks \in Seq(Call) /\ Tail(hooks) \in Seq(Call)
           /\ published \subseteq published' /\ published' \subseteq published \cup {m}
           /\ \/ /\ hooks' \in {Tail(hooks), <<>>} /\ hookNext' = 1
              \/ /\ hooks' = hooks /\ hookNext' = hookNext + 1 /\ hookNext' <= Held(c)
                 /\ m \in published'
           /\ queue' \subseteq Message /\ published' \subseteq Message
           /\ buf' \subseteq Row /\ faults' \in 0..MaxFaults /\ unhooked' \subseteq Call
<1> DEFINE c == Head(hooks)
<1> DEFINE m == <<c, hookNext>>
<1>1. TypeOK /\ hooks \in Seq(Call) /\ hooks # <<>> /\ block = "committing"
  BY DEF IInv, TypeOK, HookPublishes
<1>2. /\ c \in Call /\ Tail(hooks) \in Seq(Call) /\ Len(hooks) \in Nat
      /\ Len(hooks) # 0 /\ c = hooks[1]
  BY <1>1, EmptySeq, HeadTailProperties
<1>3. c \notin undone
  BY <1>2 DEF IInv, HooksHold
<1>4. {hooks[i] : i \in 2..Len(hooks)} \subseteq Call
  BY <1>1, <1>2
<1>5. next[c] \in Nat /\ next[c] <= Size(c) + 1 /\ Size(c) \in Nat /\ hookNext \in Nat \ {0}
  <2>1. next[c] \in 1..Chunks + 1 /\ hookNext \in 1..Chunks
    BY <1>1, <1>2 DEF TypeOK
  <2>2. next[c] <= Size(c) + 1
    BY <1>2 DEF IInv, CallsHold
  <2> QED
    BY <1>2, <2>1, <2>2, MessageIs
<1>6. CASE Held(c) = 0 /\ hookNext' = 1 /\ hooks' = Tail(hooks) /\ UNCHANGED unhooked
           /\ UNCHANGED <<queue, published, buf, faults>>
  BY <1>1, <1>2, <1>3, <1>6 DEF TypeOK
<1>7. CASE Held(c) > 0
  <2>1. hookNext <= Held(c) /\ Held(c) <= Size(c) /\ Held(c) \in Nat
    BY <1>1, <1>5, <1>7 DEF IInv, HooksHold, Held
  <2>2. m \in Message
    <3>1. hookNext \in 1..Size(c)
      BY <1>5, <2>1
    <3> QED
      BY <1>2, <3>1, MessageIs
  <2>3. PICK result \in {"written", "refused", "unsure"} :
          /\ Publishing(m, result)
          /\ IF result = "written"
             THEN IF hookNext = Held(c) THEN hookNext' = 1 /\ hooks' = Tail(hooks) /\ UNCHANGED unhooked
                  ELSE hookNext' = hookNext + 1 /\ UNCHANGED <<hooks, unhooked>>
             ELSE IF ~raises THEN hookNext' = 1 /\ hooks' = Tail(hooks) /\ UNCHANGED unhooked
                  ELSE /\ hookNext' = 1 /\ hooks' = <<>>
                       /\ unhooked' = unhooked \cup {hooks[i] : i \in 2..Len(hooks)}
    BY <1>7 DEF HookPublishes
  <2>4. /\ published \subseteq published' /\ published' \subseteq published \cup {m}
        /\ result = "written" => m \in published'
        /\ queue' \subseteq Message /\ published' \subseteq Message
        /\ buf' \subseteq Row /\ faults' \in 0..MaxFaults
    BY <1>1, <2>2, <2>3, PublishingDoes
  <2>5. unhooked' \subseteq Call
    BY <1>1, <1>4, <2>3 DEF TypeOK
  <2>6. result = "written" /\ hookNext # Held(c) => hookNext + 1 <= Held(c)
    BY <1>5, <2>1
  <2>7. \/ hooks' \in {Tail(hooks), <<>>} /\ hookNext' = 1
        \/ hooks' = hooks /\ hookNext' = hookNext + 1 /\ hookNext' <= Held(c) /\ m \in published'
    BY <2>3, <2>4, <2>6
  <2> QED
    BY <1>1, <1>2, <1>3, <2>4, <2>5, <2>7
<1> QED
  BY <1>6, <1>7 DEF HookPublishes

(* A step of the running hook keeps the invariant: its call was not rolled *)
(* back, and the chunks before this one are in the transport.              *)
LEMMA HookKeeps ==
    ASSUME IInv, HookPublishes
    PROVE  IInv'
<1> DEFINE c == Head(hooks)
<1> DEFINE m == <<c, hookNext>>
<1>1. /\ c \in Call /\ c \notin undone /\ hooks \in Seq(Call) /\ Tail(hooks) \in Seq(Call)
      /\ published \subseteq published' /\ published' \subseteq published \cup {m}
      /\ queue' \subseteq Message /\ published' \subseteq Message
      /\ buf' \subseteq Row /\ faults' \in 0..MaxFaults /\ unhooked' \subseteq Call
  BY HookDoes
<1>2. \/ hooks' \in {Tail(hooks), <<>>} /\ hookNext' = 1
      \/ hooks' = hooks /\ hookNext' = hookNext + 1 /\ hookNext' <= Held(c) /\ m \in published'
  BY HookDoes
<1>3. /\ block = "committing" /\ hooks # <<>> /\ block' = IF hooks' = <<>> THEN None ELSE block
      /\ UNCHANGED <<settings, blocks, at, next, inside, undone, worker, feed>>
  BY DEF HookPublishes
<1>4. TypeOK /\ inside = {} /\ hookNext \in Nat \ {0} /\ next[c] \in 1..Chunks + 1
  BY <1>1, <1>3 DEF IInv, TypeOK, BlocksHold
<1>5. hookNext' \in 1..Chunks
  BY <1>1, <1>2, <1>4 DEF Held
<1>6. hooks' \in Seq(Call)
  <2>1. <<>> \in Seq(Call)
    OBVIOUS
  <2> QED
    BY <1>1, <1>2, <2>1
<1>7. TypeOK'
  BY <1>1, <1>3, <1>4, <1>5, <1>6 DEF TypeOK, settings, worker
<1>8. \A i \in 1..hookNext - 1 : <<c, i>> \in published
  BY <1>3 DEF IInv, HooksHold
<1>9. CallsHold'
  <2>1. c = hooks[1] /\ Len(hooks) \in Nat /\ Len(hooks) # 0
    BY <1>1, <1>3, EmptySeq, HeadTailProperties
  <2>2. at[c] \in {"held", "returned", "raised"}
    BY <2>1 DEF IInv, HooksHold
  <2>3. \A d \in Call : at[d] = "idle" => \A x \in published' : x[1] # d
    BY <1>1, <2>2 DEF IInv, CallsHold
  <2> QED
    BY <1>1, <1>3, <2>3 DEF IInv, CallsHold, Size
<1>10. BlocksHold'
  BY <1>3, <1>4 DEF IInv, BlocksHold, None
<1>11. HooksHold'
  <2>1. CASE hooks' = <<>>
    BY <1>2, <1>3, <2>1 DEF HooksHold, None
  <2>2. CASE hooks' = hooks /\ hookNext' = hookNext + 1 /\ hookNext' <= Held(c) /\ m \in published'
    <3>1. \A i \in 1..hookNext' - 1 : i \in 1..hookNext - 1 \/ i = hookNext
      BY <1>4, <2>2
    <3> QED
      BY <1>1, <1>3, <1>8, <2>2, <3>1 DEF IInv, HooksHold, Held, None
  <2>3. CASE hooks' = Tail(hooks) /\ hooks' # <<>> /\ hookNext' = 1
    <3>1. /\ Len(hooks) \in Nat /\ Len(hooks') = Len(hooks) - 1
          /\ \A i \in 1..Len(hooks') : hooks'[i] = hooks[i + 1] /\ i + 1 \in 1..Len(hooks)
      BY <1>1, <1>3, <2>3, EmptySeq, HeadTailProperties
    <3>2. block' = "committing"
      BY <1>3, <2>3
    <3> QED
      BY <1>3, <2>3, <3>1, <3>2 DEF IInv, HooksHold
  <2> QED
    BY <1>2, <2>1, <2>2, <2>3
<1>12. AnnouncedAfterCommit'
  BY <1>1, <1>3, <1>4 DEF IInv, AnnouncedAfterCommit
<1>13. StopsWhereItFails'
  <2> SUFFICES ASSUME NEW x \in published', NEW i \in 1..x[2] PROVE <<x[1], i>> \in published'
    BY DEF StopsWhereItFails
  <2>1. CASE x \in published
    BY <1>1, <2>1 DEF IInv, StopsWhereItFails
  <2>2. CASE x = m /\ x \notin published
    <3>1. i \in 1..hookNext - 1 \/ i = hookNext
      BY <1>4, <2>2
    <3> QED
      BY <1>1, <1>8, <2>2, <3>1
  <2> QED
    BY <1>1, <2>1, <2>2
<1> QED
  BY <1>7, <1>9, <1>10, <1>11, <1>12, <1>13 DEF IInv

(* The worker and the recorder *)

(* What they do is none of the callers' business. *)
LEMMA ElsewhereKeeps ==
    ASSUME IInv, UNCHANGED <<caller, published>>, TypeOK'
    PROVE  IInv'
<1>1. UNCHANGED <<block, hooks, at, next, hookNext, inside, undone, published>>
  BY DEF caller
<1>2. CallsHold'
  BY <1>1 DEF IInv, CallsHold, Size
<1>3. BlocksHold' /\ HooksHold'
  BY <1>1 DEF IInv, BlocksHold, HooksHold, Held
<1> QED
  BY <1>1, <1>2, <1>3 DEF IInv, AnnouncedAfterCommit, StopsWhereItFails

(* Rows that are written are rows. *)
LEMMA WritesDoes ==
    ASSUME TypeOK, NEW rows \in SUBSET Row, Writes(rows)
    PROVE  feed' \subseteq Row
  BY DEF Writes, Wanted, TypeOK

(* The worker, and the recorder's flush, keep the types. *)
LEMMA WorkerTypes ==
    ASSUME TypeOK, (\E m \in Message : Sending(m)) \/ Stop \/ Crash \/ Start \/ Flush
    PROVE  TypeOK' /\ UNCHANGED <<caller, published>>
<1> USE DEF settings, caller, worker
<1>1. ASSUME NEW m \in Message, NEW kind \in Kind PROVE <<m, kind>> \in Row
  BY DEF Row
<1>2. ASSUME NEW m \in Message, NEW state \in {None, "sending", "ended"}, Sends(m, state)
      PROVE  send' \in [Message -> {None, "sending", "ended"}]
  BY <1>2 DEF Sends, TypeOK
<1>3. ASSUME Fault PROVE faults' \in 0..MaxFaults
  BY <1>3 DEF Fault, TypeOK
<1>4. [m \in Message |-> None] \in [Message -> {None, "sending", "ended"}]
      /\ [m \in Message |-> 0] \in [Message -> 0..MaxRetries]
  OBVIOUS
<1>5. ASSUME NEW m \in Message, Take(m) PROVE TypeOK' /\ UNCHANGED <<caller, published>>
  <2>1. feed' \subseteq Row
    BY <1>1, <1>5, WritesDoes DEF Take, Kind
  <2>2. send' \in [Message -> {None, "sending", "ended"}]
    BY <1>2, <1>5 DEF Take, SendRaw, TypeOK
  <2> QED
    BY <1>5, <2>1, <2>2 DEF Take, TypeOK
<1>6. ASSUME NEW m \in Message, Attempt(m) PROVE TypeOK' /\ UNCHANGED <<caller, published>>
  <2>1. feed' \subseteq Row
    <3>1. \E rows \in SUBSET Row : Writes(rows)
      BY <1>1, <1>6 DEF Attempt, Kind
    <3> QED
      BY <3>1, WritesDoes
  <2>2. send' \in [Message -> {None, "sending", "ended"}]
    BY <1>2, <1>6 DEF Attempt, TypeOK
  <2>3. retries' \in [Message -> 0..MaxRetries]
    BY <1>6 DEF Attempt, TypeOK
  <2>4. faults' \in 0..MaxFaults
    BY <1>3, <1>6 DEF Attempt, TypeOK
  <2> QED
    BY <1>6, <2>1, <2>2, <2>3, <2>4 DEF Attempt, TypeOK
<1>7. ASSUME NEW m \in Message, Settle(m) PROVE TypeOK' /\ UNCHANGED <<caller, published>>
  <2>1. send' \in [Message -> {None, "sending", "ended"}]
    BY <1>2, <1>7 DEF Settle
  <2>2. retries' \in [Message -> 0..MaxRetries]
    BY <1>7 DEF Settle, TypeOK
  <2> QED
    BY <1>7, <2>1, <2>2 DEF Settle, TypeOK
<1>8. ASSUME Stop PROVE TypeOK' /\ UNCHANGED <<caller, published>>
  <2>1. {<<m, "NotScheduled">> : m \in Cancelled} \subseteq Row
    BY <1>1 DEF Cancelled, Kind
  <2>2. feed' \subseteq Row
    BY <1>8, <2>1, WritesDoes DEF Stop
  <2>3. faults' \in 0..MaxFaults
    BY <1>3, <1>8 DEF Stop
  <2> QED
    BY <1>8, <1>4, <2>2, <2>3 DEF Stop, TypeOK
<1>9. ASSUME Crash PROVE TypeOK' /\ UNCHANGED <<caller, published>>
  <2>1. faults' \in 0..MaxFaults
    BY <1>3, <1>9 DEF Crash
  <2>2. hurt' \subseteq Message
    BY <1>9 DEF Crash, TypeOK
  <2> QED
    BY <1>9, <1>4, <2>1, <2>2 DEF Crash, TypeOK
<1>10. ASSUME Start PROVE TypeOK' /\ UNCHANGED <<caller, published>>
  BY <1>10 DEF Start, TypeOK
<1>11. ASSUME Flush PROVE TypeOK' /\ UNCHANGED <<caller, published>>
  BY <1>11, WritesDoes DEF Flush, TypeOK
<1> QED
  BY <1>5, <1>6, <1>7, <1>8, <1>9, <1>10, <1>11 DEF Sending

-----------------------------------------------------------------------------
(* The invariant of calls, blocks and hooks *)

(* The invariant holds at first. *)
LEMMA InvInit == Init => IInv
<1> SUFFICES ASSUME Init PROVE IInv
  OBVIOUS
<1>1. TypeOK
  <2>1. at \in [Call -> CallState] /\ next \in [Call -> 1..Chunks + 1] /\ hookNext \in 1..Chunks
    BY DEF Init, CallState
  <2>2. transactional \in BOOLEAN /\ raises \in BOOLEAN /\ wants \subseteq Kind
    BY DEF Init
  <2>3. hooks \in Seq(Call) /\ send \in [Message -> {None, "sending", "ended"}]
        /\ retries \in [Message -> 0..MaxRetries]
    BY DEF Init
  <2> QED
    BY <2>1, <2>2, <2>3 DEF Init, TypeOK
<1>2. CallsHold
  BY <1>1, MessageIs DEF Init, CallsHold
<1>3. BlocksHold /\ HooksHold
  BY DEF Init, BlocksHold, HooksHold, None
<1> QED
  BY <1>1, <1>2, <1>3 DEF Init, IInv, AnnouncedAfterCommit, StopsWhereItFails

(* No step breaks it. *)
LEMMA InvNext == IInv /\ [Next]_vars => IInv'
<1> SUFFICES ASSUME IInv, [Next]_vars PROVE IInv'
  OBVIOUS
<1>1. ASSUME NEW c \in Call, Calling(c) PROVE IInv'
  BY <1>1, QuietCallKeeps, WritingCallKeeps, EnqueueHolds, SendManyStartsKeeps,
     SendManyHoldsKeeps DEF Calling
<1>2. CASE Blocks
  BY <1>2, BlocksKeep
<1>3. CASE HookPublishes
  BY <1>3, HookKeeps
<1>4. CASE (\E m \in Message : Sending(m)) \/ Stop \/ Crash \/ Start \/ Flush
  BY <1>4, WorkerTypes, ElsewhereKeeps DEF IInv
<1>5. CASE UNCHANGED vars
  <2>1. TypeOK' /\ UNCHANGED <<caller, published>>
    BY <1>5 DEF IInv, TypeOK, vars, caller, worker
  <2> QED
    BY <2>1, ElsewhereKeeps
<1> QED
  BY <1>1, <1>2, <1>3, <1>4, <1>5 DEF Next

-----------------------------------------------------------------------------
(* An answer is final: the invariant *)

Waits(c) == at[c] \in {"idle", "open", "held", "async"}
GaveUp(m) == Has(m, "failed") \/ Has(m, "max_retries")

(* A message is in the transport once, waiting or in flight, and one that  *)
(* is being sent is in flight, unless it never was in the transport.       *)
Once ==
    /\ queue \cup inflight \subseteq published /\ queue \cap inflight = {}
    /\ \A m \in Message : send[m] # None => m \notin queue /\ (m \in published => m \in inflight)
    /\ ~up => \A m \in Message : send[m] = None

(* What is in the transport lies behind where its call is, or its hook.    *)
Behind ==
    /\ \A m \in published : Waits(m[1]) => m[2] < next[m[1]]
    /\ \A m \in published : \A i \in 1..Len(hooks) :
          hooks[i] = m[1] => block = "committing" /\ i = 1 /\ m[2] < hookNext
    /\ \A i, j \in 1..Len(hooks) : hooks[i] = hooks[j] => i = j

(* What is sent, or was given up, without being in the transport was sent  *)
(* where its call stands, which is over.                                   *)
Direct ==
    \A m \in Message : m \notin published /\ (send[m] # None \/ GaveUp(m)) =>
        at[m[1]] = "returned" /\ ~InHooks(m[1])

(* The rows of a web process are of a write; the chunk that was not        *)
(* serialised ended its call; and a write in the transport has its row.    *)
Told ==
    /\ buf \subseteq Message \X {"queued", "queueing", "serialising"}
    /\ \A m \in Message : <<m, "serialising">> \in buf \cup feed =>
          at[m[1]] = "raised" /\ m[2] = next[m[1]] /\ m \notin published
    /\ Required \subseteq wants =>
          \A m \in published : \/ <<m, "queued">> \in buf \cup feed
                               \/ <<m, "queueing">> \in buf \cup feed

(* A message that was given up is not in the transport any more, or is     *)
(* about to be acknowledged.                                               *)
Over ==
    \A m \in Message \ hurt : GaveUp(m) =>
        m \notin queue /\ (m \in inflight => send[m] = "ended")

Final == Once /\ Behind /\ Direct /\ Told /\ Over

-----------------------------------------------------------------------------
(* What a write does to it *)

(* A call that is over stays over, and gets no hook. *)
Rests ==
    \A d \in Call : /\ at[d] = "raised" => at'[d] = "raised" /\ next'[d] = next[d]
                    /\ at[d] = "returned" /\ ~InHooks(d) => at'[d] = "returned" /\ ~InHooks(d)'

(* A chunk that was not written yet: it is nowhere, and nothing is said of it. *)
Unwritten(m) ==
    /\ m \in Message /\ m \notin published /\ send[m] = None
    /\ ~GaveUp(m) /\ <<m, "serialising">> \notin buf \cup feed

(* The chunk a call that still waits is at was not written. *)
LEMMA NextUnwritten ==
    ASSUME IInv, Final, NEW c \in Call, Waits(c)
    PROVE  Unwritten(<<c, next[c]>>) /\ <<c, next[c]>>[1] = c
<1> DEFINE m == <<c, next[c]>>
<1>1. m \in Message /\ m[1] = c /\ m[2] = next[c] /\ next[c] \in Nat
  <2>1. next[c] \in 1..Chunks + 1 /\ next[c] <= Size(c) /\ Size(c) \in 1..Chunks
    BY MessageIs DEF IInv, TypeOK, CallsHold, Waits
  <2>2. next[c] \in 1..Size(c)
    BY <2>1
  <2> QED
    BY <2>1, <2>2, MessageIs
<1>2. m \notin published
  BY <1>1 DEF Final, Behind
<1>3. at[c] # "returned" /\ at[c] # "raised"
  BY DEF Waits
<1>4. send[m] = None /\ ~GaveUp(m)
  BY <1>1, <1>2, <1>3 DEF Final, Direct
<1>5. <<m, "serialising">> \notin buf \cup feed
  BY <1>1, <1>3 DEF Final, Told
<1> QED
  BY <1>1, <1>2, <1>4, <1>5 DEF Unwritten

(* Nor was the chunk the hook that runs is at. *)
LEMMA HookUnwritten ==
    ASSUME IInv, Final, block = "committing", hooks # <<>>, Held(Head(hooks)) > 0
    PROVE  Unwritten(<<Head(hooks), hookNext>>)
<1> DEFINE c == Head(hooks)
<1> DEFINE m == <<c, hookNext>>
<1>1. c \in Call /\ c = hooks[1] /\ Len(hooks) \in Nat /\ 1 \in 1..Len(hooks)
  <2>1. hooks \in Seq(Call)
    BY DEF IInv, TypeOK
  <2> QED
    BY <2>1, EmptySeq, HeadTailProperties
<1>2. /\ hookNext \in Nat \ {0} /\ Size(c) \in Nat
      /\ next[c] \in Nat /\ next[c] >= 1 /\ next[c] <= Size(c) + 1
  <2>1. next[c] \in 1..Chunks + 1 /\ hookNext \in 1..Chunks /\ next[c] <= Size(c) + 1
    BY <1>1 DEF IInv, TypeOK, CallsHold
  <2> QED
    BY <1>1, <2>1, MessageIs
<1>3. hookNext <= next[c] - 1
  BY <1>1, <1>2 DEF IInv, HooksHold, Held
<1>4. hookNext \in 1..Size(c)
  BY <1>2, <1>3
<1>5. m \in Message /\ m[1] = c /\ m[2] = hookNext
  BY <1>1, <1>4, MessageIs
<1>6. m \notin published
  BY <1>1, <1>2, <1>5 DEF Final, Behind
<1>7. InHooks(c)
  BY <1>1 DEF InHooks
<1>8. send[m] = None /\ ~GaveUp(m)
  BY <1>5, <1>6, <1>7 DEF Final, Direct
<1>9. <<m, "serialising">> \notin buf \cup feed
  BY <1>2, <1>3, <1>5 DEF Final, Told
<1> QED
  BY <1>5, <1>6, <1>8, <1>9 DEF Unwritten

(* A step of the callers that writes nothing. *)
LEMMA QuietFinal ==
    ASSUME Final, Rests, Behind', UNCHANGED <<settings, queue, published, worker, buf, feed>>
    PROVE  Final'
<1>1. UNCHANGED <<wants, queue, published, up, send, inflight, hurt, buf, feed>>
  BY DEF settings, worker
<1>2. \A m \in Message : m[1] \in Call /\ (GaveUp(m)' <=> GaveUp(m))
  BY <1>1, MessageIs DEF GaveUp, Has
<1>3. Once' /\ Over'
  BY <1>1, <1>2 DEF Final, Once, Over
<1>4. Direct'
  BY <1>1, <1>2 DEF Final, Direct, Rests
<1>5. Told'
  BY <1>1, <1>2 DEF Final, Told, Rests
<1> QED
  BY <1>3, <1>4, <1>5 DEF Final

(* A write that could not be serialised ends its call. *)
LEMMA UnserialisedFinal ==
    ASSUME Final, NEW c \in Call, Unwritten(<<c, next[c]>>), Unserialisable(<<c, next[c]>>),
           at'[c] = "raised", next'[c] = next[c], Rests, Behind',
           UNCHANGED <<settings, worker, feed>>
    PROVE  Final'
<1> DEFINE m == <<c, next[c]>>
<1>1. UNCHANGED <<wants, queue, published, up, send, inflight, hurt, feed>>
  BY DEF settings, worker, Unserialisable
<1>2. \A x \in Message : x[1] \in Call /\ (GaveUp(x)' <=> GaveUp(x))
  BY <1>1, MessageIs DEF GaveUp, Has
<1>3. Once' /\ Over'
  BY <1>1, <1>2 DEF Final, Once, Over
<1>4. Direct'
  BY <1>1, <1>2 DEF Final, Direct, Rests
<1>5. buf \subseteq buf' /\ buf' \subseteq buf \cup {<<m, "serialising">>}
  BY DEF Unserialisable, Records, Wanted
<1>6. m \in Message /\ m \notin published /\ m[1] = c /\ m[2] = next[c]
  BY DEF Unwritten
<1>7. Told'
  <2>1. buf' \subseteq Message \X {"queued", "queueing", "serialising"}
    BY <1>5, <1>6 DEF Final, Told
  <2>2. ASSUME NEW x \in Message, <<x, "serialising">> \in buf' \cup feed'
        PROVE  at'[x[1]] = "raised" /\ x[2] = next'[x[1]] /\ x \notin published'
    <3>1. CASE x = m
      BY <1>1, <1>6, <3>1
    <3>2. CASE x # m
      <4>1. <<x, "serialising">> \in buf \cup feed
        BY <1>1, <1>5, <2>2, <3>2
      <4> QED
        BY <1>1, <1>2, <4>1 DEF Final, Told, Rests
    <3> QED
      BY <3>1, <3>2
  <2>3. ASSUME Required \subseteq wants', NEW x \in published'
        PROVE  <<x, "queued">> \in buf' \cup feed' \/ <<x, "queueing">> \in buf' \cup feed'
    BY <1>1, <1>5, <2>3 DEF Final, Told
  <2> QED
    BY <2>1, <2>2, <2>3 DEF Told, Required
<1> QED
  BY <1>3, <1>4, <1>7 DEF Final

(* A write that reached the transport. *)
LEMMA WrittenFinal ==
    ASSUME IInv, Final, NEW m, Unwritten(m), NEW result, Publishing(m, result),
           Rests, Behind', UNCHANGED <<settings, worker, feed>>
    PROVE  Final'
<1>1. UNCHANGED <<wants, up, send, inflight, hurt, feed>>
  BY DEF settings, worker
<1>2. \A x \in Message : x[1] \in Call /\ (GaveUp(x)' <=> GaveUp(x))
  BY <1>1, MessageIs DEF GaveUp, Has
<1>3. /\ queue' \in {queue, queue \cup {m}} /\ published' \in {published, published \cup {m}}
      /\ queue' = queue <=> published' = published
      /\ m \in Message /\ m \notin published /\ send[m] = None /\ ~GaveUp(m)
  BY DEF Publishing, Unwritten, Final, Once
<1>4. Once'
  BY <1>1, <1>3 DEF Final, Once, Publishing
<1>5. Over'
  BY <1>1, <1>2, <1>3 DEF Final, Over
<1>6. Direct'
  BY <1>1, <1>2, <1>3 DEF Final, Direct, Rests
<1>7. /\ buf \subseteq buf' /\ buf' \subseteq buf \cup {<<m, "queued">>, <<m, "queueing">>}
      /\ Required \subseteq wants => <<m, "queued">> \in buf' \/ <<m, "queueing">> \in buf'
  <2>1. "queued" \in Required /\ "queueing" \in Required
    BY DEF Required, Kind
  <2> QED
    BY <2>1 DEF Publishing, Records, Wanted
<1>8. Told'
  <2>1. buf' \subseteq Message \X {"queued", "queueing", "serialising"}
    BY <1>3, <1>7 DEF Final, Told
  <2>2. ASSUME NEW x \in Message, <<x, "serialising">> \in buf' \cup feed'
        PROVE  at'[x[1]] = "raised" /\ x[2] = next'[x[1]] /\ x \notin published'
    <3>1. <<x, "serialising">> \in buf \cup feed
      BY <1>1, <1>7, <2>2
    <3>2. x # m
      BY <3>1 DEF Unwritten
    <3> QED
      BY <1>2, <1>3, <3>1, <3>2 DEF Final, Told, Rests
  <2>3. ASSUME Required \subseteq wants', NEW x \in published'
        PROVE  <<x, "queued">> \in buf' \cup feed' \/ <<x, "queueing">> \in buf' \cup feed'
    BY <1>1, <1>3, <1>7, <2>3 DEF Final, Told
  <2> QED
    BY <2>1, <2>2, <2>3 DEF Told, Required
<1> QED
  BY <1>4, <1>5, <1>6, <1>8 DEF Final

-----------------------------------------------------------------------------
(* The callers *)

(* A chunk written where the caller stands, and what its write may come to. *)
LEMMA QueueingFinal ==
    ASSUME IInv, Final, NEW c \in Call, at[c] \in {"idle", "open", "async"},
           NEW state \in {"open", "async"},
           Queueing(c, state), UNCHANGED <<settings, block, hooks, hookNext, worker, feed>>
    PROVE  Final'
<1> DEFINE m == <<c, next[c]>>
<1>1. Waits(c) /\ next[c] <= Size(c)
  BY DEF IInv, CallsHold, Waits
<1>2. Unwritten(m) /\ m[1] = c /\ m[2] = next[c]
  BY <1>1, NextUnwritten
<1>3. Wrote(c, state)
  BY <1>1, QueueingDoes
<1>4. Len(hooks) \in Nat /\ \A i \in 1..Len(hooks) : hooks[i] \in Call /\ hooks[i] # c
  <2>1. hooks \in Seq(Call)
    BY DEF IInv, TypeOK
  <2> QED
    BY <2>1 DEF IInv, HooksHold
<1>5. Rests
  BY <1>3, <1>4 DEF Wrote, Rests, InHooks
<1>6. next[c] \in Nat /\ \A x \in published : x \in Message /\ x[1] \in Call
  <2>1. next[c] \in 1..Chunks + 1 /\ published \subseteq Message
    BY DEF IInv, TypeOK
  <2> QED
    BY <2>1, MessageIs
<1>7. Behind'
  <2>1. ASSUME NEW x \in published', Waits(x[1])'
        PROVE  x[2] < next'[x[1]]
    <3>1. CASE x[1] # c
      <4>1. x \in published /\ at'[x[1]] = at[x[1]] /\ next'[x[1]] = next[x[1]]
        BY <1>2, <1>3, <1>6, <3>1 DEF Wrote
      <4> QED
        BY <2>1, <4>1 DEF Final, Behind, Waits
    <3>2. CASE x[1] = c
      <4>1. next'[c] = next[c] + 1
        BY <1>3, <2>1, <3>2 DEF Wrote, Waits
      <4>2. CASE x \in published
        <5>1. x[2] < next[c] /\ x[2] \in Nat
          <6>1. x[2] \in 1..Size(x[1]) /\ Size(x[1]) \in 1..Chunks
            BY <1>6, <4>2, MessageIs
          <6> QED
            BY <1>1, <3>2, <4>2, <6>1 DEF Final, Behind
        <5> QED
          BY <1>6, <3>2, <4>1, <5>1
      <4>3. CASE x = m
        BY <1>2, <1>6, <4>1, <4>3
      <4> QED
        BY <1>3, <4>2, <4>3 DEF Wrote
    <3> QED
      BY <3>1, <3>2
  <2>2. ASSUME NEW x \in published', NEW i \in 1..Len(hooks'), hooks'[i] = x[1]
        PROVE  block' = "committing" /\ i = 1 /\ x[2] < hookNext'
    <3>1. x \in published
      BY <1>2, <1>3, <1>4, <2>2 DEF Wrote
    <3> QED
      BY <2>2, <3>1 DEF Final, Behind
  <2>3. \A i, j \in 1..Len(hooks') : hooks'[i] = hooks'[j] => i = j
    BY DEF Final, Behind
  <2> QED
    BY <2>1, <2>2, <2>3 DEF Behind
<1>8. CASE Unserialisable(m) /\ Becomes(c, "raised") /\ UNCHANGED next
  <2>1. at'[c] = "raised" /\ next'[c] = next[c]
    BY <1>8 DEF Becomes, IInv, TypeOK
  <2> QED
    BY <1>2, <1>5, <1>7, <1>8, <2>1, UnserialisedFinal
<1>9. CASE \E result \in {"written", "refused", "unsure"} : Publishing(m, result)
  BY <1>2, <1>5, <1>7, <1>9, WrittenFinal
<1> QED
  BY <1>8, <1>9 DEF Queueing

(* The hooks are those of calls that were made. *)
LEMMA HooksAre ==
    ASSUME IInv
    PROVE  /\ hooks \in Seq(Call) /\ Len(hooks) \in Nat
           /\ \A i \in 1..Len(hooks) : /\ hooks[i] \in Call
                                       /\ at[hooks[i]] \in {"held", "returned", "raised"}
<1>1. hooks \in Seq(Call)
  BY DEF IInv, TypeOK
<1> QED
  BY <1>1 DEF IInv, HooksHold

(* A message is a call and the number of a chunk. *)
LEMMA MessagesAre ==
    ASSUME IInv, NEW x \in published
    PROVE  x \in Message /\ x[1] \in Call /\ x[2] \in Nat
<1>1. x \in Message
  BY DEF IInv, TypeOK
<1>2. x[1] \in Call /\ x[2] \in 1..Size(x[1]) /\ Size(x[1]) \in 1..Chunks
  BY <1>1, MessageIs
<1> QED
  BY <1>1, <1>2

(* A call that goes on with nothing published. *)
LEMMA CallGoesOn ==
    ASSUME IInv, Final, NEW c \in Call, Waits(c), UNCHANGED <<published, block, hooks, hookNext>>,
           \A d \in Call \ {c} : at'[d] = at[d] /\ next'[d] = next[d],
           next'[c] \in Nat, next[c] <= next'[c]
    PROVE  Behind' /\ Rests
<1>1. Rests
  BY DEF Rests, Waits, InHooks
<1>2. next[c] \in Nat
  BY DEF IInv, TypeOK
<1>3. ASSUME NEW x \in published', Waits(x[1])' PROVE x[2] < next'[x[1]]
  <2>1. x \in published /\ x[1] \in Call /\ x[2] \in Nat
    BY MessagesAre
  <2>2. CASE x[1] = c
    <3>1. x[2] < next[c]
      BY <2>1, <2>2 DEF Final, Behind
    <3> QED
      BY <1>2, <2>1, <2>2, <3>1
  <2>3. CASE x[1] # c
    BY <1>3, <2>1, <2>3 DEF Final, Behind, Waits
  <2> QED
    BY <2>2, <2>3
<1>4. Behind'
  BY <1>3 DEF Final, Behind
<1> QED
  BY <1>1, <1>4

(* A hook added for a call that waits: nothing of it is published. *)
LEMMA HookAdded ==
    ASSUME IInv, Final, NEW c \in Call, at[c] = "idle", UNCHANGED <<published, block, hookNext>>,
           hooks' = Append(hooks, c), block # "committing",
           \A d \in Call \ {c} : at'[d] = at[d] /\ next'[d] = next[d]
    PROVE  Behind' /\ Rests
<1>1. /\ hooks \in Seq(Call) /\ Len(hooks) \in Nat
      /\ \A i \in 1..Len(hooks) : hooks[i] \in Call /\ hooks[i] # c
  BY HooksAre
<1>2. /\ Len(hooks') = Len(hooks) + 1 /\ hooks'[Len(hooks) + 1] = c
      /\ \A i \in 1..Len(hooks) : hooks'[i] = hooks[i]
  BY <1>1
<1>3. \A i \in 1..Len(hooks') : i \in 1..Len(hooks) \/ i = Len(hooks) + 1
  BY <1>1, <1>2
<1>4. Rests
  <2> SUFFICES ASSUME NEW d \in Call
               PROVE  /\ at[d] = "raised" => at'[d] = "raised" /\ next'[d] = next[d]
                      /\ at[d] = "returned" /\ ~InHooks(d) => at'[d] = "returned" /\ ~InHooks(d)'
    BY DEF Rests
  <2>1. CASE d = c
    BY <2>1
  <2>2. CASE d # c
    <3>1. InHooks(d)' => InHooks(d)
      BY <1>2, <1>3, <2>2 DEF InHooks
    <3> QED
      BY <2>2, <3>1
  <2> QED
    BY <2>1, <2>2
<1>5. \A x \in published : x[1] \in Call /\ x[1] # c
  BY MessagesAre DEF IInv, CallsHold
<1>6. \A x \in published' : Waits(x[1])' => x[2] < next'[x[1]]
  BY <1>5 DEF Final, Behind, Waits
<1>7. \A x \in published' : \A i \in 1..Len(hooks') : hooks'[i] # x[1]
  <2> SUFFICES ASSUME NEW x \in published', NEW i \in 1..Len(hooks'), hooks'[i] = x[1] PROVE FALSE
    OBVIOUS
  <2>1. i \in 1..Len(hooks) /\ hooks[i] = x[1]
    BY <1>2, <1>3, <1>5
  <2> QED
    BY <2>1 DEF Final, Behind
<1>8. \A i, j \in 1..Len(hooks') : hooks'[i] = hooks'[j] => i = j
  BY <1>1, <1>2, <1>3 DEF Final, Behind
<1>9. Behind'
  BY <1>6, <1>7, <1>8 DEF Behind
<1> QED
  BY <1>4, <1>9

LEMMA SkippedFinal ==
    ASSUME IInv, Final, NEW c \in Call, Skipped(c) \/ ASendManyStarts(c) PROVE Final'
<1>1. /\ Waits(c) /\ next[c] \in Nat
      /\ UNCHANGED <<settings, block, hooks, hookNext, next, queue, published, worker, buf, feed>>
      /\ \A d \in Call \ {c} : at'[d] = at[d]
  BY DEF Skipped, ASendManyStarts, Becomes, Waits, IInv, TypeOK
<1>2. Behind' /\ Rests
  BY <1>1, CallGoesOn
<1> QED
  BY <1>1, <1>2, QuietFinal

(* A call of one message, written, held for the commit or skipped. *)
LEMMA EnqueueFinal ==
    ASSUME IInv, Final, NEW c \in Call, Enqueue(c) PROVE Final'
<1>1. /\ at[c] = "idle" /\ Waits(c) /\ next[c] = 1 /\ block # "committing"
      /\ UNCHANGED <<settings, block, hookNext, worker, feed>>
  BY DEF Enqueue, Free, Waits, IInv, CallsHold
<1>2. Unwritten(<<c, next[c]>>)
  BY <1>1, NextUnwritten
<1>3. next[c] <= Size(c) /\ at \in [Call -> CallState] /\ next \in [Call -> 1..Chunks + 1]
  BY <1>1 DEF IInv, CallsHold, TypeOK
<1>4. CASE Unserialisable(<<c, 1>>) /\ Becomes(c, "raised") /\ UNCHANGED <<hooks, next>>
  <2>1. at'[c] = "raised" /\ \A d \in Call \ {c} : at'[d] = at[d]
    BY <1>3, <1>4 DEF Becomes
  <2>2. UNCHANGED published /\ next'[c] \in Nat /\ next[c] <= next'[c]
    BY <1>1, <1>4 DEF Unserialisable
  <2>3. Behind' /\ Rests
    BY <1>1, <1>4, <2>1, <2>2, CallGoesOn
  <2> QED
    BY <1>1, <1>2, <1>4, <2>1, <2>3, UnserialisedFinal
<1>5. CASE /\ hooks' = Append(hooks, c) /\ Reaches(c, "held")
           /\ UNCHANGED <<queue, published, buf, faults>>
  <2>1. \A d \in Call \ {c} : at'[d] = at[d] /\ next'[d] = next[d]
    BY <1>3, <1>5 DEF Reaches, Becomes
  <2>2. Behind' /\ Rests
    BY <1>1, <1>5, <2>1, HookAdded
  <2> QED
    BY <1>1, <1>5, <2>2, QuietFinal
<1>6. CASE Queueing(c, "open") /\ UNCHANGED hooks
  BY <1>1, <1>6, QueueingFinal
<1> QED
  BY <1>4, <1>5, <1>6 DEF Enqueue

LEMMA WritesFinal ==
    ASSUME IInv, Final, NEW c \in Call, AEnqueue(c) \/ SendManyWrites(c) \/ ASendManyWrites(c)
    PROVE  Final'
  BY QueueingFinal DEF AEnqueue, SendManyWrites, ASendManyWrites, WritesChunk

LEMMA SendManyStartsFinal ==
    ASSUME IInv, Final, NEW c \in Call, SendManyStarts(c) PROVE Final'
<1>1. /\ at[c] = "idle" /\ Waits(c) /\ next[c] \in Nat /\ block # "committing"
      /\ UNCHANGED <<settings, block, hookNext, next, queue, published, worker, buf, feed>>
      /\ \A d \in Call \ {c} : at'[d] = at[d]
      /\ hooks' = Append(hooks, c) \/ hooks' = hooks
  BY DEF SendManyStarts, Free, Becomes, Waits, IInv, TypeOK
<1>2. Behind' /\ Rests
  BY <1>1, CallGoesOn, HookAdded
<1> QED
  BY <1>1, <1>2, QuietFinal

LEMMA SendManyHoldsFinal ==
    ASSUME IInv, Final, NEW c \in Call, SendManyHolds(c) PROVE Final'
<1>1. /\ at[c] = "held" /\ Waits(c) /\ next[c] \in Nat /\ next[c] <= next[c]
      /\ UNCHANGED <<settings, block, hooks, hookNext, worker, feed>>
      /\ at \in [Call -> CallState] /\ next \in [Call -> 1..Chunks + 1]
  BY DEF SendManyHolds, Waits, IInv, TypeOK
<1>2. Unwritten(<<c, next[c]>>)
  BY <1>1, NextUnwritten
<1>3. CASE Unserialisable(<<c, next[c]>>) /\ Becomes(c, "raised") /\ UNCHANGED next
  <2>1. at'[c] = "raised" /\ \A d \in Call \ {c} : at'[d] = at[d]
    BY <1>1, <1>3 DEF Becomes
  <2>2. Behind' /\ Rests
    BY <1>1, <1>3, <2>1, CallGoesOn DEF Unserialisable
  <2> QED
    BY <1>1, <1>2, <1>3, <2>1, <2>2, UnserialisedFinal
<1>4. CASE Reaches(c, "held") /\ UNCHANGED <<queue, published, buf, faults>>
  <2>1. /\ \A d \in Call \ {c} : at'[d] = at[d] /\ next'[d] = next[d]
        /\ next'[c] = next[c] + 1
    BY <1>1, <1>4 DEF Reaches, Becomes
  <2>2. next'[c] \in Nat /\ next[c] <= next'[c]
    BY <1>1, <2>1
  <2>3. Behind' /\ Rests
    BY <1>1, <1>4, <2>1, <2>2, CallGoesOn
  <2> QED
    BY <1>1, <1>4, <2>3, QuietFinal
<1> QED
  BY <1>3, <1>4 DEF SendManyHolds

(* A message sent where the caller stands never was in the transport. *)
LEMMA SendDirectFinal ==
    ASSUME IInv, Final, NEW c \in Call, SendDirect(c) PROVE Final'
<1> DEFINE m == <<c, 1>>
<1>1. /\ at[c] = "idle" /\ Waits(c) /\ next[c] = 1 /\ next[c] \in Nat /\ up
      /\ UNCHANGED <<settings, block, hooks, hookNext, next, queue, published>>
      /\ UNCHANGED <<inflight, hurt, up, buf, feed>>
      /\ at' = [at EXCEPT ![c] = IF enabled["worker"] THEN "returned" ELSE "skipped"]
      /\ send' = IF enabled["worker"] THEN [send EXCEPT ![m] = "sending"] ELSE send
  BY DEF SendDirect, Becomes, SendRaw, Sends, Waits, IInv, CallsHold
<1>2. at \in [Call -> CallState] /\ send \in [Message -> {None, "sending", "ended"}]
  BY DEF IInv, TypeOK
<1>3. Unwritten(m) /\ m[1] = c
  BY <1>1, NextUnwritten
<1>4. Behind' /\ Rests
  BY <1>1, <1>2, CallGoesOn
<1>5. \A x \in Message : x[1] \in Call /\ (GaveUp(x)' <=> GaveUp(x))
  BY <1>1, MessageIs DEF GaveUp, Has
<1>6. /\ m \in Message /\ m \notin published /\ ~GaveUp(m)
      /\ \A x \in Message \ {m} : send'[x] = send[x]
  BY <1>1, <1>2, <1>3 DEF Unwritten
<1>7. Once'
  <2>1. m \notin queue
    BY <1>6 DEF Final, Once
  <2> QED
    BY <1>1, <1>6, <2>1 DEF Final, Once
<1>8. Over'
  BY <1>1, <1>5, <1>6 DEF Final, Over
<1>9. Direct'
  <2>1. ASSUME NEW x \in Message, x \notin published', send'[x] # None \/ GaveUp(x)'
        PROVE  at'[x[1]] = "returned" /\ ~InHooks(x[1])'
    <3>1. CASE x = m
      <4>1. ~InHooks(c) /\ (InHooks(c)' <=> InHooks(c))
        BY <1>1, HooksAre DEF InHooks
      <4>2. send'[m] # None
        BY <1>5, <1>6, <2>1, <3>1
      <4>3. at'[c] = "returned"
        BY <1>1, <1>2, <1>3, <4>2 DEF Unwritten
      <4> QED
        BY <1>3, <3>1, <4>1, <4>3
    <3>2. CASE x # m
      <4>1. at[x[1]] = "returned" /\ ~InHooks(x[1])
        BY <1>1, <1>5, <1>6, <2>1, <3>2 DEF Final, Direct
      <4> QED
        BY <1>4, <1>5, <4>1 DEF Rests
    <3> QED
      BY <3>1, <3>2
  <2> QED
    BY <2>1 DEF Direct
<1>10. Told'
  <2>1. UNCHANGED wants
    BY <1>1 DEF settings
  <2> QED
    BY <1>1, <1>4, <1>5, <2>1 DEF Final, Told, Rests, Required
<1> QED
  BY <1>4, <1>7, <1>8, <1>9, <1>10 DEF Final

(* The ends of a block. *)
LEMMA BlocksFinal ==
    ASSUME IInv, Final, Blocks PROVE Final'
<1>1. UNCHANGED <<settings, at, next, queue, published, worker, buf, feed>>
  BY DEF Blocks, EnterBlock, Commit, Rollback
<1>2. hooks' = hooks \/ hooks' = <<>>
  BY DEF Blocks, EnterBlock, Commit, Rollback
<1>3. Rests
  BY <1>1, <1>2 DEF Rests, InHooks
<1>4. hooks' # <<>> => block # "committing" /\ hooks' = hooks
  BY <1>2 DEF Blocks, EnterBlock, Commit, Rollback, None
<1>5. \A x \in published : Waits(x[1])' => x[2] < next[x[1]]
  BY <1>1 DEF Final, Behind, Waits
<1>6. Behind'
  <2>1. CASE hooks' = <<>>
    BY <1>1, <1>5, <2>1 DEF Behind
  <2>2. CASE hooks' # <<>>
    BY <1>1, <1>4, <1>5, <2>2 DEF Final, Behind
  <2> QED
    BY <2>1, <2>2
<1> QED
  BY <1>1, <1>3, <1>6, QuietFinal

(* A hook publishes the next chunk of its call, or is lost. *)
LEMMA HookFinal ==
    ASSUME IInv, Final, HookPublishes PROVE Final'
<1> DEFINE c == Head(hooks)
<1> DEFINE m == <<c, hookNext>>
<1>1. /\ c \in Call /\ hooks \in Seq(Call) /\ Tail(hooks) \in Seq(Call)
      /\ published \subseteq published' /\ published' \subseteq published \cup {m}
      /\ \/ hooks' \in {Tail(hooks), <<>>} /\ hookNext' = 1
         \/ hooks' = hooks /\ hookNext' = hookNext + 1
  BY HookDoes
<1>2. /\ block = "committing" /\ hooks # <<>> /\ block' = IF hooks' = <<>> THEN None ELSE block
      /\ UNCHANGED <<settings, at, next, worker, feed>>
  BY DEF HookPublishes
<1>3. /\ Len(hooks) \in Nat /\ Len(hooks) # 0 /\ c = hooks[1]
      /\ Len(Tail(hooks)) = Len(hooks) - 1
      /\ \A i \in 1..Len(hooks) - 1 : Tail(hooks)[i] = hooks[i + 1] /\ i + 1 \in 1..Len(hooks)
  BY <1>1, <1>2, EmptySeq, HeadTailProperties
<1>4. hookNext \in Nat /\ m[1] = c /\ m[2] = hookNext
  BY DEF IInv, TypeOK
<1>5. Rests
  <2>1. \A d \in Call : InHooks(d)' => InHooks(d)
    <3>1. CASE hooks' = <<>>
      BY <3>1 DEF InHooks
    <3>2. CASE hooks' = Tail(hooks)
      BY <1>3, <3>2 DEF InHooks
    <3>3. CASE hooks' = hooks
      BY <3>3 DEF InHooks
    <3> QED
      BY <1>1, <3>1, <3>2, <3>3
  <2> QED
    BY <1>2, <2>1 DEF Rests
<1>6. at[c] \in {"held", "returned", "raised"} /\ at[c] # "held"
  <2>1. 1 \in 1..Len(hooks)
    BY <1>3
  <2>2. at[c] \in {"held", "returned", "raised"}
    BY <1>3, <2>1, HooksAre
  <2> QED
    BY <1>1, <1>2, <2>2 DEF IInv, BlocksHold
<1>7. \A x \in published' : Waits(x[1])' => x[2] < next'[x[1]]
  <2>1. ~Waits(c)
    BY <1>6 DEF Waits
  <2> QED
    BY <1>1, <1>2, <1>4, <2>1 DEF Final, Behind, Waits
<1>8. Behind'
  <2>1. CASE hooks' = <<>>
    BY <1>7, <2>1 DEF Behind
  <2>2. CASE hooks' = hooks /\ hooks' # <<>> /\ hookNext' = hookNext + 1
    <3>1. \A x \in published' : \A i \in 1..Len(hooks) :
             hooks[i] = x[1] => i = 1 /\ x[2] < hookNext + 1
      <4> SUFFICES ASSUME NEW x \in published', NEW i \in 1..Len(hooks), hooks[i] = x[1]
                   PROVE  i = 1 /\ x[2] < hookNext + 1
        OBVIOUS
      <4>1. CASE x \in published
        <5>1. x[2] \in Nat
          BY <4>1, MessagesAre
        <5> QED
          BY <1>4, <4>1, <5>1 DEF Final, Behind
      <4>2. CASE x = m
        <5>1. 1 \in 1..Len(hooks)
          BY <1>3
        <5>2. i = 1
          BY <1>3, <1>4, <4>2, <5>1 DEF Final, Behind
        <5> QED
          BY <1>4, <4>2, <5>2
      <4> QED
        BY <1>1, <4>1, <4>2
    <3> QED
      BY <1>2, <1>7, <2>2, <3>1 DEF Final, Behind
  <2>3. CASE hooks' = Tail(hooks) /\ hooks' # <<>>
    <3>1. \A x \in published' : \A i \in 1..Len(hooks') : hooks'[i] # x[1]
      <4> SUFFICES ASSUME NEW x \in published', NEW i \in 1..Len(hooks'), hooks'[i] = x[1]
                   PROVE  FALSE
        OBVIOUS
      <4>1. i + 1 \in 1..Len(hooks) /\ hooks[i + 1] = x[1] /\ i + 1 # 1
        BY <1>3, <2>3
      <4>2. CASE x \in published
        BY <4>1, <4>2 DEF Final, Behind
      <4>3. CASE x = m
        <5>1. 1 \in 1..Len(hooks) /\ hooks[1] = hooks[i + 1]
          BY <1>3, <1>4, <4>1, <4>3
        <5> QED
          BY <4>1, <5>1 DEF Final, Behind
      <4> QED
        BY <1>1, <4>2, <4>3
    <3>2. \A i, j \in 1..Len(hooks') : hooks'[i] = hooks'[j] => i = j
      <4> SUFFICES ASSUME NEW i \in 1..Len(hooks'), NEW j \in 1..Len(hooks'),
                          hooks'[i] = hooks'[j]
                   PROVE  i = j
        OBVIOUS
      <4>1. i + 1 \in 1..Len(hooks) /\ j + 1 \in 1..Len(hooks) /\ hooks[i + 1] = hooks[j + 1]
        BY <1>3, <2>3
      <4>2. i + 1 = j + 1
        BY <4>1 DEF Final, Behind
      <4> QED
        BY <4>2
    <3> QED
      BY <1>7, <3>1, <3>2 DEF Behind
  <2> QED
    BY <1>1, <2>1, <2>2, <2>3
<1>9. CASE Held(c) = 0 /\ UNCHANGED <<queue, published, buf, faults>>
  BY <1>2, <1>5, <1>8, <1>9, QuietFinal
<1>10. CASE Held(c) > 0
  <2>1. Unwritten(m)
    BY <1>2, <1>10, HookUnwritten
  <2>2. PICK result \in {"written", "refused", "unsure"} : Publishing(m, result)
    BY <1>10 DEF HookPublishes
  <2> QED
    BY <1>2, <1>5, <1>8, <2>1, <2>2, WrittenFinal
<1> QED
  BY <1>9, <1>10 DEF HookPublishes

-----------------------------------------------------------------------------
(* The worker and the recorder *)

(* A step of the worker leaves the callers and their rows alone. *)
LEMMA WorkerTells ==
    ASSUME Final, UNCHANGED <<wants, caller, published, buf>>, feed \subseteq feed',
           \A x \in Message : <<x, "serialising">> \in feed' => <<x, "serialising">> \in feed
    PROVE  Behind' /\ Told'
<1>1. UNCHANGED <<at, next, hooks, hookNext, block>>
  BY DEF caller
<1>2. Behind'
  BY <1>1 DEF Final, Behind, Waits
<1>3. Told'
  BY <1>1 DEF Final, Told, Required
<1> QED
  BY <1>2, <1>3

(* A message is taken, tried, and acknowledged once its send has ended. *)
LEMMA TakeFinal ==
    ASSUME IInv, Final, NEW m \in Message, Take(m) PROVE Final'
<1>1. /\ up /\ m \in queue /\ queue' = queue \ {m} /\ inflight' = inflight \cup {m}
      /\ feed \subseteq feed' /\ feed' \subseteq feed \cup {<<m, "underway">>}
      /\ UNCHANGED <<wants, caller, published, up, hurt, buf>>
      /\ send' = send \/ send' = [send EXCEPT ![m] = "sending"]
  BY DEF Take, Writes, Wanted, SendRaw, Sends, settings
<1>2. /\ UNCHANGED <<at, hooks>>
      /\ \A x \in Message : (GaveUp(x)' <=> GaveUp(x)) /\ (InHooks(x[1])' <=> InHooks(x[1]))
  BY <1>1 DEF caller, GaveUp, Has, InHooks
<1>3. Behind' /\ Told'
  BY <1>1, WorkerTells
<1>4. \A x \in Message \ {m} : send'[x] = send[x]
  BY <1>1 DEF IInv, TypeOK
<1>5. m \in published
  BY <1>1 DEF Final, Once
<1>6. Once'
  BY <1>1, <1>4, <1>5 DEF Final, Once
<1>7. Direct'
  BY <1>1, <1>2, <1>4, <1>5 DEF Final, Direct
<1>8. Over'
  BY <1>1, <1>2, <1>4 DEF Final, Over
<1> QED
  BY <1>3, <1>6, <1>7, <1>8 DEF Final

LEMMA AttemptFinal ==
    ASSUME IInv, Final, NEW m \in Message, Attempt(m) PROVE Final'
<1>1. /\ up /\ send[m] = "sending"
      /\ feed \subseteq feed'
      /\ feed' \subseteq feed \cup {<<m, "sent">>, <<m, "failed">>,
                                    <<m, "underway">>, <<m, "max_retries">>}
      /\ UNCHANGED <<wants, caller, queue, published, inflight, up, hurt, buf>>
      /\ \/ send' = [send EXCEPT ![m] = "ended"]
         \/ send' = send /\ feed' \subseteq feed \cup {<<m, "underway">>}
  BY DEF Attempt, Writes, Wanted, Sends, settings
<1>2. /\ UNCHANGED <<at, hooks>> /\ \A x \in Message : InHooks(x[1])' <=> InHooks(x[1])
      /\ \A x \in Message \ {m} : GaveUp(x)' <=> GaveUp(x)
  BY <1>1 DEF caller, GaveUp, Has, InHooks
<1>3. Behind' /\ Told'
  BY <1>1, WorkerTells
<1>4. /\ \A x \in Message \ {m} : send'[x] = send[x]
      /\ send' = send \/ send'[m] = "ended"
  BY <1>1 DEF IInv, TypeOK
<1>5. m \notin queue /\ (m \in published => m \in inflight) /\ send[m] # None
  BY <1>1 DEF Final, Once, None
<1>6. Once'
  BY <1>1, <1>4, <1>5 DEF Final, Once
<1>7. Direct'
  BY <1>1, <1>2, <1>4, <1>5 DEF Final, Direct
<1>8. GaveUp(m)' => GaveUp(m) \/ send'[m] = "ended"
  <2>1. CASE send' = [send EXCEPT ![m] = "ended"]
    BY <2>1 DEF IInv, TypeOK
  <2>2. CASE feed' \subseteq feed \cup {<<m, "underway">>}
    BY <2>2 DEF GaveUp, Has
  <2> QED
    BY <1>1, <2>1, <2>2
<1>9. Over'
  BY <1>1, <1>2, <1>4, <1>5, <1>8 DEF Final, Over
<1> QED
  BY <1>3, <1>6, <1>7, <1>9 DEF Final

LEMMA SettleFinal ==
    ASSUME IInv, Final, NEW m \in Message, Settle(m) PROVE Final'
<1>1. /\ up /\ send[m] = "ended" /\ inflight' = inflight \ {m}
      /\ send' = [send EXCEPT ![m] = None]
      /\ UNCHANGED <<wants, caller, queue, published, up, hurt, buf, feed>>
  BY DEF Settle, Sends, settings
<1>2. /\ UNCHANGED <<at, hooks>>
      /\ \A x \in Message : (GaveUp(x)' <=> GaveUp(x)) /\ (InHooks(x[1])' <=> InHooks(x[1]))
  BY <1>1 DEF caller, GaveUp, Has, InHooks
<1>3. Behind' /\ Told'
  BY <1>1, WorkerTells
<1>4. send'[m] = None /\ \A x \in Message \ {m} : send'[x] = send[x]
  BY <1>1 DEF IInv, TypeOK
<1>5. Once' /\ Direct' /\ Over'
  BY <1>1, <1>2, <1>4 DEF Final, Once, Direct, Over
<1> QED
  BY <1>3, <1>5 DEF Final

(* stop() waits for the sends that ended; a crash makes them doubtful.     *)
LEMMA DownFinal ==
    ASSUME IInv, Final, Stop \/ Crash PROVE Final'
<1>1. /\ up /\ ~up' /\ send' = [x \in Message |-> None]
      /\ feed \subseteq feed' /\ feed' \subseteq feed \cup {<<x, "NotScheduled">> : x \in Message}
      /\ UNCHANGED <<wants, caller, queue, published, inflight, buf>>
      /\ hurt \subseteq hurt' /\ \A x \in Message \ hurt' : send[x] # "ended"
  BY DEF Stop, Crash, Writes, Wanted, Cancelled, settings, None
<1>2. /\ UNCHANGED <<at, hooks>>
      /\ \A x \in Message : (GaveUp(x)' <=> GaveUp(x)) /\ (InHooks(x[1])' <=> InHooks(x[1]))
  BY <1>1 DEF caller, GaveUp, Has, InHooks
<1>3. Behind' /\ Told'
  BY <1>1, WorkerTells
<1>4. Once' /\ Direct' /\ Over'
  BY <1>1, <1>2 DEF Final, Once, Direct, Over
<1> QED
  BY <1>3, <1>4 DEF Final

LEMMA StartFinal ==
    ASSUME IInv, Final, Start PROVE Final'
<1>1. /\ ~up /\ up' = TRUE /\ queue' = queue \cup inflight /\ inflight' = {}
      /\ UNCHANGED <<wants, caller, send, published, hurt, buf, feed>>
  BY DEF Start, settings
<1>2. /\ UNCHANGED <<at, hooks>>
      /\ \A x \in Message : (GaveUp(x)' <=> GaveUp(x)) /\ (InHooks(x[1])' <=> InHooks(x[1]))
  BY <1>1 DEF caller, GaveUp, Has, InHooks
<1>3. Behind' /\ Told'
  BY <1>1, WorkerTells
<1>4. \A x \in Message : send[x] = None
  BY <1>1 DEF Final, Once
<1>5. Once' /\ Direct' /\ Over'
  BY <1>1, <1>2, <1>4 DEF Final, Once, Direct, Over, None
<1> QED
  BY <1>3, <1>5 DEF Final

LEMMA FlushFinal ==
    ASSUME IInv, Final, Flush PROVE Final'
<1>1. /\ feed' = feed \cup Wanted(buf) /\ buf' = {}
      /\ UNCHANGED <<wants, caller, queue, inflight, send, up, published, hurt>>
  BY DEF Flush, Writes, settings, worker
<1>2. buf \subseteq Message \X {"queued", "queueing", "serialising"} /\ Wanted(buf) \subseteq buf
  BY DEF Final, Told, Wanted
<1>3. UNCHANGED <<at, next, hooks, hookNext, block>>
  BY <1>1 DEF caller
<1>4. \A x \in Message : (GaveUp(x)' <=> GaveUp(x)) /\ (InHooks(x[1])' <=> InHooks(x[1]))
  BY <1>1, <1>2, <1>3 DEF GaveUp, Has, InHooks
<1>5. Behind'
  BY <1>1, <1>3 DEF Final, Behind, Waits
<1>6. Once' /\ Direct' /\ Over'
  BY <1>1, <1>3, <1>4 DEF Final, Once, Direct, Over
<1>7. Told'
  <2>1. \A x \in Message : <<x, "serialising">> \in feed' => <<x, "serialising">> \in buf \cup feed
    BY <1>1, <1>2
  <2>2. ASSUME Required \subseteq wants, NEW x \in published
        PROVE  <<x, "queued">> \in feed' \/ <<x, "queueing">> \in feed'
    <3>1. "queued" \in wants /\ "queueing" \in wants
      BY <2>2 DEF Required, Kind
    <3>2. \A r \in buf : r[2] \in wants => r \in feed'
      BY <1>1 DEF Wanted
    <3> QED
      BY <1>1, <2>2, <3>1, <3>2 DEF Final, Told
  <2> QED
    BY <1>1, <1>3, <2>1, <2>2 DEF Final, Told, Required
<1> QED
  BY <1>5, <1>6, <1>7 DEF Final

(* The invariant holds at first, and no step breaks it. *)
LEMMA FinalInit == Init => Final
<1> SUFFICES ASSUME Init PROVE Final
  OBVIOUS
<1>1. Once /\ Direct
  BY DEF Init, Once, Direct, GaveUp, Has
<1>2. Behind
  BY DEF Init, Behind
<1>3. Told /\ Over
  BY DEF Init, Told, Over, GaveUp, Has
<1> QED
  BY <1>1, <1>2, <1>3 DEF Final

LEMMA FinalNext == IInv /\ Final /\ [Next]_vars => Final'
<1> SUFFICES ASSUME IInv, Final, [Next]_vars PROVE Final'
  OBVIOUS
<1>1. ASSUME NEW c \in Call, Calling(c) PROVE Final'
  BY <1>1, SkippedFinal, EnqueueFinal, WritesFinal, SendManyStartsFinal, SendManyHoldsFinal,
     SendDirectFinal DEF Calling
<1>2. CASE Blocks \/ HookPublishes
  BY <1>2, BlocksFinal, HookFinal
<1>3. ASSUME NEW m \in Message, Sending(m) PROVE Final'
  BY <1>3, TakeFinal, AttemptFinal, SettleFinal DEF Sending
<1>4. CASE Stop \/ Crash \/ Start \/ Flush
  BY <1>4, DownFinal, StartFinal, FlushFinal
<1>5. CASE UNCHANGED vars
  <2>1. /\ UNCHANGED <<settings, queue, published, worker, buf, feed>>
        /\ UNCHANGED <<block, hooks, at, next, hookNext>>
    BY <1>5 DEF vars, caller, settings
  <2>2. Behind' /\ Rests
    BY <2>1 DEF Final, Behind, Rests, Waits, InHooks
  <2> QED
    BY <2>1, <2>2, QuietFinal
<1> QED
  BY <1>1, <1>2, <1>3, <1>4, <1>5 DEF Next

(* What is given up cannot be on its way. *)
LEMMA FinalTells == IInv /\ Final => \A m \in Message : FailedIsFinal(m)
<1> SUFFICES ASSUME IInv, Final, NEW m \in Message,
                    Outcome(m) = "failed", m \notin hurt, ~Untold(m),
                    Deliverable(m)
             PROVE  FALSE
  BY DEF FailedIsFinal
<1>1. Required \subseteq wants /\ IsEnding(m)
  BY DEF Outcome, Refuses
<1>2. m \in published
  BY DEF Deliverable, Final, Once
<1>3. ~GaveUp(m)
  BY DEF Final, Over, Deliverable
<1>4. ~Has(m, "serialising")
  BY <1>2 DEF Final, Told, Has
<1>5. Has(m, "queued")
  BY <1>1, <1>2 DEF Final, Told, Untold, Has
<1> QED
  BY <1>1, <1>3, <1>4, <1>5 DEF IsEnding, CannotComeBack, GaveUp

-----------------------------------------------------------------------------
(* The theorems *)

(* Type correctness.  In particular a fan-out and its hook never run past  *)
(* the chunks there are (send_many, publish_after_commit).                 *)
THEOREM TypeCorrect == Spec => []TypeOK
<1>1. IInv => TypeOK
  BY DEF IInv
<1> QED
  BY <1>1, InvInit, InvNext, PTL DEF Spec

(* With TRANSACTIONAL on, the bot announces nothing of a block before its  *)
(* commit, and nothing of one that was rolled back (_deferred, defer):     *)
(* whatever is queued in it, wherever the awaiting calls run meanwhile.    *)
THEOREM AnnouncesAfterCommit == Spec => []AnnouncedAfterCommit
<1>1. IInv => AnnouncedAfterCommit
  BY DEF IInv
<1> QED
  BY <1>1, InvInit, InvNext, PTL DEF Spec

(* A fan-out stops where a chunk was refused: no chunk of a call reaches   *)
(* the transport before the earlier ones did (send_many, asend_many, and   *)
(* the one hook _deferred makes for a batch).                              *)
THEOREM FanOutStops == Spec => []StopsWhereItFails
<1>1. IInv => StopsWhereItFails
  BY DEF IInv
<1> QED
  BY <1>1, InvInit, InvNext, PTL DEF Spec

(* An answer is one to act on: while the feed reads "failed" for a message *)
(* it cannot arrive any more (_decide, _cannot_come_back), so whoever      *)
(* sends it again sends no second copy. Left out are a message whose       *)
(* acknowledgement a crash undid, and one whose write is not told of yet   *)
(* or raised. It is what OutcomeTells says of every state.                 *)
THEOREM FailedStaysFailed == Spec => [](\A m \in Message : FailedIsFinal(m))
<1> QED
  BY InvInit, InvNext, FinalInit, FinalNext, FinalTells, PTL DEF Spec
=============================================================================
