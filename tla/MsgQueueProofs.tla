--------------------------- MODULE MsgQueueProofs ---------------------------
(***************************************************************************)
(* Proofs about MsgQueue: the ring holds the messages that wait, and the   *)
(* collector, the queue and the dispatcher implement Channel, for rings of *)
(* any size and any number of senders and messages, in every build whose   *)
(* messages cannot fill the ring to its last line.                         *)
(***************************************************************************)
EXTENDS MsgQueue, TLAPS

\* The types, of a dispatcher that may take any bytes for a length.
Types ==
    /\ head \in Lines /\ tail \in Lines
    /\ msg \in [Lines -> Part]
    /\ pc \in [Senders -> {"idle", "compare", "measure", "fence", "exit"}]
    /\ node \in Message \cup {NoMessage}
    /\ ahead \in BOOLEAN
    /\ unfenced \subseteq [line : Lines, value : Part]
    /\ dpc \in {"poll", "look", "length", "copy", "handle", "stopped", "overrun"}
    /\ dpc # "overrun" => total_size \in 0 .. Capacity
    /\ result \in Seq(Part) /\ Len(result) <= Capacity
    /\ stop \in BOOLEAN /\ build \in Builds
    /\ sent \in Seq(Message) /\ received \in Seq(Message \cup {NoMessage})

\* The messages that have been sent lie behind one another.
SentInv ==
    /\ Len(sent) <= MaxMessages
    /\ \A n \in 1 .. Len(sent) : sent[n].at = Upto(n - 1) /\ Upto(n) <= n * Capacity
    /\ \A m, n \in 0 .. Len(sent) : m <= n => Upto(m) <= Upto(n)

\* One thread is inside sendMsg, and its message is the next.
SenderInv ==
    /\ \A s, t \in Senders : pc[s] # "idle" /\ pc[t] # "idle" => s = t
    /\ \A s \in Senders : pc[s] # "idle" =>
        /\ node \in Message /\ node.length \in build.sizes
        /\ node.at = Upto(Len(sent)) /\ Len(sent) < MaxMessages
    /\ unfenced = {} \/ \E s \in Senders : pc[s] = "fence"

\* The dispatcher copies from the first line of a message on.
CopyInv ==
    /\ dpc \notin {"copy", "handle"} => result = <<>>
    /\ dpc = "copy" => Len(result) <= total_size

\* What holds of every build.
BaseInv == Types /\ SentInv /\ SenderInv /\ CopyInv

\* The numbers of lines that messages of a build add up to.
Sums(b, S) == 0 \in S /\ \A x \in S : \A n \in b.sizes : x + n \in S

\* A build whose messages cannot fill the ring exactly: its senders leave a line
\* free, or it loads head once and the lengths never add up to the ring's.
NeverExact(b, S) == Sums(b, S) /\ Capacity \notin S

Spacious(b) ==
    b.backlog < Capacity \/ (b.oneLoad /\ \E S \in SUBSET Nat : NeverExact(b, S))

Amounts(b) == CHOOSE S \in SUBSET Nat : NeverExact(b, S)

\* The lines that wait, and those that a sender may add, leave a line free.
SpaceInv ==
    /\ build.backlog >= Capacity =>
        \A n \in Dequeued .. Len(sent) : Upto(Len(sent)) - Upto(n) \in Amounts(build)
    /\ build.backlog < Capacity =>
        \A s \in Senders : pc[s] # "idle" => Waiting + node.length <= build.backlog
    /\ \A s \in Senders : pc[s] = "fence" => Waiting + node.length < Capacity

\* A copied line is on its way or in its place behind the tail.
Store(k) == [line |-> Line(tail, k - 1), value |-> Parts(node)[k]]

StoreInv ==
    /\ \A w \in unfenced : \E k \in 1 .. node.length : w = Store(k)
    /\ \A s \in Senders : pc[s] = "fence" =>
        \A k \in 1 .. node.length : Store(k) \in unfenced \/ msg[Line(tail, k - 1)] = Parts(node)[k]

\* What dequeue_msg has found and copied is of the first message that waits.
ReadInv ==
    /\ Dequeued <= Len(sent) /\ dpc # "overrun"
    /\ dpc \in {"length", "copy"} => Dequeued < Len(sent)
    /\ dpc = "copy" =>
        /\ total_size = sent[Dequeued + 1].length
        /\ \A k \in 1 .. Len(result) : result[k] = Parts(sent[Dequeued + 1])[k]
    /\ dpc = "handle" => result = Parts(sent[Dequeued])

RingInv == BaseInv /\ ReadInv /\ RingHolds /\ SpaceInv /\ StoreInv

-----------------------------------------------------------------------------
(* Numbers and sequences.                                                  *)

\* Zenon proves the steps that name no other prover.
USE Zenon

LEMMA Sizes == Capacity \in Nat /\ Capacity >= 1 /\ MaxMessages \in Nat /\ MaxLength \in Nat
BY CapacityAssumption, SMT

\* A bound of the lines of one more message.
LEMMA Bounded ==
  ASSUME NEW n \in Nat, n < MaxMessages, NEW x \in Nat, x <= n * Capacity, NEW y \in 1 .. Capacity
  PROVE  x \in 0 .. MaxMessages * Capacity /\ x + y <= (n + 1) * Capacity
<1>1. (n + 1) * Capacity = n * Capacity + Capacity /\ n * Capacity \in Nat
  BY Sizes, SMT
<1>2. n * Capacity <= MaxMessages * Capacity /\ MaxMessages * Capacity \in Nat
  BY Sizes, SMT
<1> QED BY <1>1, <1>2, Sizes, SMT

\* The parts of a message.
LEMMA PartsAre ==
  ASSUME NEW m \in Message
  PROVE  /\ m.length \in 1 .. Capacity /\ m.at \in Nat
         /\ Parts(m) \in Seq(Part) /\ Len(Parts(m)) = m.length
         /\ \A k \in 1 .. m.length : Parts(m)[k] = [of |-> m, part |-> k]
<1>1. m.length \in 1 .. Capacity /\ m.at \in Nat /\ m.length \in Nat
  BY Sizes, SMT DEF Message
<1>2. \A k \in 1 .. m.length : [of |-> m, part |-> k] \in Part
  BY <1>1, Sizes, SMT DEF Part
<1>3. Parts(m) \in [1 .. m.length -> Part]
  BY <1>2 DEF Parts
<1>4. Parts(m) \in Seq(Part) /\ Len(Parts(m)) = m.length
  BY <1>1, <1>3, SMT
<1> QED BY <1>1, <1>4 DEF Parts

\* The lines of the ring.
LEMMA LineIs ==
  ASSUME NEW p \in Lines, NEW x \in 0 .. Capacity
  PROVE  /\ Line(p, x) \in Lines
         /\ \A y \in 0 .. Capacity - 1 : x < Capacity /\ Line(p, x) = Line(p, y) => x = y
         /\ \A y \in 0 .. Capacity - x : Line(Line(p, x), y) = Line(p, x + y)
BY Sizes, SMT DEF Line, Lines

LEMMA LenProperties ==
  ASSUME NEW S, NEW s \in Seq(S)
  PROVE  Len(s) \in Nat /\ DOMAIN s = 1 .. Len(s) /\ \A n \in 1 .. Len(s) : s[n] \in S
BY SMT

LEMMA AppendProperties ==
  ASSUME NEW S, NEW s \in Seq(S), NEW e \in S
  PROVE  /\ Append(s, e) \in Seq(S) /\ Len(Append(s, e)) = Len(s) + 1
         /\ \A n \in 1 .. Len(s) : Append(s, e)[n] = s[n]
         /\ Append(s, e)[Len(s) + 1] = e
BY SMT
-----------------------------------------------------------------------------
(* Every build.                                                            *)

LEMMA Counts ==
  ASSUME Types
  PROVE  /\ Len(sent) \in Nat /\ \A n \in 1 .. Len(sent) : sent[n] \in Message
         /\ Len(received) \in Nat /\ Dequeued \in Nat
         /\ Len(result) \in Nat /\ \A k \in 1 .. Len(result) : result[k] \in Part
         /\ \A n \in 0 .. Len(sent) : Upto(n) \in Nat
         /\ build.sizes \subseteq 1 .. Capacity /\ build.backlog \in Nat
<1>1. Len(sent) \in Nat /\ \A n \in 1 .. Len(sent) : sent[n] \in Message
  BY LenProperties DEF Types
<1>2. Len(received) \in Nat
  BY LenProperties DEF Types
<1>3. Len(result) \in Nat /\ \A k \in 1 .. Len(result) : result[k] \in Part
  BY LenProperties DEF Types
<1>4. Dequeued \in Nat
  BY <1>2, SMT DEF Dequeued
<1>5. ASSUME NEW n \in 0 .. Len(sent) PROVE Upto(n) \in Nat
  <2>1. CASE n = 0
    BY <2>1, SMT DEF Upto
  <2>2. CASE n # 0
    <3>1. n \in 1 .. Len(sent)
      BY <1>1, <2>2, SMT
    <3>2. sent[n].at \in Nat /\ sent[n].length \in Nat
      BY <1>1, <3>1, PartsAre, Sizes, SMT
    <3> QED BY <2>2, <3>2, SMT DEF Upto
  <2> QED BY <2>1, <2>2
<1>6. build.sizes \subseteq 1 .. Capacity /\ build.backlog \in Nat
  BY BuildAssumption DEF Types
<1> QED BY <1>1, <1>2, <1>3, <1>4, <1>5, <1>6

\* What a step has to keep for the invariants of the senders.
LEMMA SendersKept ==
  ASSUME SentInv, SenderInv, UNCHANGED <<pc, node, sent, unfenced, build>>
  PROVE  SentInv' /\ SenderInv'
BY DEF SentInv, SenderInv, Upto

LEMMA InitBase == Init => BaseInv
<1> SUFFICES ASSUME Init PROVE BaseInv
  OBVIOUS
<1> USE DEF Init
<1>1. Types
  <2>1. head \in Lines /\ tail \in Lines /\ total_size \in 0 .. Capacity
    BY Sizes, SMT DEF Lines
  <2>2. msg \in [Lines -> Part]
    <3>1. Blank \in Part
      BY Sizes, SMT DEF Blank, Part
    <3> QED BY <3>1
  <2>3. result \in Seq(Part) /\ Len(result) <= Capacity
    BY Sizes, SMT
  <2>4. sent \in Seq(Message) /\ received \in Seq(Message \cup {NoMessage})
    BY SMT
  <2> QED BY <2>1, <2>2, <2>3, <2>4 DEF Types
<1>2. SentInv
  BY Sizes, SMT DEF SentInv, Upto
<1>3. SenderInv /\ CopyInv
  BY DEF SenderInv, CopyInv
<1> QED BY <1>1, <1>2, <1>3 DEF BaseInv

\* A step of the dispatcher, or a store, and Stop.
LEMMA DispatchBase ==
  ASSUME BaseInv, Dispatch \/ Stop \/ UNCHANGED vars
  PROVE  BaseInv'
<1> USE DEF queue, sender, dispatcher, control, vars
<1>0. Types /\ SentInv /\ SenderInv /\ CopyInv
  BY DEF BaseInv
<1>1. UNCHANGED <<tail, msg, pc, node, ahead, sent, unfenced, build>>
  BY DEF Dispatch, CheckStop, Look, ReadLength, CopyOut, PublishHead, Handle, Stop
<1>2. SentInv' /\ SenderInv'
  BY <1>0, <1>1, SendersKept
<1>3. ASSUME head' \in Lines,
             dpc' \in {"poll", "look", "length", "copy", "handle", "stopped", "overrun"},
             dpc' # "overrun" => total_size' \in 0 .. Capacity, result' \in Seq(Part), Len(result') <= Capacity,
             stop' \in BOOLEAN, received' \in Seq(Message \cup {NoMessage}), CopyInv'
      PROVE  BaseInv'
  BY <1>0, <1>1, <1>2, <1>3 DEF BaseInv, Types
<1>4. CASE CheckStop \/ Look \/ Stop \/ UNCHANGED vars
  <2>1. UNCHANGED <<head, total_size, result, received>>
    BY <1>4 DEF CheckStop, Look, Stop
  <2>2. /\ dpc' \in {"poll", "look", "length", "copy", "handle", "stopped", "overrun"}
        /\ stop' \in BOOLEAN
        /\ \/ dpc' = dpc
           \/ dpc \notin {"copy", "handle", "overrun"} /\ dpc' \notin {"copy", "handle", "overrun"}
    BY <1>0, <1>4 DEF CheckStop, Look, Stop, Types
  <2>3. CopyInv'
    BY <1>0, <2>1, <2>2 DEF CopyInv
  <2> QED BY <1>0, <1>3, <2>1, <2>2, <2>3 DEF Types
<1>5. CASE ReadLength
  <2>1. /\ UNCHANGED <<head, result, received, stop>> /\ dpc = "length"
        /\ total_size' \in IF msg[head].part = 1 THEN {msg[head].of.length} ELSE 0 .. MaxLength
        /\ dpc' = IF total_size' <= Capacity THEN "copy" ELSE "overrun"
    BY <1>5 DEF ReadLength
  <2>2. msg[head].of.length \in Nat
    <3>1. msg[head] \in Part
      BY <1>0 DEF Types
    <3> QED BY <3>1, Sizes, SMT DEF Part, Message, NoMessage
  <2>3. total_size' \in Nat
    <3>1. \A n \in 0 .. MaxLength : n \in Nat
      BY Sizes, SMT
    <3> QED BY <2>1, <2>2, <3>1
  <2>4. dpc' \in {"copy", "overrun"} /\ (dpc' # "overrun" => total_size' <= Capacity)
    BY <2>1
  <2>5. dpc' # "overrun" => total_size' \in 0 .. Capacity
    <3>1. total_size' <= Capacity => total_size' \in 0 .. Capacity
      BY <2>3, Sizes, SMT
    <3> QED BY <2>4, <3>1
  <2>6. CopyInv'
    <3>1. result' = <<>>
      BY <1>0, <2>1 DEF CopyInv
    <3>2. Len(result') <= total_size'
      BY <2>3, <3>1, SMT
    <3> QED BY <3>1, <3>2 DEF CopyInv
  <2> QED BY <1>0, <1>3, <2>1, <2>4, <2>5, <2>6 DEF Types
<1>6. CASE CopyOut
  <2>1. /\ UNCHANGED <<head, total_size, received, stop, dpc>> /\ dpc = "copy"
        /\ Len(result) < total_size /\ result' = Append(result, msg[Line(head, Len(result))])
    BY <1>6 DEF CopyOut
  <2>2. msg[Line(head, Len(result))] \in Part
    <3>1. Len(result) \in 0 .. Capacity
      BY <1>0, Counts, SMT DEF Types
    <3>2. Line(head, Len(result)) \in Lines
      BY <1>0, <3>1, LineIs DEF Types
    <3> QED BY <1>0, <3>2 DEF Types
  <2>3. result' \in Seq(Part) /\ Len(result') = Len(result) + 1
    BY <1>0, <2>1, <2>2, AppendProperties DEF Types
  <2>4. Len(result') <= total_size' /\ Len(result') <= Capacity
    <3>1. Len(result) \in Nat /\ total_size \in 0 .. Capacity
      BY <1>0, <2>1, Counts DEF Types
    <3> QED BY <2>1, <2>3, <3>1, Sizes, SMT
  <2>5. CopyInv'
    BY <2>1, <2>4 DEF CopyInv
  <2> QED BY <1>0, <1>3, <2>1, <2>3, <2>4, <2>5 DEF Types
<1>7. CASE PublishHead
  <2>1. /\ UNCHANGED <<result, received, stop>> /\ dpc = "copy" /\ dpc' = "handle"
        /\ head' = Line(head, total_size) /\ total_size' = 0
    BY <1>7 DEF PublishHead
  <2>2. head' \in Lines /\ total_size' \in 0 .. Capacity
    <3>1. head \in Lines /\ total_size \in 0 .. Capacity
      BY <1>0, <2>1 DEF Types
    <3>2. 0 \in 0 .. Capacity
      BY Sizes, SMT
    <3> QED BY <2>1, <3>1, <3>2, LineIs
  <2>3. CopyInv'
    BY <2>1 DEF CopyInv
  <2> QED BY <1>0, <1>3, <2>1, <2>2, <2>3 DEF Types
<1>8. CASE Handle
  <2> DEFINE m == IF \E m \in Message : result = Parts(m) THEN result[1].of ELSE NoMessage
  <2>1. /\ UNCHANGED <<head, total_size, stop>> /\ dpc = "handle" /\ dpc' = "poll"
        /\ result' = <<>> /\ received' = Append(received, m)
    BY <1>8 DEF Handle
  <2>2. m \in Message \cup {NoMessage}
    <3>1. ASSUME NEW e \in Message, result = Parts(e) PROVE result[1].of = e
      <4>1. 1 \in 1 .. e.length
        BY PartsAre, Sizes, SMT
      <4>2. result[1] = [of |-> e, part |-> 1]
        BY <3>1, <4>1, PartsAre
      <4> QED BY <4>2, SMT
    <3>2. (\E e \in Message : result = Parts(e)) => result[1].of \in Message
      BY <3>1
    <3> QED BY <3>2
  <2> HIDE DEF m
  <2>3. received' \in Seq(Message \cup {NoMessage})
    BY <1>0, <2>1, <2>2, AppendProperties DEF Types
  <2>4. result' \in Seq(Part) /\ Len(result') <= Capacity
    BY <2>1, Sizes, SMT
  <2>5. CopyInv'
    BY <2>1 DEF CopyInv
  <2> QED BY <1>0, <1>3, <2>1, <2>3, <2>4, <2>5 DEF Types
<1> QED BY <1>4, <1>5, <1>6, <1>7, <1>8 DEF Dispatch

\* A thread's step in sendMsg, of which others see nothing.
LEMMA OneActive ==
  ASSUME Types, SenderInv, NEW s \in Senders, NEW step, pc' = [pc EXCEPT ![s] = step],
         pc[s] # "idle" \/ \A t \in Senders : pc[t] = "idle"
  PROVE  /\ pc'[s] = step /\ \A t \in Senders \ {s} : pc[t] = "idle" /\ pc'[t] = "idle"
         /\ \A t, u \in Senders : pc'[t] # "idle" /\ pc'[u] # "idle" => t = u
<1>1. pc'[s] = step /\ \A t \in Senders \ {s} : pc'[t] = pc[t]
  BY DEF Types
<1>2. \A t \in Senders \ {s} : pc[t] = "idle"
  BY DEF SenderInv
<1>3. ASSUME NEW t \in Senders, pc'[t] # "idle" PROVE t = s
  BY <1>1, <1>2, <1>3
<1> QED BY <1>1, <1>2, <1>3

LEMMA EnqueueBase ==
  ASSUME BaseInv, NEW s \in Senders, CompareEnds(s) \/ CopyIn(s) \/ queue_full(s)
  PROVE  BaseInv'
<1> USE DEF queue, sender, dispatcher, control
<1>0. Types /\ SentInv /\ SenderInv /\ CopyInv
  BY DEF BaseInv
<1>1. /\ UNCHANGED <<head, tail, msg, node, sent, dpc, total_size, result, received, stop, build>>
      /\ pc[s] \in {"compare", "measure"}
  BY DEF CompareEnds, CopyIn, queue_full
<1>a. ahead' \in BOOLEAN
  <2>1. CASE CompareEnds(s)
    BY <2>1, SMT DEF CompareEnds
  <2>2. CASE CopyIn(s) \/ queue_full(s)
    BY <2>2 DEF CopyIn, queue_full
  <2> QED BY <2>1, <2>2
<1>2. PICK step \in {"measure", "fence", "exit"} :
        pc' = [pc EXCEPT ![s] = step] /\ (unfenced' = unfenced \/ step = "fence")
  BY DEF CompareEnds, CopyIn, queue_full
<1>3. pc' \in [Senders -> {"idle", "compare", "measure", "fence", "exit"}]
  BY <1>0, <1>2 DEF Types
<1>4. /\ pc'[s] = step /\ \A t \in Senders \ {s} : pc[t] = "idle" /\ pc'[t] = "idle"
      /\ \A t, u \in Senders : pc'[t] # "idle" /\ pc'[u] # "idle" => t = u
  BY <1>0, <1>1, <1>2, OneActive
<1>5. SentInv' /\ CopyInv'
  BY <1>0, <1>1 DEF SentInv, Upto, CopyInv
<1>6. /\ node \in Message /\ node.length \in build.sizes
      /\ node.at = Upto(Len(sent)) /\ Len(sent) < MaxMessages
  BY <1>0, <1>1 DEF SenderInv
<1>7. SenderInv'
  <2>1. unfenced' = {} \/ \E t \in Senders : pc'[t] = "fence"
    <3>1. CASE step = "fence"
      BY <1>4, <3>1
    <3>2. CASE unfenced' = unfenced
      <4>1. \A t \in Senders : pc[t] # "fence"
        BY <1>1, <1>4
      <4> QED BY <1>0, <3>2, <4>1 DEF SenderInv
    <3> QED BY <1>2, <3>1, <3>2
  <2>2. node' \in Message /\ node'.length \in build'.sizes /\ node'.at = Upto(Len(sent))' /\ Len(sent)' < MaxMessages
    BY <1>1, <1>6 DEF Upto
  <2> QED BY <1>4, <2>1, <2>2 DEF SenderInv
<1>8. unfenced' \subseteq [line : Lines, value : Part]
  <2>1. CASE CopyIn(s)
    <3> DEFINE W == {[line |-> Line(tail, k - 1), value |-> Parts(node)[k]] : k \in 1 .. node.length}
    <3>1. unfenced' = unfenced \cup W
      BY <2>1 DEF CopyIn
    <3>2. ASSUME NEW k \in 1 .. node.length
          PROVE  [line |-> Line(tail, k - 1), value |-> Parts(node)[k]] \in [line : Lines, value : Part]
      <4>1. k - 1 \in 0 .. Capacity
        BY <1>6, PartsAre, Sizes, SMT
      <4>2. Line(tail, k - 1) \in Lines
        BY <1>0, <4>1, LineIs DEF Types
      <4>3. Parts(node)[k] \in Part
        BY <1>6, PartsAre, LenProperties
      <4> QED BY <4>2, <4>3
    <3>3. W \subseteq [line : Lines, value : Part]
      BY <3>2
    <3> QED BY <1>0, <3>1, <3>3 DEF Types
  <2>2. CASE unfenced' = unfenced
    BY <1>0, <2>2 DEF Types
  <2> QED BY <2>1, <2>2 DEF CompareEnds, queue_full
<1>9. Types'
  BY <1>0, <1>1, <1>a, <1>3, <1>8 DEF Types
<1> QED BY <1>5, <1>7, <1>9 DEF BaseInv

LEMMA SendBase ==
  ASSUME BaseInv, NEW s \in Senders, NEW length \in 1 .. Capacity, sendMsg(s, length)
  PROVE  BaseInv'
<1> USE DEF queue, sender, dispatcher, control
<1>0. Types /\ SentInv /\ SenderInv /\ CopyInv
  BY DEF BaseInv
<1>1. /\ UNCHANGED <<head, tail, msg, ahead, sent, unfenced, dpc, total_size, result, received, stop, build>>
      /\ length \in build.sizes /\ Len(sent) < MaxMessages /\ \A t \in Senders : pc[t] = "idle"
      /\ node' = [at |-> Upto(Len(sent)), length |-> length]
  BY DEF sendMsg
<1>2. PICK step \in {"compare", "measure"} : pc' = [pc EXCEPT ![s] = step]
  BY DEF sendMsg
<1>3. pc' \in [Senders -> {"idle", "compare", "measure", "fence", "exit"}]
  BY <1>0, <1>2 DEF Types
<1>4. \A t, u \in Senders : pc'[t] # "idle" /\ pc'[u] # "idle" => t = u
  BY <1>0, <1>1, <1>2, OneActive
<1>5. SentInv' /\ CopyInv'
  BY <1>0, <1>1 DEF SentInv, Upto, CopyInv
<1>6. node' \in Message /\ node'.length = length /\ node'.at = Upto(Len(sent))
  <2>1. Len(sent) \in Nat /\ Upto(Len(sent)) \in Nat
    <3>1. Len(sent) \in Nat
      BY <1>0, Counts
    <3>2. Len(sent) \in 0 .. Len(sent)
      BY <3>1, SMT
    <3> QED BY <1>0, <3>1, <3>2, Counts
  <2>2. Upto(Len(sent)) <= Len(sent) * Capacity
    <3>1. CASE Len(sent) = 0
      BY <3>1, Sizes, SMT DEF Upto
    <3>2. CASE Len(sent) # 0
      <4>1. Len(sent) \in 1 .. Len(sent)
        BY <2>1, <3>2, SMT
      <4> QED BY <1>0, <4>1 DEF SentInv
    <3> QED BY <3>1, <3>2
  <2>3. Upto(Len(sent)) \in 0 .. MaxMessages * Capacity
    BY <1>1, <2>1, <2>2, Bounded
  <2> QED BY <1>1, <2>3, SMT DEF Message
<1>7. SenderInv'
  <2>1. unfenced' = {}
    BY <1>0, <1>1 DEF SenderInv
  <2>2. node'.length \in build'.sizes /\ node'.at = Upto(Len(sent))' /\ Len(sent)' < MaxMessages
    BY <1>1, <1>6 DEF Upto
  <2> QED BY <1>4, <1>6, <2>1, <2>2 DEF SenderInv
<1>8. Types'
  BY <1>0, <1>1, <1>3, <1>6 DEF Types
<1> QED BY <1>5, <1>7, <1>8 DEF BaseInv

\* One more message has been sent.
LEMMA OneMore ==
  ASSUME Types, node \in Message, node.at = Upto(Len(sent)), sent' = Append(sent, node)
  PROVE  /\ sent' \in Seq(Message) /\ Len(sent') = Len(sent) + 1
         /\ \A n \in 1 .. Len(sent) : sent'[n] = sent[n]
         /\ sent'[Len(sent) + 1] = node
         /\ \A n \in 0 .. Len(sent) : Upto(n)' = Upto(n)
         /\ \A n : n = Len(sent) + 1 => Upto(n)' = Upto(Len(sent)) + node.length
<1>1. /\ sent' \in Seq(Message) /\ Len(sent') = Len(sent) + 1
      /\ \A n \in 1 .. Len(sent) : sent'[n] = sent[n]
      /\ sent'[Len(sent) + 1] = node
  <2>1. sent \in Seq(Message)
    BY DEF Types
  <2> QED BY <2>1, SMT
<1>2. Len(sent) \in Nat
  BY Counts
<1>3. ASSUME NEW n \in 0 .. Len(sent) PROVE Upto(n)' = Upto(n)
  <2>1. n = 0 \/ n \in 1 .. Len(sent)
    BY <1>2, SMT
  <2> QED BY <1>1, <2>1 DEF Upto
<1>4. ASSUME NEW n, n = Len(sent) + 1 PROVE Upto(n)' = node.at + node.length
  <2>1. n # 0
    BY <1>2, <1>4, SMT
  <2> QED BY <1>1, <1>4, <2>1 DEF Upto
<1> QED BY <1>1, <1>3, <1>4

LEMMA PublishBase ==
  ASSUME BaseInv, NEW s \in Senders, PublishTail(s)
  PROVE  BaseInv'
<1> USE DEF queue, sender, dispatcher, control
<1>0. Types /\ SentInv /\ SenderInv /\ CopyInv
  BY DEF BaseInv
<1>1. /\ UNCHANGED <<head, msg, ahead, unfenced, dpc, total_size, result, received, stop, build>>
      /\ pc[s] = "fence" /\ unfenced = {} /\ tail' = Line(tail, node.length)
      /\ sent' = Append(sent, node) /\ node' = NoMessage /\ pc' = [pc EXCEPT ![s] = "idle"]
  BY DEF PublishTail, Fenced
<1>2. /\ node \in Message /\ node.length \in build.sizes
      /\ node.at = Upto(Len(sent)) /\ Len(sent) < MaxMessages
  BY <1>0, <1>1 DEF SenderInv
<1>3. /\ sent' \in Seq(Message) /\ Len(sent') = Len(sent) + 1
      /\ \A n \in 1 .. Len(sent) : sent'[n] = sent[n]
      /\ sent'[Len(sent) + 1] = node
      /\ \A n \in 0 .. Len(sent) : Upto(n)' = Upto(n)
      /\ \A n : n = Len(sent) + 1 => Upto(n)' = Upto(Len(sent)) + node.length
  BY <1>0, <1>1, <1>2, OneMore
<1>4. Len(sent) \in Nat /\ Upto(Len(sent)) \in Nat /\ node.length \in 1 .. Capacity
  <2>1. Len(sent) \in Nat
    BY <1>0, Counts
  <2>2. Len(sent) \in 0 .. Len(sent)
    BY <2>1, SMT
  <2> QED BY <1>0, <1>2, <2>1, <2>2, Counts, PartsAre
<1>5. SentInv'
  <2>1. Len(sent') <= MaxMessages
    BY <1>2, <1>3, <1>4, Sizes, SMT
  <2>2. ASSUME NEW n \in 1 .. Len(sent')
        PROVE  sent'[n].at = Upto(n - 1)' /\ Upto(n)' <= n * Capacity
    <3>1. n - 1 \in 0 .. Len(sent)
      BY <1>3, <1>4, SMT
    <3>2. Upto(n - 1)' = Upto(n - 1)
      BY <1>3, <3>1
    <3>3. CASE n \in 1 .. Len(sent)
      <4>1. n \in 0 .. Len(sent)
        BY <3>3, SMT
      <4> QED BY <1>0, <1>3, <3>2, <3>3, <4>1 DEF SentInv
    <3>4. CASE n = Len(sent) + 1
      <4>1. n - 1 = Len(sent)
        BY <1>4, <3>4, SMT
      <4>2. sent'[n].at = Upto(n - 1)'
        BY <1>2, <1>3, <3>2, <3>4, <4>1
      <4>3. Upto(Len(sent)) <= Len(sent) * Capacity
        <5>1. Len(sent) = 0 \/ Len(sent) \in 1 .. Len(sent)
          BY <1>4, SMT
        <5>2. CASE Len(sent) = 0
          BY <5>2, Sizes, SMT DEF Upto
        <5> QED BY <1>0, <5>1, <5>2 DEF SentInv
      <4>4. Upto(Len(sent)) + node.length <= (Len(sent) + 1) * Capacity
        BY <1>2, <1>4, <4>3, Bounded
      <4> QED BY <1>3, <3>4, <4>2, <4>4
    <3> QED BY <1>3, <1>4, <3>3, <3>4, SMT
  <2>3. ASSUME NEW m \in 0 .. Len(sent'), NEW n \in 0 .. Len(sent'), m <= n
        PROVE  Upto(m)' <= Upto(n)'
    <3>1. CASE n \in 0 .. Len(sent)
      <4>1. m \in 0 .. Len(sent)
        BY <1>3, <1>4, <2>3, <3>1, SMT
      <4> QED BY <1>0, <1>3, <2>3, <3>1, <4>1 DEF SentInv
    <3>2. CASE n = Len(sent')
      <4>1. CASE m = n
        <5>1. Upto(n)' \in Nat
          BY <1>3, <1>4, <3>2, SMT
        <5> QED BY <4>1, <5>1, SMT
      <4>2. CASE m \in 0 .. Len(sent)
        <5>1. Upto(m) \in Nat /\ Upto(m) <= Upto(Len(sent))
          <6>1. Len(sent) \in 0 .. Len(sent) /\ m <= Len(sent)
            BY <1>4, <4>2, SMT
          <6> QED BY <1>0, <4>2, <6>1, Counts DEF SentInv
        <5>2. Upto(m)' = Upto(m)
          BY <1>3, <4>2
        <5>3. Upto(m) <= Upto(Len(sent)) + node.length
          BY <1>4, <5>1, SMT
        <5> QED BY <1>3, <3>2, <5>2, <5>3
      <4> QED BY <1>3, <1>4, <2>3, <3>2, <4>1, <4>2, SMT
    <3> QED BY <1>3, <1>4, <3>1, <3>2, SMT
  <2> QED BY <2>1, <2>2, <2>3 DEF SentInv
<1>6. SenderInv' /\ \A t \in Senders : pc'[t] = "idle"
  <2>1. /\ pc'[s] = "idle" /\ \A t \in Senders \ {s} : pc'[t] = "idle"
    BY <1>0, <1>1, OneActive
  <2>2. \A t \in Senders : pc'[t] = "idle"
    BY <2>1
  <2> QED BY <1>1, <2>2 DEF SenderInv
<1>7. Types'
  <2>1. tail' \in Lines
    <3>1. node.length \in 0 .. Capacity
      BY <1>4, SMT
    <3> QED BY <1>0, <1>1, <3>1, LineIs DEF Types
  <2>2. pc' \in [Senders -> {"idle", "compare", "measure", "fence", "exit"}]
    BY <1>0, <1>1 DEF Types
  <2> QED BY <1>0, <1>1, <1>3, <2>1, <2>2 DEF Types
<1>8. CopyInv'
  BY <1>0, <1>1 DEF CopyInv
<1> QED BY <1>5, <1>6, <1>7, <1>8 DEF BaseInv

LEMMA StoreBase ==
  ASSUME BaseInv, StoreLine
  PROVE  BaseInv'
<1> USE DEF sender, dispatcher, control
<1>0. Types /\ SentInv /\ SenderInv /\ CopyInv
  BY DEF BaseInv
<1>1. PICK w \in unfenced : /\ msg' = [msg EXCEPT ![w.line] = w.value] /\ unfenced' = unfenced \ {w}
                            /\ UNCHANGED <<head, tail, sender, dispatcher, control>>
  BY DEF StoreLine
<1>2. w.line \in Lines /\ w.value \in Part
  BY <1>0 DEF Types
<1>3. msg' \in [Lines -> Part]
  BY <1>0, <1>1, <1>2 DEF Types
<1>4. Types'
  BY <1>0, <1>1, <1>3 DEF Types
<1>5. SentInv' /\ CopyInv'
  BY <1>0, <1>1 DEF SentInv, Upto, CopyInv
<1>6. SenderInv'
  BY <1>0, <1>1 DEF SenderInv, Upto
<1> QED BY <1>4, <1>5, <1>6 DEF BaseInv

LEMMA NextBase ==
  ASSUME BaseInv, [Next]_vars
  PROVE  BaseInv'
BY DispatchBase, EnqueueBase, SendBase, PublishBase, StoreBase DEF Next, Enqueue

\* BaseInv is an invariant of every build.
THEOREM BaseHolds == Spec => []BaseInv
<1>1. BaseInv /\ [Next]_vars => BaseInv'
  BY NextBase
<1> QED BY <1>1, InitBase, PTL DEF Spec

-----------------------------------------------------------------------------
(* The builds whose messages cannot fill the ring exactly: the dispatcher. *)

LEMMA Within ==
  ASSUME BaseInv, ReadInv, RingHolds
  PROVE  /\ Len(sent) \in Nat /\ Dequeued \in 0 .. Len(sent)
         /\ \A n \in 1 .. Len(sent) : sent[n] \in Message /\ sent[n].length \in 1 .. Capacity
         /\ \A n \in 0 .. Len(sent) : Upto(n) \in Nat
         /\ Waiting \in 0 .. Capacity - 1 /\ head \in Lines /\ tail \in Lines
         /\ head = tail => Waiting = 0
<1>0. Types /\ SentInv
  BY DEF BaseInv
<1>1. Len(sent) \in Nat /\ Dequeued \in Nat /\ \A n \in 0 .. Len(sent) : Upto(n) \in Nat
  BY <1>0, Counts
<1>2. Dequeued \in 0 .. Len(sent) /\ Len(sent) \in 0 .. Len(sent)
  BY <1>1, SMT DEF ReadInv
<1>3. \A n \in 1 .. Len(sent) : sent[n] \in Message /\ sent[n].length \in 1 .. Capacity
  BY <1>0, Counts, PartsAre
<1>4. Upto(Dequeued) <= Upto(Len(sent))
  BY <1>0, <1>2 DEF SentInv, ReadInv
<1>5. Waiting \in 0 .. Capacity - 1
  <2>1. Upto(Dequeued) \in Nat /\ Upto(Len(sent)) \in Nat
    BY <1>1, <1>2
  <2> QED BY <1>4, <2>1, Sizes, SMT DEF Waiting, RingHolds
<1>6. head \in Lines /\ tail \in Lines
  BY <1>0 DEF Types
<1>7. head = tail => Waiting = 0
  <2>1. tail = Line(head, Waiting)
    BY DEF RingHolds
  <2> QED BY <1>5, <1>6, <2>1, Sizes, SMT DEF Line, Lines
<1> QED BY <1>1, <1>2, <1>3, <1>5, <1>6, <1>7

\* Where the lines of a message that waits are.
LEMMA Placed ==
  ASSUME BaseInv, ReadInv, RingHolds, NEW n \in Dequeued + 1 .. Len(sent), NEW k \in 1 .. sent[n].length
  PROVE  /\ n \in 1 .. Len(sent) /\ sent[n] \in Message /\ sent[n].at \in Nat /\ sent[n].length \in 1 .. Capacity
         /\ sent[n].at - Upto(Dequeued) + k - 1 \in 0 .. Waiting - 1
         /\ Parts(sent[n])[k] = [of |-> sent[n], part |-> k]
<1>1. /\ Len(sent) \in Nat /\ Dequeued \in 0 .. Len(sent)
      /\ \A i \in 1 .. Len(sent) : sent[i] \in Message /\ sent[i].length \in 1 .. Capacity
      /\ \A i \in 0 .. Len(sent) : Upto(i) \in Nat
  BY Within
<1>2. /\ n \in 1 .. Len(sent) /\ n - 1 \in 0 .. Len(sent) /\ n \in 0 .. Len(sent)
      /\ Len(sent) \in 0 .. Len(sent) /\ Dequeued <= n - 1 /\ n <= Len(sent) /\ n # 0
  BY <1>1, SMT
<1>3. sent[n] \in Message /\ sent[n].length \in 1 .. Capacity /\ sent[n].at \in Nat
  BY <1>1, <1>2, PartsAre
<1>4. /\ sent[n].at = Upto(n - 1) /\ Upto(Dequeued) <= Upto(n - 1) /\ Upto(n) <= Upto(Len(sent))
  BY <1>1, <1>2 DEF BaseInv, SentInv
<1>5. Upto(n) = sent[n].at + sent[n].length
  BY <1>2 DEF Upto
<1>6. Upto(Dequeued) \in Nat /\ Upto(Len(sent)) \in Nat
  BY <1>1, <1>2
<1>7. sent[n].at - Upto(Dequeued) + k - 1 \in 0 .. Waiting - 1
  <2>1. sent[n].at >= Upto(Dequeued) /\ sent[n].at + sent[n].length <= Upto(Len(sent))
    BY <1>3, <1>4, <1>5, <1>6, SMT
  <2>2. Waiting = Upto(Len(sent)) - Upto(Dequeued)
    BY DEF Waiting
  <2>3. ASSUME NEW a \in Nat, NEW d \in Nat, NEW u \in Nat, NEW l \in 1 .. Capacity,
               NEW j \in 1 .. l, a >= d, a + l <= u
        PROVE  a - d + j - 1 \in 0 .. (u - d) - 1
    BY <2>3, Sizes, SMT
  <2> QED BY <1>3, <1>6, <2>1, <2>2, <2>3
<1> QED BY <1>2, <1>3, <1>7, PartsAre

\* The line at an offset is the part of the message that waits there.
LEMMA Found ==
  ASSUME BaseInv, ReadInv, RingHolds, Dequeued < Len(sent), NEW k \in 1 .. sent[Dequeued + 1].length
  PROVE  /\ msg[Line(head, k - 1)] = Parts(sent[Dequeued + 1])[k]
         /\ Parts(sent[Dequeued + 1])[k] = [of |-> sent[Dequeued + 1], part |-> k]
<1>1. Len(sent) \in Nat /\ Dequeued \in 0 .. Len(sent) /\ \A i \in 0 .. Len(sent) : Upto(i) \in Nat
  BY Within
<1> DEFINE n == Dequeued + 1
<1>2. n \in Dequeued + 1 .. Len(sent) /\ n \in 1 .. Len(sent) /\ n - 1 = Dequeued
  BY <1>1, SMT
<1>3. sent[n].at = Upto(Dequeued)
  BY <1>2 DEF BaseInv, SentInv
<1>4. sent[n].at - Upto(Dequeued) + k - 1 = k - 1
  <2>1. Upto(Dequeued) \in Nat /\ k \in Int
    BY <1>1, SMT
  <2> QED BY <1>3, <2>1, SMT
<1>5. msg[Line(head, sent[n].at - Upto(Dequeued) + k - 1)] = Parts(sent[n])[k]
  BY <1>2 DEF RingHolds
<1>6. Parts(sent[n])[k] = [of |-> sent[n], part |-> k]
  BY <1>2, Placed
<1> QED BY <1>4, <1>5, <1>6

\* A step that moves no pointer.
LEMMA Unmoved ==
  ASSUME RingInv, UNCHANGED <<head, tail, msg, sent, pc, node, unfenced, build>>, Dequeued' = Dequeued
  PROVE  RingHolds' /\ SpaceInv' /\ StoreInv' /\ \A n : Upto(n)' = Upto(n)
<1>1. \A n : Upto(n)' = Upto(n)
  BY DEF Upto
<1>2. Waiting' = Waiting
  BY DEF Waiting, Upto
<1>3. RingHolds'
  <2>1. RingHolds
    BY DEF RingInv
  <2> QED BY <1>1, <1>2, <2>1, SMT DEF RingHolds
<1>4. SpaceInv'
  <2>1. SpaceInv
    BY DEF RingInv
  <2>2. (Upto(Len(sent)))' = Upto(Len(sent))
    BY DEF Upto
  <2> QED BY <1>1, <1>2, <2>1, <2>2 DEF SpaceInv
<1>5. StoreInv'
  BY DEF StoreInv, Store, RingInv
<1> QED BY <1>1, <1>3, <1>4, <1>5

LEMMA LookRing ==
  ASSUME RingInv, CheckStop \/ Look \/ Stop \/ UNCHANGED vars
  PROVE  ReadInv' /\ RingHolds' /\ SpaceInv' /\ StoreInv' /\ UNCHANGED <<sent, received>>
<1> USE DEF queue, sender, dispatcher, control, vars
<1>0. BaseInv /\ ReadInv /\ RingHolds /\ Types
  BY DEF RingInv, BaseInv
<1>1. /\ UNCHANGED <<head, tail, msg, pc, node, sent, unfenced, build, total_size, result, received>>
      /\ dpc' = dpc \/ /\ dpc' \notin {"copy", "handle"} /\ dpc \notin {"copy", "handle"}
                       /\ dpc' # "overrun" /\ (dpc' = "length" => head # tail)
  BY DEF CheckStop, Look, Stop, is_queue_empty
<1>2. Dequeued' = Dequeued
  BY <1>1 DEF Dequeued
<1>3. RingHolds' /\ SpaceInv' /\ StoreInv'
  BY <1>1, <1>2, Unmoved
<1>4. ReadInv'
  <2>1. CASE dpc' = dpc
    BY <1>0, <1>1, <1>2, <2>1 DEF ReadInv
  <2>2. CASE dpc' \notin {"copy", "handle"} /\ dpc' # "overrun" /\ (dpc' = "length" => head # tail)
    <3>1. Len(sent) \in Nat /\ Dequeued \in 0 .. Len(sent) /\ \A i \in 0 .. Len(sent) : Upto(i) \in Nat
      BY <1>0, Within
    <3>2. ASSUME dpc' = "length" PROVE Dequeued < Len(sent)
      <4>1. Waiting # 0
        <5>1. head # tail
          BY <2>2, <3>2
        <5>2. tail = Line(head, Waiting) /\ head \in Lines
          BY <1>0 DEF RingHolds, Types
        <5> QED BY <5>1, <5>2, Sizes, SMT DEF Line, Lines
      <4>2. Dequeued # Len(sent)
        <5>1. ASSUME Dequeued = Len(sent) PROVE Waiting = 0
          <6>1. Waiting = Upto(Len(sent)) - Upto(Len(sent)) /\ Upto(Len(sent)) \in Nat
            <7>1. Len(sent) \in 0 .. Len(sent)
              BY <3>1, SMT
            <7> QED BY <3>1, <5>1, <7>1 DEF Waiting
          <6> QED BY <6>1, SMT
        <5> QED BY <4>1, <5>1
      <4>3. Dequeued \in 0 .. Len(sent) /\ Len(sent) \in Nat
        BY <3>1
      <4> QED BY <4>2, <4>3, SMT
    <3>3. Dequeued <= Len(sent)
      BY <1>0 DEF ReadInv
    <3>4. Dequeued' <= Len(sent') /\ (dpc' \in {"length", "copy"} => Dequeued' < Len(sent'))
      BY <1>1, <1>2, <2>2, <3>2, <3>3
    <3> QED BY <2>2, <3>4 DEF ReadInv
  <2> QED BY <1>1, <2>1, <2>2
<1> QED BY <1>1, <1>3, <1>4

LEMMA ReadLengthRing ==
  ASSUME RingInv, ReadLength
  PROVE  ReadInv' /\ RingHolds' /\ SpaceInv' /\ StoreInv' /\ UNCHANGED <<sent, received>>
<1> USE DEF queue, sender, dispatcher, control
<1>0. BaseInv /\ ReadInv /\ RingHolds /\ Types /\ CopyInv
  BY DEF RingInv, BaseInv
<1>1. /\ UNCHANGED <<head, tail, msg, pc, node, sent, unfenced, build, result, received>>
      /\ dpc = "length" /\ dpc' = IF total_size' <= Capacity THEN "copy" ELSE "overrun"
      /\ total_size' \in IF msg[head].part = 1 THEN {msg[head].of.length} ELSE 0 .. MaxLength
  BY DEF ReadLength
<1>2. Dequeued' = Dequeued
  <2>1. dpc # "handle" /\ dpc' # "handle"
    BY <1>1
  <2> QED BY <1>1, <2>1 DEF Dequeued
<1>3. RingHolds' /\ SpaceInv' /\ StoreInv'
  BY <1>1, <1>2, Unmoved
<1> DEFINE m == sent[Dequeued + 1]
<1>4. Dequeued < Len(sent)
  BY <1>0, <1>1 DEF ReadInv
<1>5. msg[head] = [of |-> m, part |-> 1]
  <2>1. m.length \in 1 .. Capacity
    <3>1. Dequeued + 1 \in 1 .. Len(sent)
      BY <1>0, <1>4, Within, SMT
    <3> QED BY <1>0, <3>1, Within
  <2>2. 1 \in 1 .. m.length
    BY <2>1, Sizes, SMT
  <2>3. msg[Line(head, 1 - 1)] = [of |-> m, part |-> 1]
    BY <1>0, <1>4, <2>2, Found
  <2>4. Line(head, 1 - 1) = head
    <3>1. head \in Lines
      BY <1>0 DEF Types
    <3> QED BY <3>1, Sizes, SMT DEF Line, Lines
  <2> QED BY <2>3, <2>4
<1>6. total_size' = m.length
  <2>1. msg[head].part = 1 /\ msg[head].of = m
    BY <1>5, SMT
  <2> QED BY <1>1, <2>1
<1>a. dpc' = "copy"
  <2>1. m.length \in 1 .. Capacity
    <3>1. Dequeued + 1 \in 1 .. Len(sent)
      BY <1>0, <1>4, Within, SMT
    <3> QED BY <1>0, <3>1, Within
  <2>2. m.length <= Capacity
    BY <2>1, Sizes, SMT
  <2> QED BY <1>1, <1>6, <2>2
<1>7. result' = <<>>
  BY <1>0, <1>1 DEF CopyInv
<1>8. \A k \in 1 .. Len(result') : result'[k] = Parts(m)[k]
  <2>1. 1 .. Len(result') = {}
    BY <1>7, SMT
  <2> QED BY <2>1
<1>9. ReadInv'
  <2>1. Dequeued' <= Len(sent') /\ Dequeued' < Len(sent')
    BY <1>0, <1>1, <1>2, <1>4 DEF ReadInv
  <2> QED BY <1>1, <1>a, <1>2, <1>6, <1>8, <2>1 DEF ReadInv
<1> QED BY <1>1, <1>3, <1>9

LEMMA CopyOutRing ==
  ASSUME RingInv, CopyOut
  PROVE  ReadInv' /\ RingHolds' /\ SpaceInv' /\ StoreInv' /\ UNCHANGED <<sent, received>>
<1> USE DEF queue, sender, dispatcher, control
<1>0. BaseInv /\ ReadInv /\ RingHolds /\ Types /\ CopyInv
  BY DEF RingInv, BaseInv
<1>1. /\ UNCHANGED <<head, tail, msg, pc, node, sent, unfenced, build, dpc, total_size, received>>
      /\ dpc = "copy" /\ Len(result) < total_size
      /\ result' = Append(result, msg[Line(head, Len(result))])
  BY DEF CopyOut
<1>2. Dequeued' = Dequeued
  BY <1>1 DEF Dequeued
<1>3. RingHolds' /\ SpaceInv' /\ StoreInv'
  BY <1>1, <1>2, Unmoved
<1> DEFINE m == sent[Dequeued + 1]
<1>4. /\ Dequeued < Len(sent) /\ total_size = m.length
      /\ \A k \in 1 .. Len(result) : result[k] = Parts(m)[k]
  BY <1>0, <1>1 DEF ReadInv
<1>5. Len(result) \in Nat /\ total_size \in 0 .. Capacity
  BY <1>0, <1>1, Counts DEF Types
<1>6. msg[Line(head, Len(result))] = Parts(m)[Len(result) + 1]
  <2> DEFINE k == Len(result) + 1
  <2>1. k \in 1 .. m.length /\ k - 1 = Len(result)
    BY <1>1, <1>4, <1>5, Sizes, SMT
  <2> HIDE DEF k
  <2>2. msg[Line(head, k - 1)] = Parts(m)[k]
    BY <1>0, <1>4, <2>1, Found
  <2>3. msg[Line(head, Len(result))] = Parts(m)[k]
    BY <2>1, <2>2
  <2> QED BY <2>3 DEF k
<1>7. \A k \in 1 .. Len(result') : result'[k] = Parts(m)[k]
  <2>1. /\ Len(result') = Len(result) + 1 /\ result'[Len(result) + 1] = msg[Line(head, Len(result))]
        /\ \A k \in 1 .. Len(result) : result'[k] = result[k]
    <3>1. result \in Seq(Part)
      BY <1>0 DEF Types
    <3> QED BY <1>1, <3>1, SMT
  <2>2. ASSUME NEW k \in 1 .. Len(result') PROVE k \in 1 .. Len(result) \/ k = Len(result) + 1
    BY <1>5, <2>1, SMT
  <2> QED BY <1>4, <1>6, <2>1, <2>2
<1>8. ReadInv'
  <2>1. Dequeued' <= Len(sent') /\ Dequeued' < Len(sent')
    BY <1>0, <1>1, <1>2, <1>4 DEF ReadInv
  <2> QED BY <1>1, <1>2, <1>4, <1>7, <2>1 DEF ReadInv
<1> QED BY <1>1, <1>3, <1>8

LEMMA HandleRing ==
  ASSUME RingInv, Handle
  PROVE  /\ ReadInv' /\ RingHolds' /\ SpaceInv' /\ StoreInv'
         /\ sent' = sent /\ Len(received) < Len(sent)
         /\ received' = Append(received, sent[Len(received) + 1])
<1> USE DEF queue, sender, dispatcher, control
<1>0. BaseInv /\ ReadInv /\ RingHolds /\ Types
  BY DEF RingInv, BaseInv
<1> DEFINE m == IF \E m \in Message : result = Parts(m) THEN result[1].of ELSE NoMessage
<1>1. /\ UNCHANGED <<head, tail, msg, pc, node, sent, unfenced, build>>
      /\ dpc = "handle" /\ dpc' = "poll" /\ received' = Append(received, m)
  BY DEF Handle
<1>2. Len(received) \in Nat /\ Len(received') = Len(received) + 1 /\ Dequeued = Len(received) + 1
  <2>1. Len(received) \in Nat /\ received \in Seq(Message \cup {NoMessage})
    BY <1>0, Counts DEF Types
  <2>2. Len(received') = Len(received) + 1
    BY <1>1, <2>1, SMT
  <2> QED BY <1>1, <2>1, <2>2 DEF Dequeued
<1>3. Dequeued' = Dequeued
  <2>1. Dequeued' = Len(received') + 0
    BY <1>1 DEF Dequeued
  <2> QED BY <1>2, <2>1, SMT
<1>4. RingHolds' /\ SpaceInv' /\ StoreInv'
  BY <1>1, <1>3, Unmoved
<1>5. Dequeued <= Len(sent) /\ result = Parts(sent[Dequeued])
  BY <1>0, <1>1 DEF ReadInv
<1>6. ReadInv'
  BY <1>1, <1>3, <1>5 DEF ReadInv
<1>7. Dequeued \in 1 .. Len(sent) /\ Len(received) < Len(sent)
  <2>1. Len(sent) \in Nat
    BY <1>0, Counts
  <2> QED BY <1>2, <1>5, <2>1, SMT
<1>8. m = sent[Dequeued]
  <2>1. sent[Dequeued] \in Message
    BY <1>0, <1>7, Counts
  <2>2. 1 \in 1 .. sent[Dequeued].length
    BY <2>1, PartsAre, Sizes, SMT
  <2>3. result[1] = [of |-> sent[Dequeued], part |-> 1]
    BY <1>5, <2>1, <2>2, PartsAre
  <2>4. result[1].of = sent[Dequeued]
    BY <2>3, SMT
  <2> QED BY <1>5, <2>1, <2>4
<1> HIDE DEF m
<1>9. received' = Append(received, sent[Len(received) + 1])
  BY <1>1, <1>2, <1>8
<1> QED BY <1>1, <1>4, <1>6, <1>7, <1>9

LEMMA PublishHeadRing ==
  ASSUME RingInv, PublishHead
  PROVE  ReadInv' /\ RingHolds' /\ SpaceInv' /\ StoreInv' /\ UNCHANGED <<sent, received>>
<1> USE DEF queue, sender, dispatcher, control
<1>0. BaseInv /\ ReadInv /\ RingHolds /\ Types /\ SentInv /\ SpaceInv /\ StoreInv
  BY DEF RingInv, BaseInv
<1>1. /\ UNCHANGED <<tail, msg, pc, node, sent, unfenced, build, result, received>>
      /\ dpc = "copy" /\ dpc' = "handle" /\ Len(result) = total_size
      /\ head' = Line(head, total_size)
  BY DEF PublishHead
<1> DEFINE D == Dequeued  N == Len(sent)  L == total_size
<1>2. /\ D < N /\ L = sent[D + 1].length
      /\ \A k \in 1 .. Len(result) : result[k] = Parts(sent[D + 1])[k]
  BY <1>0, <1>1 DEF ReadInv
<1>3. /\ N \in Nat /\ D \in 0 .. N /\ Waiting \in 0 .. Capacity - 1 /\ head \in Lines
      /\ \A n \in 1 .. N : sent[n] \in Message /\ sent[n].length \in 1 .. Capacity
      /\ \A n \in 0 .. N : Upto(n) \in Nat
  BY <1>0, Within
<1>4. D + 1 \in 1 .. N /\ D + 1 \in 0 .. N /\ D + 1 <= N /\ (D + 1) - 1 = D /\ D + 1 # 0 /\ N \in 0 .. N
  BY <1>2, <1>3, SMT
<1>5. sent[D + 1] \in Message /\ L \in 1 .. Capacity
  BY <1>2, <1>3, <1>4
<1>6. D' = D + 1
  <2>1. Dequeued = Len(received) + 0 /\ Dequeued' = Len(received) + 1 /\ Len(received) \in Nat
    BY <1>0, <1>1, Counts DEF Dequeued
  <2> QED BY <2>1, SMT
<1>7. \A n : Upto(n)' = Upto(n)
  BY <1>1 DEF Upto
<1>8. /\ Upto(D + 1) = Upto(D) + L /\ Upto(D + 1) <= Upto(N)
      /\ Upto(D) \in Nat /\ Upto(D + 1) \in Nat /\ Upto(N) \in Nat
  <2>1. sent[D + 1].at = Upto(D)
    <3>1. sent[D + 1].at = Upto((D + 1) - 1)
      BY <1>0, <1>4 DEF SentInv
    <3> QED BY <1>4, <3>1
  <2>2. Upto(D + 1) = sent[D + 1].at + sent[D + 1].length
    BY <1>4 DEF Upto
  <2>3. Upto(D + 1) <= Upto(N)
    BY <1>0, <1>4 DEF SentInv
  <2> QED BY <1>2, <1>3, <1>4, <2>1, <2>2, <2>3
<1>9. Waiting' = Waiting - L /\ L <= Waiting
  <2>1. Waiting = Upto(N) - Upto(D)
    BY DEF Waiting
  <2>2. Waiting' = Upto(N) - Upto(D + 1)
    BY <1>1, <1>6, <1>7 DEF Waiting, Upto
  <2> QED BY <1>5, <1>8, <2>1, <2>2, Sizes, SMT
<1>10. RingHolds'
  <2>1. Waiting' < Capacity
    BY <1>3, <1>5, <1>9, Sizes, SMT
  <2>2. tail' = Line(head', Waiting')
    <3>1. L \in 0 .. Capacity /\ Waiting - L \in 0 .. Capacity - L /\ L + (Waiting - L) = Waiting
      BY <1>3, <1>5, <1>9, Sizes, SMT
    <3>2. Line(Line(head, L), Waiting - L) = Line(head, L + (Waiting - L))
      BY <1>3, <3>1, LineIs
    <3>3. tail = Line(head, Waiting)
      BY <1>0 DEF RingHolds
    <3> QED BY <1>1, <1>9, <3>1, <3>2, <3>3
  <2>3. ASSUME NEW n \in D' + 1 .. N, NEW k \in 1 .. sent[n].length
        PROVE  msg[Line(head', sent[n].at - Upto(D') + k - 1)] = Parts(sent[n])[k]
    <3>1. n \in D + 1 .. N /\ n - 1 \in 0 .. N /\ n \in 1 .. N /\ D + 1 <= n - 1
      BY <1>3, <1>6, SMT
    <3> DEFINE x == sent[n].at - Upto(D) + k - 1
               y == sent[n].at - Upto(D + 1) + k - 1
    <3>2. x \in 0 .. Waiting - 1 /\ sent[n].at \in Nat /\ sent[n].length \in 1 .. Capacity
      BY <1>0, <3>1, Placed
    <3>3. Upto(D + 1) <= sent[n].at
      BY <1>0, <1>4, <3>1 DEF SentInv
    <3>4. L \in 0 .. Capacity /\ y \in 0 .. Capacity - L /\ L + y = x
      <4>2. k \in Nat /\ k >= 1
        BY <3>2, Sizes, SMT
      <4> DEFINE a == sent[n].at  u == Upto(D)  v == Upto(D + 1)  w == Waiting
      <4>3. /\ L \in 1 .. Capacity /\ w \in 0 .. Capacity - 1 /\ a - u + k - 1 \in 0 .. w - 1
            /\ u \in Nat /\ v \in Nat /\ a \in Nat /\ v = u + L /\ v <= a
        BY <1>3, <1>5, <1>8, <3>2, <3>3
      <4> HIDE DEF a, u, v, w
      <4>4. L \in 0 .. Capacity /\ a - v + k - 1 \in 0 .. Capacity - L /\ L + (a - v + k - 1) = a - u + k - 1
        BY <4>2, <4>3, Sizes, SMT
      <4> QED BY <4>4 DEF a, u, v
    <3> HIDE DEF x, y
    <3>5. Line(Line(head, L), y) = Line(head, x)
      <4>1. Line(Line(head, L), y) = Line(head, L + y)
        BY <1>3, <3>4, LineIs
      <4> QED BY <3>4, <4>1
    <3>6. msg[Line(head, x)] = Parts(sent[n])[k]
      BY <1>0, <3>1 DEF RingHolds, x
    <3>7. Line(head', sent[n].at - Upto(D') + k - 1) = Line(head, x)
      BY <1>1, <1>6, <3>5 DEF y
    <3> QED BY <3>6, <3>7
  <2>4. Upto(D)' = Upto(D')
    BY <1>1 DEF Upto
  <2>5. ASSUME NEW n \in (Dequeued + 1 .. Len(sent))', NEW k \in 1 .. sent'[n].length
        PROVE  msg'[Line(head', sent'[n].at - Upto(Dequeued)' + k - 1)] = Parts(sent'[n])[k]
    BY <1>1, <2>3, <2>4
  <2> QED BY <2>1, <2>2, <2>5 DEF RingHolds
<1>11. SpaceInv'
  <2>1. Upto(N)' = Upto(N)
    BY <1>1 DEF Upto
  <2>2. \A n \in D' .. N : n \in D .. N
    BY <1>3, <1>6, SMT
  <2>3. build.backlog >= Capacity =>
          \A n \in D' .. N : Upto(N) - Upto(n) \in Amounts(build)
    BY <1>0, <2>2 DEF SpaceInv
  <2>4. ASSUME NEW s \in Senders, pc[s] # "idle" PROVE node.length \in Nat
    BY <1>0, <2>4, PartsAre, Sizes, SMT DEF BaseInv, SenderInv
  <2>5. ASSUME NEW s \in Senders, pc[s] # "idle", build.backlog < Capacity
        PROVE  Waiting' + node.length <= build.backlog
    <3>1. Waiting + node.length <= build.backlog /\ node.length \in Nat /\ build.backlog \in Nat
      BY <1>0, <2>4, <2>5, Counts DEF SpaceInv
    <3> QED BY <1>3, <1>5, <1>9, <3>1, Sizes, SMT
  <2>6. ASSUME NEW s \in Senders, pc[s] = "fence" PROVE Waiting' + node.length < Capacity
    <3>1. Waiting + node.length < Capacity /\ node.length \in Nat
      BY <1>0, <2>4, <2>6 DEF SpaceInv
    <3> QED BY <1>3, <1>5, <1>9, <3>1, Sizes, SMT
  <2> QED BY <1>1, <1>7, <2>1, <2>3, <2>5, <2>6 DEF SpaceInv
<1>12. StoreInv'
  BY <1>0, <1>1 DEF StoreInv, Store
<1>13. result = Parts(sent[D + 1])
  <2>1. result \in Seq(Part)
    BY <1>0 DEF Types
  <2>2. /\ Parts(sent[D + 1]) \in Seq(Part) /\ Len(Parts(sent[D + 1])) = L
    BY <1>2, <1>5, PartsAre
  <2> QED BY <1>1, <1>2, <2>1, <2>2, SMT
<1>14. ReadInv'
  BY <1>1, <1>4, <1>6, <1>13 DEF ReadInv
<1> QED BY <1>1, <1>10, <1>11, <1>12, <1>14

\* A step of a sender before it publishes the tail.
LEMMA Still ==
  ASSUME RingInv, UNCHANGED <<head, tail, msg, sent, received, dpc, total_size, result, build>>
  PROVE  /\ ReadInv' /\ RingHolds' /\ Waiting' = Waiting
         /\ build.backlog >= Capacity =>
              \A n \in Dequeued' .. Len(sent') : (Upto(Len(sent)) - Upto(n))' \in Amounts(build)
<1>0. ReadInv /\ RingHolds /\ SpaceInv
  BY DEF RingInv
<1>1. Dequeued' = Dequeued
  BY DEF Dequeued
<1>2. (\A n : Upto(n)' = Upto(n)) /\ (Upto(Len(sent)))' = Upto(Len(sent))
  BY DEF Upto
<1>3. Waiting' = Waiting
  BY <1>1 DEF Waiting, Upto
<1>4. RingHolds'
  BY <1>0, <1>1, <1>2, <1>3, SMT DEF RingHolds
<1>5. ReadInv'
  BY <1>0, <1>1 DEF ReadInv
<1> QED BY <1>0, <1>1, <1>2, <1>3, <1>4, <1>5 DEF SpaceInv

LEMMA SendRing ==
  ASSUME RingInv, NEW s \in Senders, NEW length \in 1 .. Capacity, sendMsg(s, length)
  PROVE  ReadInv' /\ RingHolds' /\ SpaceInv' /\ StoreInv' /\ UNCHANGED <<sent, received>>
<1> USE DEF queue, sender, dispatcher, control
<1>0. Types /\ SenderInv
  BY DEF RingInv, BaseInv
<1>1. /\ UNCHANGED <<head, tail, msg, sent, unfenced, dpc, total_size, result, received, build>>
      /\ Waiting + length <= build.backlog /\ \A t \in Senders : pc[t] = "idle"
      /\ node' = [at |-> Upto(Len(sent)), length |-> length]
  BY DEF sendMsg
<1>2. PICK step \in {"compare", "measure"} : pc' = [pc EXCEPT ![s] = step]
  BY DEF sendMsg
<1>3. \A t \in Senders : pc'[t] # "fence"
  BY <1>0, <1>1, <1>2 DEF Types
<1>4. /\ ReadInv' /\ RingHolds' /\ Waiting' = Waiting
      /\ build.backlog >= Capacity =>
           \A n \in Dequeued' .. Len(sent') : (Upto(Len(sent)) - Upto(n))' \in Amounts(build)
  BY <1>1, Still
<1>5. node'.length = length
  BY <1>1
<1>6. SpaceInv'
  BY <1>1, <1>3, <1>4, <1>5 DEF SpaceInv
<1>7. unfenced = {}
  BY <1>0, <1>1 DEF SenderInv
<1>8. StoreInv'
  BY <1>1, <1>3, <1>7 DEF StoreInv
<1> QED BY <1>1, <1>4, <1>6, <1>8

LEMMA CompareRing ==
  ASSUME RingInv, NEW s \in Senders, CompareEnds(s) \/ queue_full(s)
  PROVE  ReadInv' /\ RingHolds' /\ SpaceInv' /\ StoreInv' /\ UNCHANGED <<sent, received>>
<1> USE DEF queue, sender, dispatcher, control
<1>0. Types /\ SenderInv /\ SpaceInv
  BY DEF RingInv, BaseInv
<1>1. /\ UNCHANGED <<head, tail, msg, node, sent, unfenced, dpc, total_size, result, received, build>>
      /\ pc[s] \in {"compare", "measure"}
  BY DEF CompareEnds, queue_full
<1>2. PICK step \in {"measure", "exit"} : pc' = [pc EXCEPT ![s] = step]
  BY DEF CompareEnds, queue_full
<1>3. /\ pc'[s] = step /\ \A t \in Senders \ {s} : pc[t] = "idle" /\ pc'[t] = "idle"
  BY <1>0, <1>1, <1>2, OneActive
<1>4. \A t \in Senders : pc'[t] # "fence" /\ pc[t] # "fence"
  BY <1>1, <1>3
<1>5. /\ ReadInv' /\ RingHolds' /\ Waiting' = Waiting
      /\ build.backlog >= Capacity =>
           \A n \in Dequeued' .. Len(sent') : (Upto(Len(sent)) - Upto(n))' \in Amounts(build)
  BY <1>1, Still
<1>6. build.backlog < Capacity => Waiting + node.length <= build.backlog
  BY <1>0, <1>1 DEF SpaceInv
<1>7. SpaceInv'
  BY <1>1, <1>4, <1>5, <1>6 DEF SpaceInv
<1>8. unfenced = {}
  BY <1>0, <1>4 DEF SenderInv
<1>9. StoreInv'
  BY <1>1, <1>4, <1>8 DEF StoreInv
<1> QED BY <1>1, <1>5, <1>7, <1>9

\* get_remain_space, loading head once, measures the lines that do not wait.
LEMMA FitsExactly ==
  ASSUME build.oneLoad, head \in Lines, Waiting \in 0 .. Capacity - 1, tail = Line(head, Waiting),
         NEW length \in Nat
  PROVE  Fits(length) <=> Waiting + length <= Capacity
<1>1. ASSUME NEW h \in 0 .. Capacity - 1, NEW t, NEW w \in 0 .. Capacity - 1, t = Line(h, w)
      PROVE  /\ t >= h => (length <= Capacity - (t - h) <=> w + length <= Capacity)
             /\ ~(t >= h) => (h - t < 0 \/ length <= h - t <=> w + length <= Capacity)
  BY <1>1, Sizes, SMT DEF Line
<1> QED BY <1>1 DEF Fits, Lines

\* What the lengths of the messages of a spacious build add up to.
LEMMA AmountsAre ==
  ASSUME Spacious(build), build.backlog >= Capacity, Types
  PROVE  build.oneLoad /\ NeverExact(build, Amounts(build)) /\ Amounts(build) \subseteq Nat
<1>1. ~(build.backlog < Capacity)
  <2>1. build.backlog \in Nat
    BY Counts
  <2> QED BY <2>1, Sizes, SMT
<1> QED BY <1>1 DEF Spacious, Amounts

LEMMA CopyInRing ==
  ASSUME RingInv, Spacious(build), NEW s \in Senders, CopyIn(s)
  PROVE  ReadInv' /\ RingHolds' /\ SpaceInv' /\ StoreInv' /\ UNCHANGED <<sent, received>>
<1> USE DEF queue, sender, dispatcher, control
<1>0. Types /\ SenderInv /\ SpaceInv /\ BaseInv /\ ReadInv /\ RingHolds
  BY DEF RingInv, BaseInv
<1>1. /\ UNCHANGED <<head, tail, msg, node, sent, dpc, total_size, result, received, build>>
      /\ pc[s] = "measure" /\ Fits(node.length) /\ pc' = [pc EXCEPT ![s] = "fence"]
      /\ unfenced' = unfenced \cup {Store(k) : k \in 1 .. node.length}
  BY DEF CopyIn, Store
<1>2. \A t \in Senders \ {s} : pc[t] = "idle" /\ pc'[t] = "idle"
  BY <1>0, <1>1, OneActive
<1>3. unfenced = {}
  BY <1>0, <1>1, <1>2 DEF SenderInv
<1>4. /\ ReadInv' /\ RingHolds' /\ Waiting' = Waiting
      /\ build.backlog >= Capacity =>
           \A n \in Dequeued' .. Len(sent') : (Upto(Len(sent)) - Upto(n))' \in Amounts(build)
  BY <1>1, Still
<1>5. node.length \in 1 .. Capacity /\ node.length \in Nat /\ node.length \in build.sizes
  <2>1. node \in Message /\ node.length \in build.sizes
    BY <1>0, <1>1 DEF SenderInv
  <2>2. node.length \in 1 .. Capacity
    BY <2>1, PartsAre
  <2> QED BY <2>1, <2>2, Sizes, SMT
<1>6. /\ Len(sent) \in Nat /\ Dequeued \in 0 .. Len(sent)
      /\ Waiting \in 0 .. Capacity - 1 /\ head \in Lines /\ tail = Line(head, Waiting)
  BY <1>0, Within DEF RingHolds
<1>7. build.backlog < Capacity => Waiting + node.length <= build.backlog
  BY <1>0, <1>1 DEF SpaceInv
<1>8. Waiting + node.length < Capacity
  <2>0. build.backlog \in Nat
    BY <1>0, Counts
  <2>1. CASE build.backlog < Capacity
    BY <1>5, <1>6, <1>7, <2>0, <2>1, Sizes, SMT
  <2>2. CASE build.backlog >= Capacity
    <3>1. build.oneLoad /\ NeverExact(build, Amounts(build))
      BY <1>0, <2>2, AmountsAre
    <3>2. Dequeued \in Dequeued .. Len(sent)
      BY <1>6, SMT
    <3>3. Waiting \in Amounts(build)
      BY <1>0, <2>2, <3>2 DEF SpaceInv, Waiting
    <3>4. Waiting + node.length # Capacity
      BY <1>5, <3>1, <3>3 DEF NeverExact, Sums
    <3>5. Waiting + node.length <= Capacity
      BY <1>1, <1>5, <1>6, <3>1, FitsExactly
    <3> QED BY <1>5, <1>6, <3>4, <3>5, Sizes, SMT
  <2> QED BY <2>0, <2>1, <2>2, Sizes, SMT
<1>9. SpaceInv'
  BY <1>1, <1>4, <1>7, <1>8 DEF SpaceInv
<1>10. StoreInv'
  <2>1. \A k : Store(k)' = Store(k)
    BY <1>1 DEF Store
  <2> QED BY <1>1, <1>3, <2>1 DEF StoreInv
<1> QED BY <1>1, <1>4, <1>9, <1>10

LEMMA StoreRing ==
  ASSUME RingInv, StoreLine
  PROVE  ReadInv' /\ RingHolds' /\ SpaceInv' /\ StoreInv' /\ UNCHANGED <<sent, received>>
<1> USE DEF sender, dispatcher, control
<1>0. Types /\ SenderInv /\ SpaceInv /\ BaseInv /\ ReadInv /\ RingHolds /\ StoreInv
  BY DEF RingInv, BaseInv
<1>1. PICK w \in unfenced :
        /\ msg' = [msg EXCEPT ![w.line] = w.value] /\ unfenced' = unfenced \ {w}
        /\ UNCHANGED <<head, tail, pc, node, sent, dpc, total_size, result, received, build>>
  BY DEF StoreLine
<1>2. PICK s \in Senders : pc[s] = "fence"
  BY <1>0, <1>1 DEF SenderInv
<1>3. PICK k \in 1 .. node.length : w = Store(k)
  BY <1>0, <1>1 DEF StoreInv
<1>4. w.line = Line(tail, k - 1) /\ w.value = Parts(node)[k]
  BY <1>3 DEF Store
<1>5. /\ Len(sent) \in Nat /\ Dequeued \in 0 .. Len(sent) /\ tail = Line(head, Waiting)
      /\ Waiting \in 0 .. Capacity - 1 /\ head \in Lines /\ tail \in Lines
  BY <1>0, Within DEF RingHolds
<1>6. node.length \in 1 .. Capacity /\ Waiting + node.length < Capacity
  <2>1. node \in Message
    BY <1>0, <1>2 DEF SenderInv
  <2> QED BY <1>0, <1>2, <2>1, PartsAre DEF SpaceInv
<1>7. \A j \in 1 .. node.length : /\ j - 1 \in 0 .. Capacity - 1 /\ j - 1 \in 0 .. Capacity /\ j - 1 < Capacity
                                  /\ Waiting + (j - 1) \in 0 .. Capacity - 1 /\ j - 1 \in 0 .. Capacity - Waiting
                                  /\ \A i \in 1 .. node.length : i - 1 = j - 1 => i = j
  BY <1>5, <1>6, Sizes, SMT
<1>8. Waiting \in 0 .. Capacity
  BY <1>5, Sizes, SMT
<1>9. w.line = Line(head, Waiting + (k - 1)) /\ w.line \in Lines
  <2>1. Line(tail, k - 1) \in Lines
    BY <1>5, <1>7, LineIs
  <2>2. Line(Line(head, Waiting), k - 1) = Line(head, Waiting + (k - 1))
    <3>1. k - 1 \in 0 .. Capacity - Waiting
      BY <1>7
    <3>2. \A y \in 0 .. Capacity - Waiting : Line(Line(head, Waiting), y) = Line(head, Waiting + y)
      BY <1>5, <1>8, LineIs
    <3> QED BY <3>1, <3>2
  <2> QED BY <1>4, <1>5, <2>1, <2>2
<1>10. msg \in [Lines -> Part] /\ msg'[w.line] = w.value /\ \A l \in Lines : l # w.line => msg'[l] = msg[l]
  BY <1>0, <1>1, <1>9 DEF Types
<1>11. Dequeued' = Dequeued /\ Waiting' = Waiting /\ \A n : Upto(n)' = Upto(n)
  BY <1>1 DEF Dequeued, Waiting, Upto
<1>12. ReadInv'
  BY <1>0, <1>1, <1>11 DEF ReadInv
<1>13. SpaceInv'
  <2>1. (Upto(Len(sent)))' = Upto(Len(sent))
    BY <1>1 DEF Upto
  <2> QED BY <1>0, <1>1, <1>11, <2>1 DEF SpaceInv
<1>14. RingHolds'
  <2>1. ASSUME NEW n \in Dequeued + 1 .. Len(sent), NEW j \in 1 .. sent[n].length
        PROVE  msg'[Line(head, sent[n].at - Upto(Dequeued) + j - 1)] = Parts(sent[n])[j]
    <3> DEFINE x == sent[n].at - Upto(Dequeued) + j - 1
    <3>1. x \in 0 .. Waiting - 1
      BY <1>0, Placed
    <3>2. msg[Line(head, x)] = Parts(sent[n])[j]
      BY <1>0 DEF RingHolds
    <3> HIDE DEF x
    <3>3. x \in 0 .. Capacity - 1 /\ x \in 0 .. Capacity /\ x < Capacity /\ x # Waiting + (k - 1)
      BY <1>5, <1>6, <3>1, Sizes, SMT
    <3>4. Line(head, x) # w.line /\ Line(head, x) \in Lines
      <4>1. Waiting + (k - 1) \in 0 .. Capacity - 1
        BY <1>7
      <4>2. /\ Line(head, x) \in Lines
            /\ \A y \in 0 .. Capacity - 1 : Line(head, x) = Line(head, y) => x = y
        BY <1>5, <3>3, LineIs
      <4> QED BY <1>9, <3>3, <4>1, <4>2
    <3> QED BY <1>10, <3>2, <3>4 DEF x
  <2>2. Upto(Dequeued)' = Upto(Dequeued)
    BY <1>1, <1>11 DEF Upto
  <2>3. Waiting' < Capacity /\ tail' = Line(head', Waiting')
    BY <1>0, <1>1, <1>11 DEF RingHolds
  <2>4. ASSUME NEW n \in (Dequeued + 1 .. Len(sent))', NEW j \in 1 .. sent'[n].length
        PROVE  msg'[Line(head', sent'[n].at - Upto(Dequeued)' + j - 1)] = Parts(sent'[n])[j]
    <3>1. Dequeued' = Dequeued /\ sent' = sent /\ head' = head
      BY <1>1, <1>11
    <3>2. n \in Dequeued + 1 .. Len(sent) /\ j \in 1 .. sent[n].length
      BY <3>1
    <3>3. msg'[Line(head, sent[n].at - Upto(Dequeued) + j - 1)] = Parts(sent[n])[j]
      BY <2>1, <3>2
    <3> QED BY <2>2, <3>1, <3>3
  <2> QED BY <2>3, <2>4 DEF RingHolds
<1>15. StoreInv'
  <2>1. \A j : Store(j)' = Store(j)
    BY <1>1 DEF Store
  <2>2. ASSUME NEW j \in 1 .. node.length
        PROVE  Store(j) \in unfenced \ {w} \/ msg'[Line(tail, j - 1)] = Parts(node)[j]
    <3>1. Line(tail, j - 1) \in Lines
      BY <1>5, <1>7, LineIs
    <3>2. CASE Line(tail, j - 1) = w.line
      <4>1. j - 1 = k - 1
        <5>1. j - 1 \in 0 .. Capacity - 1 /\ k - 1 \in 0 .. Capacity /\ k - 1 < Capacity
          BY <1>7
        <5>2. \A y \in 0 .. Capacity - 1 :
                 k - 1 < Capacity /\ Line(tail, k - 1) = Line(tail, y) => k - 1 = y
          BY <1>5, <5>1, LineIs
        <5> QED BY <1>4, <3>2, <5>1, <5>2
      <4>2. j = k
        BY <1>7, <4>1
      <4> QED BY <1>4, <1>10, <4>2
    <3>3. CASE Line(tail, j - 1) # w.line
      <4>1. Store(j) # w
        <5>1. Store(j).line = Line(tail, j - 1)
          BY DEF Store
        <5> QED BY <3>3, <5>1
      <4> QED BY <1>0, <1>2, <1>10, <3>1, <3>3, <4>1 DEF StoreInv
    <3> QED BY <3>2, <3>3
  <2> QED BY <1>0, <1>1, <2>1, <2>2 DEF StoreInv
<1> QED BY <1>1, <1>12, <1>13, <1>14, <1>15

LEMMA PublishRing ==
  ASSUME RingInv, Spacious(build), NEW s \in Senders, PublishTail(s)
  PROVE  /\ ReadInv' /\ RingHolds' /\ SpaceInv' /\ StoreInv'
         /\ node \in Message /\ sent' = Append(sent, node) /\ received' = received
<1> USE DEF queue, sender, dispatcher, control
<1>0. Types /\ SentInv /\ SenderInv /\ SpaceInv /\ BaseInv /\ ReadInv /\ RingHolds /\ StoreInv
  BY DEF RingInv, BaseInv
<1>1. /\ UNCHANGED <<head, msg, unfenced, dpc, total_size, result, received, build>>
      /\ pc[s] = "fence" /\ unfenced = {} /\ tail' = Line(tail, node.length)
      /\ sent' = Append(sent, node) /\ pc' = [pc EXCEPT ![s] = "idle"]
  BY DEF PublishTail, Fenced
<1>2. node \in Message /\ node.length \in build.sizes /\ node.at = Upto(Len(sent))
  BY <1>0, <1>1 DEF SenderInv
<1>3. node.length \in 1 .. Capacity /\ Waiting + node.length < Capacity
  BY <1>0, <1>1, <1>2, PartsAre DEF SpaceInv
<1> DEFINE D == Dequeued  N == Len(sent)
<1>4. /\ sent' \in Seq(Message) /\ Len(sent') = N + 1
      /\ \A n \in 1 .. N : sent'[n] = sent[n]
      /\ sent'[N + 1] = node
      /\ \A n \in 0 .. N : Upto(n)' = Upto(n)
      /\ \A n : n = N + 1 => Upto(n)' = Upto(N) + node.length
  BY <1>0, <1>1, <1>2, OneMore
<1>5. /\ N \in Nat /\ D \in 0 .. N /\ tail = Line(head, Waiting)
      /\ Waiting \in 0 .. Capacity - 1 /\ head \in Lines /\ tail \in Lines
      /\ \A n \in 0 .. N : Upto(n) \in Nat
  BY <1>0, Within DEF RingHolds
<1>6. D' = D
  BY <1>1 DEF Dequeued
<1>7. Upto(D)' = Upto(D) /\ Upto(D) \in Nat /\ Upto(N) \in Nat /\ (Upto(Len(sent)))' = Upto(N) + node.length
  <2>1. N \in 0 .. N
    BY <1>5, SMT
  <2>2. Upto(D)' = Upto(D) /\ Upto(D) \in Nat /\ Upto(N) \in Nat
    <3>1. \A n : n = D => (Upto(n)' = Upto(n) => Upto(D)' = Upto(D))
      BY <1>6 DEF Upto
    <3> QED BY <1>4, <1>5, <2>1, <3>1
  <2>3. \A n : n = Len(sent') => (Upto(Len(sent)))' = Upto(n)'
    BY DEF Upto
  <2> QED BY <1>4, <2>2, <2>3
<1>8. Waiting = Upto(N) - Upto(D) /\ Waiting' = Waiting + node.length
  <2>1. Waiting = Upto(N) - Upto(D) /\ Waiting' = (Upto(Len(sent)))' - Upto(D)'
    BY DEF Waiting
  <2> DEFINE u == Upto(N)  v == Upto(D)  l == node.length
  <2>2. Waiting = u - v /\ Waiting' = (u + l) - v /\ u \in Nat /\ v \in Nat /\ l \in 1 .. Capacity
    BY <1>3, <1>7, <2>1
  <2> HIDE DEF u, v, l
  <2>3. Waiting' = Waiting + l
    BY <2>2, Sizes, SMT
  <2> QED BY <2>1, <2>3 DEF l
<1>9. \A t \in Senders : pc'[t] = "idle"
  <2>1. pc'[s] = "idle" /\ \A t \in Senders \ {s} : pc'[t] = "idle"
    BY <1>0, <1>1, OneActive
  <2> QED BY <2>1
<1>10. ReadInv'
  <2>1. D <= N + 1 /\ (D < N => D < N + 1 /\ D + 1 \in 1 .. N)
    BY <1>5, SMT
  <2>2. dpc = "handle" => D \in 1 .. N
    <3>1. dpc = "handle" => D = Len(received) + 1 /\ Len(received) \in Nat
      BY <1>0, Counts DEF Dequeued
    <3> QED BY <1>5, <3>1, SMT
  <2>3. dpc \in {"length", "copy"} => D < N + 1 /\ sent'[D + 1] = sent[D + 1]
    BY <1>0, <1>4, <2>1 DEF ReadInv
  <2>4. dpc = "handle" => sent'[D] = sent[D]
    BY <1>4, <2>2
  <2> QED BY <1>0, <1>1, <1>4, <1>6, <2>1, <2>3, <2>4 DEF ReadInv
<1>11. RingHolds'
  <2>1. Waiting' < Capacity
    BY <1>3, <1>8
  <2>2. Waiting \in 0 .. Capacity /\ node.length \in 0 .. Capacity - Waiting
    BY <1>3, <1>5, Sizes, SMT
  <2>3. \A y \in 0 .. Capacity - Waiting : Line(tail, y) = Line(head, Waiting + y)
    BY <1>5, <2>2, LineIs
  <2>4. tail' = Line(head', Waiting')
    BY <1>1, <1>8, <2>2, <2>3
  <2>5. ASSUME NEW n \in D + 1 .. N, NEW k \in 1 .. sent[n].length
        PROVE  n \in 1 .. N /\ msg[Line(head, sent[n].at - Upto(D) + k - 1)] = Parts(sent[n])[k]
    BY <1>0, Placed DEF RingHolds
  <2>6. ASSUME NEW k \in 1 .. node.length
        PROVE  msg[Line(head, node.at - Upto(D) + k - 1)] = Parts(node)[k]
    <3>1. msg[Line(tail, k - 1)] = Parts(node)[k]
      BY <1>0, <1>1 DEF StoreInv
    <3>2. k - 1 \in 0 .. Capacity - Waiting
      BY <1>3, <1>5, Sizes, SMT
    <3>3. node.at - Upto(D) + k - 1 = Waiting + (k - 1)
      BY <1>2, <1>8
    <3> QED BY <2>3, <3>1, <3>2, <3>3
  <2>7. ASSUME NEW n \in (Dequeued + 1 .. Len(sent))', NEW k \in 1 .. sent'[n].length
        PROVE  msg'[Line(head', sent'[n].at - Upto(Dequeued)' + k - 1)] = Parts(sent'[n])[k]
    <3>1. n \in D + 1 .. N \/ n = N + 1
      <4>1. n \in D + 1 .. N + 1
        BY <1>4, <1>6
      <4> QED BY <1>5, <4>1, SMT
    <3>2. CASE n \in D + 1 .. N
      <4>1. n \in 1 .. N
        BY <1>5, <3>2, SMT
      <4>2. sent'[n] = sent[n] /\ k \in 1 .. sent[n].length
        BY <1>4, <4>1
      <4>3. msg[Line(head, sent[n].at - Upto(D) + k - 1)] = Parts(sent[n])[k]
        BY <2>5, <3>2, <4>2
      <4> QED BY <1>1, <1>7, <4>2, <4>3
    <3>3. CASE n = N + 1
      <4>1. sent'[n] = node /\ k \in 1 .. node.length
        BY <1>4, <3>3
      <4>2. msg[Line(head, node.at - Upto(D) + k - 1)] = Parts(node)[k]
        BY <2>6, <4>1
      <4> QED BY <1>1, <1>7, <4>1, <4>2
    <3> QED BY <3>1, <3>2, <3>3
  <2> QED BY <2>1, <2>4, <2>7 DEF RingHolds
<1>12. SpaceInv'
  <2>1. ASSUME build.backlog >= Capacity, NEW n \in D .. N + 1
        PROVE  (Upto(N) + node.length) - Upto(n)' \in Amounts(build)
    <3>1. Sums(build, Amounts(build)) /\ Amounts(build) \subseteq Nat
      BY <1>0, <2>1, AmountsAre DEF NeverExact
    <3>2. CASE n = N + 1
      <4>1. (Upto(N) + node.length) - Upto(n)' = 0
        <5>1. Upto(n)' = Upto(N) + node.length
          BY <1>4, <3>2
        <5>2. Upto(N) + node.length \in Nat
          BY <1>3, <1>7, Sizes, SMT
        <5> QED BY <5>1, <5>2, SMT
      <4> QED BY <3>1, <4>1 DEF Sums
    <3>3. CASE n # N + 1
      <4>1. n \in D .. N /\ n \in 0 .. N
        BY <1>5, <3>3, SMT
      <4>2. Upto(n)' = Upto(n) /\ Upto(n) \in Nat
        BY <1>4, <1>5, <4>1
      <4>3. Upto(N) - Upto(n) \in Amounts(build)
        BY <1>0, <2>1, <4>1 DEF SpaceInv
      <4>4. (Upto(N) - Upto(n)) + node.length \in Amounts(build)
        BY <1>2, <3>1, <4>3 DEF Sums
      <4> DEFINE u == Upto(N)  v == Upto(n)  l == node.length
      <4>5. u \in Nat /\ v \in Nat /\ l \in 1 .. Capacity
        BY <1>3, <1>7, <4>2
      <4> HIDE DEF u, v, l
      <4>6. (u - v) + l = (u + l) - v
        BY <4>5, Sizes, SMT
      <4> QED BY <4>2, <4>4, <4>6 DEF u, v, l
    <3> QED BY <3>2, <3>3
  <2>2. ASSUME build'.backlog >= Capacity, NEW n \in (Dequeued .. Len(sent))'
        PROVE  (Upto(Len(sent)))' - Upto(n)' \in Amounts(build)'
    <3>1. build' = build /\ n \in D .. N + 1 /\ Amounts(build') = Amounts(build)
      BY <1>1, <1>4, <1>6
    <3>2. (Upto(N) + node.length) - Upto(n)' \in Amounts(build)
      BY <2>1, <2>2, <3>1
    <3> QED BY <1>1, <1>7, <3>1, <3>2
  <2> QED BY <1>9, <2>2 DEF SpaceInv
<1>13. StoreInv'
  BY <1>1, <1>9 DEF StoreInv
<1> QED BY <1>1, <1>2, <1>10, <1>11, <1>12, <1>13

LEMMA InitRing ==
  ASSUME Init, Spacious(build)
  PROVE  RingInv
<1>1. BaseInv
  BY InitBase
<1>2. /\ head = 0 /\ tail = 0 /\ unfenced = {} /\ dpc = "poll" /\ sent = <<>> /\ received = <<>>
      /\ \A s \in Senders : pc[s] = "idle"
  BY DEF Init
<1>3. Len(sent) = 0 /\ Len(received) = 0
  BY <1>2, SMT
<1>4. Dequeued = 0
  BY <1>2, <1>3, SMT DEF Dequeued
<1>5. Upto(0) = 0
  BY DEF Upto
<1>6. Waiting = 0
  <2>1. Waiting = Upto(0) - Upto(0)
    BY <1>3, <1>4 DEF Waiting
  <2> QED BY <1>5, <2>1, SMT
<1>7. ReadInv
  BY <1>2, <1>3, <1>4, SMT DEF ReadInv
<1>8. RingHolds
  <2>1. 0 < Capacity /\ 0 = Line(0, 0) /\ 0 + 1 .. 0 = {}
    BY Sizes, SMT DEF Line
  <2> QED BY <1>2, <1>3, <1>4, <1>6, <2>1 DEF RingHolds
<1>9. StoreInv
  BY <1>2 DEF StoreInv
<1>10. SpaceInv
  <2>1. build.backlog >= Capacity => 0 \in Amounts(build)
    BY <1>1, AmountsAre DEF BaseInv, NeverExact, Sums
  <2>2. 0 - 0 = 0 /\ 0 .. 0 = {0}
    BY SMT
  <2> QED BY <1>2, <1>3, <1>4, <1>5, <2>1, <2>2 DEF SpaceInv
<1> QED BY <1>1, <1>7, <1>8, <1>9, <1>10 DEF RingInv

\* What every step of a spacious build does, also to the channel.
LEMMA NextRing ==
  ASSUME RingInv, Spacious(build), [Next]_vars
  PROVE  RingInv' /\ [C!Next]_<<sent, received>>
<1>1. BaseInv'
  BY NextBase DEF RingInv
<1> DEFINE Ring == ReadInv' /\ RingHolds' /\ SpaceInv' /\ StoreInv'
<1>2. CASE /\ Ring /\ UNCHANGED <<sent, received>>
  BY <1>1, <1>2 DEF RingInv
<1>3. CASE Dispatch
  <2>1. CASE Handle
    <3>1. /\ Ring /\ sent' = sent /\ Len(received) < Len(sent)
          /\ received' = Append(received, sent[Len(received) + 1])
      BY <2>1, HandleRing
    <3>2. C!Receive
      BY <3>1 DEF C!Receive
    <3> QED BY <1>1, <3>1, <3>2 DEF RingInv, C!Next
  <2>2. CASE CheckStop \/ Look \/ ReadLength \/ CopyOut \/ PublishHead
    BY <1>2, <2>2, LookRing, ReadLengthRing, CopyOutRing, PublishHeadRing
  <2> QED BY <1>3, <2>1, <2>2 DEF Dispatch
<1>4. ASSUME NEW s \in Senders, PublishTail(s) PROVE RingInv' /\ [C!Next]_<<sent, received>>
  <2>1. Ring /\ node \in Message /\ sent' = Append(sent, node) /\ received' = received
    BY <1>4, PublishRing
  <2>2. C!Send(node)
    BY <2>1 DEF C!Send
  <2> QED BY <1>1, <2>1, <2>2 DEF RingInv, C!Next
<1>5. ASSUME NEW s \in Senders, CompareEnds(s) \/ CopyIn(s) \/ queue_full(s)
      PROVE  RingInv' /\ [C!Next]_<<sent, received>>
  BY <1>2, <1>5, CompareRing, CopyInRing
<1>6. ASSUME NEW s \in Senders, NEW length \in 1 .. Capacity, sendMsg(s, length)
      PROVE  RingInv' /\ [C!Next]_<<sent, received>>
  BY <1>2, <1>6, SendRing
<1>7. CASE StoreLine \/ Stop \/ UNCHANGED vars
  BY <1>2, <1>7, StoreRing, LookRing
<1> QED BY <1>3, <1>4, <1>5, <1>6, <1>7 DEF Next, Enqueue

-----------------------------------------------------------------------------
(* The builds whose messages cannot fill the ring exactly: the theorems.   *)

\* RingInv is an invariant of them.
THEOREM RingInvariance ==
  ASSUME \A b \in Builds : Spacious(b)
  PROVE  Spec => [](RingInv /\ Spacious(build)) /\ C!Spec
<1> DEFINE I == RingInv /\ Spacious(build)
<1>1. Init => I /\ C!Init
  <2>1. Init => Spacious(build) /\ C!Init
    BY DEF Init, C!Init
  <2> QED BY <2>1, InitRing
<1>2. I /\ [Next]_vars => I' /\ [C!Next]_<<sent, received>>
  <2>1. ASSUME I, [Next]_vars PROVE I' /\ [C!Next]_<<sent, received>>
    <3>1. RingInv' /\ [C!Next]_<<sent, received>>
      BY <2>1, NextRing
    <3>2. Spacious(build')
      BY <3>1 DEF RingInv, BaseInv, Types
    <3> QED BY <3>1, <3>2 DEF Spacious
  <2> QED BY <2>1
<1> QED BY <1>1, <1>2, PTL DEF Spec, C!Spec

\* The pointers stay inside the buffer and no copy is longer than it: dequeue_msg
\* finds a length where it looks for one, and adjust_tail and adjust_head never
\* report a pointer out of range.
THEOREM TypeCorrect ==
  ASSUME \A b \in Builds : Spacious(b)
  PROVE  Spec => []TypeOK
<1>1. RingInv => TypeOK
  BY DEF RingInv, BaseInv, ReadInv, Types, TypeOK
<1> QED BY <1>1, RingInvariance, PTL

\* The ring holds the messages that wait, in order and never all its lines:
\* enqueue_msg overwrites nothing that dequeue_msg has yet to copy.
THEOREM RingCorrect ==
  ASSUME \A b \in Builds : Spacious(b)
  PROVE  Spec => []RingHolds
<1>1. RingInv => RingHolds
  BY DEF RingInv
<1> QED BY <1>1, RingInvariance, PTL

\* sendMsg, enqueue_msg, dequeue_msg and dispatchLoop implement a channel: the
\* handler gets every message whole, once and in the order of sendMsg.
THEOREM Refinement ==
  ASSUME \A b \in Builds : Spacious(b)
  PROVE  Spec => IsChannel
BY RingInvariance, PTL DEF IsChannel

\* enqueue_msg calls queue_full only when the message does not fit, in the builds
\* in which get_remain_space loads head once.
THEOREM OneLoadRefusal ==
  ASSUME \A b \in Builds : Spacious(b)
  PROVE  Spec => OneLoadRefusesOnlyFull
<1>1. RingInv /\ [Next]_vars => [build.oneLoad => RefusesOnlyFull]_vars
  <2> SUFFICES ASSUME RingInv, Next, build.oneLoad, NEW s \in Senders, pc[s] # "exit", pc'[s] = "exit"
               PROVE  Waiting + node.length > Capacity
    BY DEF RefusesOnlyFull
  <2>0. Types /\ SenderInv /\ BaseInv /\ ReadInv /\ RingHolds
    BY DEF RingInv, BaseInv
  <2>1. queue_full(s)
    <3> USE DEF queue, sender, dispatcher, control, vars
    <3>1. pc' # pc
      OBVIOUS
    <3>2. PICK t \in Senders : Enqueue(t) \/ \E length \in 1 .. Capacity : sendMsg(t, length)
      BY <3>1 DEF Next, Dispatch, StoreLine, Stop, CheckStop, Look, ReadLength, CopyOut, PublishHead, Handle
    <3>3. \A step : pc' = [pc EXCEPT ![t] = step] => t = s /\ step = "exit"
      BY <2>0 DEF Types
    <3> QED BY <3>2, <3>3 DEF Enqueue, CompareEnds, CopyIn, PublishTail, queue_full, sendMsg
  <2>2. ~Fits(node.length) /\ pc[s] = "measure"
    BY <2>1 DEF queue_full
  <2>3. node.length \in 1 .. Capacity
    BY <2>0, <2>2, PartsAre DEF SenderInv
  <2>4. node.length \in Nat
    BY <2>3, Sizes, SMT
  <2>5. Waiting \in 0 .. Capacity - 1 /\ head \in Lines /\ tail = Line(head, Waiting)
    BY <2>0, Within DEF RingHolds
  <2>6. ~(Waiting + node.length <= Capacity)
    BY <2>2, <2>4, <2>5, FitsExactly
  <2> QED BY <2>4, <2>5, <2>6, Sizes, SMT
<1> QED BY <1>1, RingInvariance, PTL DEF Spec, OneLoadRefusesOnlyFull

\* When is_queue_empty answers true, every message has been dequeued: only a
\* message that fills the ring to its last line makes a full queue look empty.
THEOREM EmptyDelivered ==
  ASSUME \A b \in Builds : Spacious(b)
  PROVE  Spec => []EmptyMeansDelivered
<1>1. RingInv => EmptyMeansDelivered
  <2> SUFFICES ASSUME RingInv, head = tail PROVE Dequeued = Len(sent)
    BY DEF EmptyMeansDelivered, is_queue_empty
  <2>0. BaseInv /\ ReadInv /\ RingHolds
    BY DEF RingInv
  <2> DEFINE D == Dequeued
  <2>1. Len(sent) \in Nat /\ D \in 0 .. Len(sent) /\ Waiting = 0
    BY <2>0, Within
  <2>2. ASSUME D < Len(sent) PROVE FALSE
    <3>1. D + 1 \in D + 1 .. Len(sent) /\ D + 1 \in 1 .. Len(sent)
      BY <2>1, <2>2, SMT
    <3>2. sent[D + 1].length \in 1 .. Capacity
      BY <2>0, <3>1, Within
    <3>3. 1 \in 1 .. sent[D + 1].length
      BY <3>2, Sizes, SMT
    <3> DEFINE x == sent[D + 1].at - Upto(D) + 1 - 1
    <3>4. x \in 0 .. Waiting - 1
      BY <2>0, <3>1, <3>3, Placed
    <3> HIDE DEF x
    <3> QED BY <2>1, <3>4, SMT
  <2> QED BY <2>1, <2>2, SMT
<1> QED BY <1>1, RingInvariance, PTL

=============================================================================
