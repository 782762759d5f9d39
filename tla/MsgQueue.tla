------------------------------ MODULE MsgQueue ------------------------------
(***************************************************************************)
(* One queue of src/shm-lib/msg: the threads of one machine send messages  *)
(* through a MsgCollector, which enqueues under a mutex, and the           *)
(* MsgDispatcher of another machine polls the queue and calls the handler. *)
(*                                                                         *)
(* The buffer is counted in cache lines, the unit of align_to_cache_line;  *)
(* a line holds one part of a message.  The stores of memcpy_nt_write are  *)
(* weakly ordered: they reach the memory at any time, until _mm_sfence     *)
(* waits for them.  Loads and the stores to head and tail are coherent.    *)
(***************************************************************************)
EXTENDS Integers, Sequences

CONSTANTS
    Senders,       \* the threads that send
    Capacity,      \* sizeof(queue->msg), in lines
    Builds,        \* the programs that use the queue, records of
                   \*   oneLoad: the compiler merges the loads of queue->head
                   \*   sizes:   the lengths of messages, in lines
                   \*   backlog: the senders send only while this many lines suffice
    MaxMessages,   \* bound: the number of messages sent
    MaxLength      \* bound: the lengths that bytes other than a length stand for

ASSUME CapacityAssumption ==
    Capacity \in Nat \ {0} /\ MaxMessages \in Nat /\ MaxLength \in Nat
ASSUME BuildAssumption ==
    \A b \in Builds : b.oneLoad \in BOOLEAN /\ b.sizes \subseteq 1 .. Capacity /\ b.backlog \in Nat

VARIABLES
    head, tail, msg,   \* msg_queue_t; a pointer is the index of its line
    pc,                \* each sender's next step; it holds q_lock unless idle
    node,              \* the message that the holder of q_lock sends
    ahead,             \* get_remain_space found tail >= head
    unfenced,          \* stores of memcpy_nt_write that are under way
    dpc,               \* the dispatcher's next step
    total_size,        \* total_size of dequeue_msg
    result,            \* the lines that dequeue_msg has copied
    stop,              \* MsgDispatcher::stop
    build,             \* the program that runs
    sent, received     \* history: messages enqueued, messages handled

queue == <<head, tail, msg>>
sender == <<pc, node, ahead, sent>>
dispatcher == <<dpc, total_size, result, received>>
control == <<stop, build>>
vars == <<queue, sender, unfenced, dispatcher, control>>

Lines == 0 .. Capacity - 1

\* A message is known by the number of lines sent before it.
Message == [at : 0 .. MaxMessages * Capacity, length : 1 .. Capacity]
NoMessage == [at |-> 0, length |-> 0]
Part == [of : Message \cup {NoMessage}, part : 0 .. Capacity]
Blank == [of |-> NoMessage, part |-> 0]

\* Faulty variant of Line: the end of the buffer itself does not wrap.
LinePast(pointer, k) ==
    IF pointer + k > Capacity THEN pointer + k - Capacity ELSE pointer + k

\* The line at offset k from a pointer: the copy and adjust_tail or
\* adjust_head go on at the start of the buffer.
Line(pointer, k) ==
    IF pointer + k >= Capacity THEN pointer + k - Capacity ELSE pointer + k

\* The lines of a message.
Parts(m) == [k \in 1 .. m.length |-> [of |-> m, part |-> k]]

\* The lines of the first n messages.
Upto(n) == IF n = 0 THEN 0 ELSE sent[n].at + sent[n].length

\* How many messages were dequeued, and the lines of those still to be.
Dequeued == Len(received) + (IF dpc = "handle" THEN 1 ELSE 0)
Waiting == Upto(Len(sent)) - Upto(Dequeued)

Init ==
    /\ head = 0 /\ tail = 0
    /\ msg = [l \in Lines |-> Blank]
    /\ pc = [s \in Senders |-> "idle"]
    /\ node = NoMessage
    /\ ahead = FALSE
    /\ unfenced = {}
    /\ dpc = "poll" /\ total_size = 0 /\ result = <<>>
    /\ stop = FALSE /\ build \in Builds
    /\ sent = <<>> /\ received = <<>>

-----------------------------------------------------------------------------
(* MsgCollector::sendMsg and MsgQueue::enqueue_msg                         *)

\* The messages are sent in the order in which sendMsg takes the mutex.
sendMsg(s, length) ==
    /\ length \in build.sizes
    /\ Len(sent) < MaxMessages
    /\ Waiting + length <= build.backlog
    /\ \A t \in Senders : pc[t] = "idle"
    /\ node' = [at |-> Upto(Len(sent)), length |-> length]
    /\ pc' = [pc EXCEPT ![s] = IF build.oneLoad THEN "measure" ELSE "compare"]
    /\ UNCHANGED <<queue, ahead, sent, unfenced, dispatcher, control>>

\* get_remain_space loads head to compare it with tail ...
CompareEnds(s) ==
    /\ pc[s] = "compare"
    /\ ahead' = (tail >= head)
    /\ pc' = [pc EXCEPT ![s] = "measure"]
    /\ UNCHANGED <<queue, node, sent, unfenced, dispatcher, control>>

\* Faulty variants of Fits: one takes tail to be ahead of head always, one
\* counts only the space at the end of the buffer.
FitsUnwrapped(length) == length <= Capacity - (tail - head)

FitsAtEnd(length) == length <= Capacity - tail

\* ... and to subtract, again unless the compiler merges the loads.  A
\* negative int is a large size_t in enqueue_msg.
Fits(length) ==
    IF (build.oneLoad /\ tail >= head) \/ (~build.oneLoad /\ ahead)
    THEN length <= Capacity - (tail - head)
    ELSE head - tail < 0 \/ length <= head - tail

\* The message fits: memcpy_nt_write copies its lines, in one or two parts.
CopyIn(s) ==
    /\ pc[s] = "measure" /\ Fits(node.length)
    /\ unfenced' = unfenced \cup
         {[line |-> Line(tail, k - 1), value |-> Parts(node)[k]] : k \in 1 .. node.length}
    /\ ahead' = FALSE
    /\ pc' = [pc EXCEPT ![s] = "fence"]
    /\ UNCHANGED <<queue, node, sent, dispatcher, control>>

\* It does not: the process exits, with the mutex held.
queue_full(s) ==
    /\ pc[s] = "measure" /\ ~Fits(node.length)
    /\ ahead' = FALSE
    /\ pc' = [pc EXCEPT ![s] = "exit"]
    /\ UNCHANGED <<queue, node, sent, unfenced, dispatcher, control>>

\* A store of memcpy_nt_write reaches the memory.
StoreLine ==
    \E w \in unfenced :
      /\ msg' = [msg EXCEPT ![w.line] = w.value]
      /\ unfenced' = unfenced \ {w}
      /\ UNCHANGED <<head, tail, sender, dispatcher, control>>

\* Faulty variant of Fenced: no fence.
NotFenced == TRUE

\* _mm_sfence lets the caller go on when the stores before it are done.
Fenced == unfenced = {}

\* After the fence, the new tail is stored and the mutex released.
PublishTail(s) ==
    /\ pc[s] = "fence" /\ Fenced
    /\ tail' = Line(tail, node.length)
    /\ sent' = Append(sent, node)
    /\ node' = NoMessage
    /\ pc' = [pc EXCEPT ![s] = "idle"]
    /\ UNCHANGED <<head, msg, ahead, unfenced, dispatcher, control>>

-----------------------------------------------------------------------------
(* MsgDispatcher::dispatchLoop and MsgQueue::dequeue_msg                   *)

CheckStop ==
    /\ dpc = "poll"
    /\ dpc' = IF stop THEN "stopped" ELSE "look"
    /\ UNCHANGED <<queue, sender, unfenced, total_size, result, received, control>>

\* Faulty variant of is_queue_empty: a tail that has wrapped looks empty.
is_queue_emptyPast == head >= tail

is_queue_empty == head = tail

Look ==
    /\ dpc = "look"
    /\ dpc' = IF is_queue_empty THEN "poll" ELSE "length"
    /\ UNCHANGED <<queue, sender, unfenced, total_size, result, received, control>>

\* The length is in the first line of a message; in any other line the bytes
\* in its place are any number.  A copy longer than the buffer takes lines twice
\* or leaves the buffer, which adjust_head reports and does not mend: the
\* dispatcher is not followed further.
ReadLength ==
    /\ dpc = "length"
    /\ total_size' \in IF msg[head].part = 1 THEN {msg[head].of.length} ELSE 0 .. MaxLength
    /\ dpc' = IF total_size' <= Capacity THEN "copy" ELSE "overrun"
    /\ UNCHANGED <<queue, sender, unfenced, result, received, control>>

CopyOut ==
    /\ dpc = "copy" /\ Len(result) < total_size
    /\ result' = Append(result, msg[Line(head, Len(result))])
    /\ UNCHANGED <<queue, sender, unfenced, dpc, total_size, received, control>>

\* Faulty variant of PublishHead: the space is released before it is copied.
PublishHeadEarly ==
    /\ dpc = "copy"
    /\ head' = Line(head, total_size)
    /\ total_size' = 0
    /\ dpc' = "handle"
    /\ UNCHANGED <<tail, msg, sender, unfenced, result, received, control>>

PublishHead ==
    /\ dpc = "copy" /\ Len(result) = total_size
    /\ head' = Line(head, total_size)
    /\ total_size' = 0
    /\ dpc' = "handle"
    /\ UNCHANGED <<tail, msg, sender, unfenced, result, received, control>>

\* The handler is called with the copy, which is a message if its lines are.
Handle ==
    /\ dpc = "handle"
    /\ received' = Append(received,
                     IF \E m \in Message : result = Parts(m) THEN result[1].of ELSE NoMessage)
    /\ result' = <<>>
    /\ dpc' = "poll"
    /\ UNCHANGED <<queue, sender, unfenced, total_size, control>>

\* ~MsgDispatcher sets stop and joins the thread.
Stop ==
    /\ ~stop
    /\ stop' = TRUE
    /\ UNCHANGED <<queue, sender, unfenced, dispatcher, build>>

-----------------------------------------------------------------------------
Enqueue(s) == CompareEnds(s) \/ CopyIn(s) \/ queue_full(s) \/ PublishTail(s)

Dispatch == CheckStop \/ Look \/ ReadLength \/ CopyOut \/ PublishHead \/ Handle

Next ==
    \/ \E s \in Senders : Enqueue(s) \/ \E length \in 1 .. Capacity : sendMsg(s, length)
    \/ StoreLine
    \/ Dispatch
    \/ Stop

Spec == Init /\ [][Next]_vars

\* A thread inside enqueue_msg and the thread of the dispatcher keep running,
\* and a store reaches the memory.  Nobody has to send, and nobody to stop.
FairSpec ==
    /\ Spec
    /\ \A s \in Senders : WF_vars(Enqueue(s))
    /\ WF_vars(StoreLine)
    /\ WF_vars(Dispatch)

-----------------------------------------------------------------------------
\* The pointers stay inside the buffer (adjust_tail, adjust_head), and no copy
\* is longer than it: dequeue_msg never takes other bytes for a length that
\* brings it to "overrun".
TypeOK ==
    /\ head \in Lines /\ tail \in Lines
    /\ msg \in [Lines -> Part]
    /\ pc \in [Senders -> {"idle", "compare", "measure", "fence", "exit"}]
    /\ node \in Message \cup {NoMessage}
    /\ ahead \in BOOLEAN
    /\ unfenced \subseteq [line : Lines, value : Part]
    /\ dpc \in {"poll", "look", "length", "copy", "handle", "stopped"}
    /\ total_size \in 0 .. Capacity
    /\ result \in Seq(Part) /\ Len(result) <= Capacity
    /\ stop \in BOOLEAN /\ build \in Builds
    /\ sent \in Seq(Message) /\ received \in Seq(Message \cup {NoMessage})

\* The lines from head to tail are those of the messages that wait, in order,
\* and never all lines: enqueue_msg overwrites nothing that dequeue_msg has yet
\* to copy, dequeue_msg finds a message's length where it expects it, and equal
\* pointers mean an empty queue.
RingHolds ==
    /\ Waiting < Capacity
    /\ tail = Line(head, Waiting)
    /\ \A n \in Dequeued + 1 .. Len(sent) : \A k \in 1 .. sent[n].length :
        msg[Line(head, sent[n].at - Upto(Dequeued) + k - 1)] = Parts(sent[n])[k]

C == INSTANCE Channel WITH Message <- Message, sent <- sent, received <- received

\* The collector, the queue and the dispatcher implement a channel: the
\* handler gets every message whole, once and in the order of sendMsg.
IsChannel == C!Spec

\* dispatchLoop handles every message that was enqueued, unless the
\* dispatcher is destroyed.
Delivered ==
    \A k \in 1 .. MaxMessages : Len(sent) >= k ~> Len(received) >= k \/ stop

\* When is_queue_empty holds, every message has been dequeued.
EmptyMeansDelivered == is_queue_empty => Dequeued = Len(sent)

RefusesOnlyFull ==
    \A s \in Senders : pc[s] # "exit" /\ pc'[s] = "exit" =>
        Waiting + node.length > Capacity

\* queue_full is called only when the message does not fit.
FullWhenRefused == [][RefusesOnlyFull]_vars

\* The same of the builds in which get_remain_space loads head once, so that
\* the dispatcher cannot empty the queue between the comparison and the
\* subtraction.
OneLoadRefusesOnlyFull == [][build.oneLoad => RefusesOnlyFull]_vars
=============================================================================
