----------------------------- MODULE MPMCQueue ------------------------------
(***************************************************************************)
(* The multi-producer multi-consumer ring of src/shm-lib/include/msg/      *)
(* mpmc_queue.h, in its form for machines without cache coherence          *)
(* (USE_NO_CC_QUEUE).  head, tail and the slots' turns are shared atomics; *)
(* the slots' values are ordinary data that each machine caches, moved to  *)
(* and from memory by clwb and clflush.                                    *)
(*                                                                         *)
(* Positions are handed out by fetch_add.  Position p uses slot p % cap in *)
(* round p / cap; the slot's turn says which of its uses is next: 2r for   *)
(* the enqueue of round r, 2r + 1 for its dequeue.  The item enqueued at   *)
(* position p is written p.                                                *)
(***************************************************************************)
EXTENDS Integers

CONSTANTS
    Threads,      \* the client threads
    Machines,     \* the machines that share the memory
    MachineOf,    \* the machine each thread runs on
    capacity,     \* number of slots
    MaxPosition   \* bound: positions handed out by head and by tail

ASSUME CapacityAssumption == capacity \in Nat \ {0}
ASSUME MaxPositionAssumption == MaxPosition \in Nat
ASSUME MachineAssumption == MachineOf \in [Threads -> Machines]

Slots == 0 .. capacity - 1
Positions == 0 .. MaxPosition
NoItem == -1
NotCached == -2
Items == Positions \cup {NoItem}

idx(p) == p % capacity
turn(p) == p \div capacity

VARIABLES
    head,     \* the position of the next dequeue
    tail,     \* the position of the next enqueue
    turns,    \* slot.turn
    memory,   \* slot.value in the shared memory
    cache,    \* slot.value in each machine's cache, or NotCached
    dirty,    \* the cached values not yet written back
    pc,       \* the next access of each thread, "idle" between calls
    pos,      \* current_tail or current_head
    item      \* what the thread's last dequeue read

vars == <<head, tail, turns, memory, cache, dirty, pc, pos, item>>

Init ==
    /\ head = 0
    /\ tail = 0
    /\ turns = [s \in Slots |-> 0]
    /\ memory = [s \in Slots |-> NoItem]
    /\ cache = [m \in Machines |-> [s \in Slots |-> NotCached]]
    /\ dirty = {}
    /\ pc = [t \in Threads |-> "idle"]
    /\ pos = [t \in Threads |-> 0]
    /\ item = [t \in Threads |-> NoItem]

Goto(t, from, to) == pc[t] = from /\ pc' = [pc EXCEPT ![t] = to]

-----------------------------------------------------------------------------
(* A machine's cached copy of a slot's value.                              *)

\* What a load on machine m returns, and the line it leaves in the cache.
CachedValue(m, s) == IF cache[m][s] = NotCached THEN memory[s] ELSE cache[m][s]

\* Faulty variant of WriteBack: the line stays in the cache.
WriteBackNothing(m, s) == UNCHANGED <<memory, dirty>>

\* clwb of a line: it stays cached, memory holds its value.
WriteBack(m, s) ==
    /\ memory' = [memory EXCEPT ![s] = CachedValue(m, s)]
    /\ dirty' = dirty \ {<<m, s>>}

\* Faulty variant of Flush: the line survives.
FlushNothing(m, s) == UNCHANGED <<memory, cache, dirty>>

\* clflush of a line, and what the cache may do to any line at any time: write
\* it back if it is dirty, and drop it.
Flush(m, s) ==
    /\ memory' = IF <<m, s>> \in dirty
                 THEN [memory EXCEPT ![s] = cache[m][s]] ELSE memory
    /\ dirty' = dirty \ {<<m, s>>}
    /\ cache' = [cache EXCEPT ![m][s] = NotCached]

\* A load of the slot's turn, which may share the line, or a prefetch.
Fetch(m, s) ==
    /\ cache[m][s] = NotCached
    /\ cache' = [cache EXCEPT ![m][s] = memory[s]]
    /\ UNCHANGED <<head, tail, turns, memory, dirty, pc, pos, item>>

Evict(m, s) ==
    /\ cache[m][s] # NotCached
    /\ Flush(m, s)
    /\ UNCHANGED <<head, tail, turns, pc, pos, item>>

-----------------------------------------------------------------------------
(* enqueue                                                                 *)

EnqueueClaim(t) ==
    /\ tail < MaxPosition
    /\ Goto(t, "idle", "e_wait")
    /\ pos' = [pos EXCEPT ![t] = tail]
    /\ tail' = tail + 1
    /\ UNCHANGED <<head, turns, memory, cache, dirty, item>>

\* Faulty variant of EnqueueWait: the wait for the slot to be emptied is
\* missing.
EnqueueWaitNot(t) ==
    /\ Goto(t, "e_wait", "e_write")
    /\ UNCHANGED <<head, tail, turns, memory, cache, dirty, pos, item>>

\* The spin until the slot has been emptied; it ends when the turn has come.
EnqueueWait(t) ==
    /\ turns[idx(pos[t])] = turn(pos[t]) * 2
    /\ Goto(t, "e_wait", "e_write")
    /\ UNCHANGED <<head, tail, turns, memory, cache, dirty, pos, item>>

EnqueueWrite(t) ==
    /\ Goto(t, "e_write", "e_clwb")
    /\ cache' = [cache EXCEPT ![MachineOf[t]][idx(pos[t])] = pos[t]]
    /\ dirty' = dirty \cup {<<MachineOf[t], idx(pos[t])>>}
    /\ UNCHANGED <<head, tail, turns, memory, pos, item>>

EnqueueWriteBack(t) ==
    /\ Goto(t, "e_clwb", "e_publish")
    /\ WriteBack(MachineOf[t], idx(pos[t]))
    /\ UNCHANGED <<head, tail, turns, cache, pos, item>>

\* Faulty variant of EnqueuePublish: the round is not counted.
EnqueuePublishOne(t) ==
    /\ Goto(t, "e_publish", "idle")
    /\ turns' = [turns EXCEPT ![idx(pos[t])] = 1]
    /\ UNCHANGED <<head, tail, memory, cache, dirty, pos, item>>

EnqueuePublish(t) ==
    /\ Goto(t, "e_publish", "idle")
    /\ turns' = [turns EXCEPT ![idx(pos[t])] = turn(pos[t]) * 2 + 1]
    /\ UNCHANGED <<head, tail, memory, cache, dirty, pos, item>>

-----------------------------------------------------------------------------
(* dequeue                                                                 *)

DequeueClaim(t) ==
    /\ head < MaxPosition
    /\ Goto(t, "idle", "d_wait")
    /\ pos' = [pos EXCEPT ![t] = head]
    /\ head' = head + 1
    /\ UNCHANGED <<tail, turns, memory, cache, dirty, item>>

\* The spin until the item of this position has been published.
DequeueWait(t) ==
    /\ turns[idx(pos[t])] = turn(pos[t]) * 2 + 1
    /\ Goto(t, "d_wait", "d_flush")
    /\ UNCHANGED <<head, tail, turns, memory, cache, dirty, pos, item>>

DequeueFlush(t) ==
    /\ Goto(t, "d_flush", "d_read")
    /\ Flush(MachineOf[t], idx(pos[t]))
    /\ UNCHANGED <<head, tail, turns, pos, item>>

DequeueRead(t) ==
    LET m == MachineOf[t]
        s == idx(pos[t])
    IN  /\ Goto(t, "d_read", "d_release")
        /\ item' = [item EXCEPT ![t] = CachedValue(m, s)]
        /\ cache' = [cache EXCEPT ![m][s] = CachedValue(m, s)]
        /\ UNCHANGED <<head, tail, turns, memory, dirty, pos>>

\* Faulty variant of DequeueRelease: the round is counted down.
DequeueReleaseDown(t) ==
    /\ Goto(t, "d_release", "idle")
    /\ turns' = [turns EXCEPT ![idx(pos[t])] = (turn(pos[t]) - 1) * 2]
    /\ UNCHANGED <<head, tail, memory, cache, dirty, pos, item>>

DequeueRelease(t) ==
    /\ Goto(t, "d_release", "idle")
    /\ turns' = [turns EXCEPT ![idx(pos[t])] = turn(pos[t]) * 2 + 2]
    /\ UNCHANGED <<head, tail, memory, cache, dirty, pos, item>>

-----------------------------------------------------------------------------
(* try_dequeue: after its exchange on head succeeds it goes on like dequeue *)

TryLoadHead(t) ==
    /\ Goto(t, "idle", "t_check")
    /\ pos' = [pos EXCEPT ![t] = head]
    /\ UNCHANGED <<head, tail, turns, memory, cache, dirty, item>>

TryCheckTurn(t) ==
    /\ Goto(t, "t_check",
            IF turns[idx(pos[t])] = turn(pos[t]) * 2 + 1 THEN "t_cas"
                                                         ELSE "t_reload")
    /\ UNCHANGED <<head, tail, turns, memory, cache, dirty, pos, item>>

\* Faulty variant of TryCas: head is incremented whatever it has become.
TryCasAdd(t) ==
    /\ Goto(t, "t_cas", "d_flush")
    /\ head' = head + 1
    /\ UNCHANGED <<tail, turns, memory, cache, dirty, pos, item>>

\* The exchange; when it fails current_head becomes the head it found.
TryCas(t) ==
    /\ \/ /\ head = pos[t]
          /\ Goto(t, "t_cas", "d_flush")
          /\ head' = pos[t] + 1
          /\ UNCHANGED pos
       \/ /\ head # pos[t]
          /\ Goto(t, "t_cas", "t_check")
          /\ pos' = [pos EXCEPT ![t] = head]
          /\ UNCHANGED head
    /\ UNCHANGED <<tail, turns, memory, cache, dirty, item>>

\* Faulty variant of TryReload: it never gives up.
TryReloadAgain(t) ==
    /\ Goto(t, "t_reload", "t_check")
    /\ pos' = [pos EXCEPT ![t] = head]
    /\ UNCHANGED <<head, tail, turns, memory, cache, dirty, item>>

\* head has not moved since the check: there is no item, return false.
TryReload(t) ==
    /\ \/ /\ head = pos[t]
          /\ Goto(t, "t_reload", "idle")
          /\ UNCHANGED pos
       \/ /\ head # pos[t]
          /\ Goto(t, "t_reload", "t_check")
          /\ pos' = [pos EXCEPT ![t] = head]
    /\ UNCHANGED <<head, tail, turns, memory, cache, dirty, item>>

-----------------------------------------------------------------------------
Try(t) == TryCheckTurn(t) \/ TryCas(t) \/ TryReload(t)

Continue(t) ==
    \/ EnqueueWait(t) \/ EnqueueWrite(t) \/ EnqueueWriteBack(t)
    \/ EnqueuePublish(t)
    \/ DequeueWait(t) \/ DequeueFlush(t) \/ DequeueRead(t)
    \/ DequeueRelease(t)
    \/ Try(t)

Next ==
    \/ \E t \in Threads :
          EnqueueClaim(t) \/ DequeueClaim(t) \/ TryLoadHead(t) \/ Continue(t)
    \/ \E m \in Machines, s \in Slots : Fetch(m, s) \/ Evict(m, s)

Spec == Init /\ [][Next]_vars

\* What is assumed of every schedule is fairness to a try_dequeue that has not
\* taken a position yet: every enqueue and dequeue may stop anywhere.
FairSpec == Spec /\ \A t \in Threads : WF_vars(Try(t))

\* Threads inside a call keep running; nobody is forced to make a call.
CallsContinue == \A t \in Threads : WF_vars(Continue(t))

-----------------------------------------------------------------------------
EnqueuePCs == {"e_wait", "e_write", "e_clwb", "e_publish"}
DequeuePCs == {"d_wait", "d_flush", "d_read", "d_release"}
TryPCs == {"t_check", "t_cas", "t_reload"}

TypeOK ==
    /\ head \in Positions
    /\ tail \in Positions
    /\ turns \in [Slots -> Nat]
    /\ memory \in [Slots -> Items]
    /\ cache \in [Machines -> [Slots -> Items \cup {NotCached}]]
    /\ dirty \subseteq Machines \X Slots
    /\ pc \in [Threads -> {"idle"} \cup EnqueuePCs \cup DequeuePCs \cup TryPCs]
    /\ pos \in [Threads -> Positions]
    /\ item \in [Threads -> Items]

Accessing(t) == pc[t] \in {"e_write", "e_clwb", "e_publish",
                           "d_flush", "d_read", "d_release"}

\* Two threads never access the value of the same slot at the same time: the
\* turns hand a slot from its enqueuer to its dequeuer and on to the enqueuer
\* of the next round (mpmc_queue.h:70, 103, 133).
SlotExclusive ==
    \A t, u \in Threads :
        Accessing(t) /\ Accessing(u) /\ idx(pos[t]) = idx(pos[u]) => t = u

\* A dequeue that took position p returns the item enqueued at position p:
\* items leave in the order of the enqueuers' positions, none is lost,
\* duplicated or read from a stale cache line (mpmc_queue.h:73, 111).
DequeuesItsItem ==
    \A t \in Threads : pc[t] = "d_release" => item[t] = pos[t]

\* A dequeue whose item's position has been taken by an enqueuer returns: the
\* waits of dequeuers and enqueuers for each other's slots are never circular,
\* as long as every thread inside a call keeps running.
WaitersServed ==
    CallsContinue =>
        \A t \in Threads : pc[t] = "d_wait" /\ pos[t] < tail ~> pc[t] = "idle"

\* mpmc_queue.h:123: try_dequeue never waits for another thread, even if
\* enqueuers and dequeuers stop in the middle of a call; it leaves its loop.
TryNeverWaits == \A t \in Threads : pc[t] \in TryPCs ~> pc[t] \notin TryPCs
=============================================================================
