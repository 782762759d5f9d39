------------------------------ MODULE ShmLock -------------------------------
(***************************************************************************)
(* The lock of src/ds/lock: ShmLock takes a mutex of its machine and then  *)
(* SoftLock's cross-machine bakery lock, which uses nothing but loads and  *)
(* stores that bypass the caches.                                          *)
(*                                                                         *)
(* A non-temporal store is weakly ordered: it stays in the thread's        *)
(* pending store until it drains, at any time, and a memory_fence (and the *)
(* locked instruction that releases a pthread mutex) waits until it has.   *)
(* No thread has two stores pending: a fence separates them.  The          *)
(* comparison at soft_lock.cc:43-45 loads number[j] three times, and each  *)
(* load is a step.                                                         *)
(***************************************************************************)
EXTENDS Integers

CONSTANTS
    Threads,       \* the threads that call lock() and unlock()
    NUM_CLIENTS,   \* number of machines
    MachineOf,     \* SimThreadInfo::worker_machine_id of each thread
    MaxCalls       \* bound: calls of lock()

Machines == 0 .. NUM_CLIENTS - 1

ASSUME ClientsAssumption == NUM_CLIENTS \in Nat \ {0}
ASSUME MachineAssumption == MachineOf \in [Threads -> Machines]
ASSUME CallsAssumption == MaxCalls \in Nat

VARIABLES
    local_lock,   \* the machines whose mutex is held
    choosing,     \* soft_lock_t::choosing
    number,       \* soft_lock_t::number
    pending,      \* each thread's non-temporal store that has not drained
    pc,           \* each thread's next access, "idle" outside the lock
    index,        \* i and then j of the loops
    max_num,      \* the greatest number read so far
    calls         \* calls of lock() so far

vars == <<local_lock, choosing, number, pending, pc, index, max_num, calls>>

Store(array, value) == [array |-> array, value |-> value]
Drained == Store("none", 0)

Init ==
    /\ local_lock = {}
    /\ choosing = [m \in Machines |-> 0]
    /\ number = [m \in Machines |-> 0]
    /\ pending = [t \in Threads |-> Drained]
    /\ pc = [t \in Threads |-> "idle"]
    /\ index = [t \in Threads |-> 0]
    /\ max_num = [t \in Threads |-> 0]
    /\ calls = 0

Goto(t, from, to) == pc[t] = from /\ pc' = [pc EXCEPT ![t] = to]

\* Faulty variant of memory_fence: it waits for nothing.
no_fence(t) == TRUE

\* mfence, or a locked instruction.
memory_fence(t) == pending[t] = Drained

\* WRITE_NT_32: the store is issued.
WRITE_NT_32(t, store) == pending' = [pending EXCEPT ![t] = store]

\* A pending store reaches the shared memory.
Drain(t) ==
    /\ \/ /\ pending[t].array = "choosing"
          /\ choosing' = [choosing EXCEPT ![MachineOf[t]] = pending[t].value]
          /\ UNCHANGED number
       \/ /\ pending[t].array = "number"
          /\ number' = [number EXCEPT ![MachineOf[t]] = pending[t].value]
          /\ UNCHANGED choosing
    /\ pending' = [pending EXCEPT ![t] = Drained]
    /\ UNCHANGED <<local_lock, pc, index, max_num, calls>>

-----------------------------------------------------------------------------
(* lock()                                                                  *)

LockLocal(t) ==
    /\ calls < MaxCalls
    /\ calls' = calls + 1
    /\ MachineOf[t] \notin local_lock
    /\ local_lock' = local_lock \cup {MachineOf[t]}
    /\ Goto(t, "idle", "choose")
    /\ UNCHANGED <<choosing, number, pending, index, max_num>>

Choose(t) ==
    /\ Goto(t, "choose", "max")
    /\ WRITE_NT_32(t, Store("choosing", 1))
    /\ index' = [index EXCEPT ![t] = 0]
    /\ max_num' = [max_num EXCEPT ![t] = 0]
    /\ UNCHANGED <<local_lock, choosing, number, calls>>

\* One round of the loop over the numbers.
ReadMax(t) ==
    /\ memory_fence(t)
    /\ Goto(t, "max", IF index[t] + 1 < NUM_CLIENTS THEN "max" ELSE "take")
    /\ max_num' = [max_num EXCEPT ![t] =
                     IF number[index[t]] > @ THEN number[index[t]] ELSE @]
    /\ index' = [index EXCEPT ![t] = index[t] + 1]
    /\ UNCHANGED <<local_lock, choosing, number, pending, calls>>

\* Faulty variant of TakeNumber: the greatest number is taken, not the next.
TakeNumberSame(t) ==
    /\ Goto(t, "take", "chosen")
    /\ WRITE_NT_32(t, Store("number", max_num[t]))
    /\ UNCHANGED <<local_lock, choosing, number, index, max_num, calls>>

TakeNumber(t) ==
    /\ Goto(t, "take", "chosen")
    /\ WRITE_NT_32(t, Store("number", max_num[t] + 1))
    /\ UNCHANGED <<local_lock, choosing, number, index, max_num, calls>>

Chosen(t) ==
    /\ memory_fence(t)
    /\ Goto(t, "chosen", "choosing")
    /\ WRITE_NT_32(t, Store("choosing", 0))
    /\ index' = [index EXCEPT ![t] = 0]
    /\ UNCHANGED <<local_lock, choosing, number, max_num, calls>>

\* Faulty variant of AwaitChosen: the machine may still be choosing.
AwaitChosenNot(t) ==
    /\ Goto(t, "choosing", "zero")
    /\ UNCHANGED <<local_lock, choosing, number, pending, index, max_num, calls>>

\* The end of the loop that waits for machine j to have chosen.
AwaitChosen(t) ==
    /\ Goto(t, "choosing", "zero")
    /\ choosing[index[t]] = 0
    /\ UNCHANGED <<local_lock, choosing, number, pending, index, max_num, calls>>

\* Faulty variant of Advance: the loop runs one round too many.
AdvancePast(t, from) ==
    /\ Goto(t, from, IF index[t] < NUM_CLIENTS THEN "choosing" ELSE "cs")
    /\ index' = [index EXCEPT ![t] = index[t] + 1]

\* Machine j is not ahead of t: on to the next, or into the critical section.
Advance(t, from) ==
    /\ Goto(t, from, IF index[t] + 1 < NUM_CLIENTS THEN "choosing" ELSE "cs")
    /\ index' = [index EXCEPT ![t] = index[t] + 1]

Repeat(t, from, to) == Goto(t, from, to) /\ UNCHANGED index

\* number[j] != 0
CompareZero(t) ==
    /\ pc[t] = "zero" /\ memory_fence(t)
    /\ IF number[index[t]] # 0 THEN Repeat(t, "zero", "less")
                               ELSE Advance(t, "zero")
    /\ UNCHANGED <<local_lock, choosing, number, pending, max_num, calls>>

\* number[j] < number[id]
CompareLess(t) ==
    /\ Repeat(t, "less",
              IF number[index[t]] < number[MachineOf[t]] THEN "zero" ELSE "equal")
    /\ UNCHANGED <<local_lock, choosing, number, pending, max_num, calls>>

\* Faulty variant of CompareEqual: both owners of an equal number wait.
CompareEqualBoth(t) ==
    /\ pc[t] = "equal"
    /\ IF number[index[t]] = number[MachineOf[t]] /\ index[t] # MachineOf[t]
       THEN Repeat(t, "equal", "zero") ELSE Advance(t, "equal")
    /\ UNCHANGED <<local_lock, choosing, number, pending, max_num, calls>>

\* number[j] == number[id] && j < id
CompareEqual(t) ==
    /\ pc[t] = "equal"
    /\ IF number[index[t]] = number[MachineOf[t]] /\ index[t] < MachineOf[t]
       THEN Repeat(t, "equal", "zero") ELSE Advance(t, "equal")
    /\ UNCHANGED <<local_lock, choosing, number, pending, max_num, calls>>

-----------------------------------------------------------------------------
(* unlock()                                                                *)

UnlockSoft(t) ==
    /\ Goto(t, "cs", "release")
    /\ WRITE_NT_32(t, Store("number", 0))
    /\ UNCHANGED <<local_lock, choosing, number, index, max_num, calls>>

UnlockLocal(t) ==
    /\ memory_fence(t)
    /\ Goto(t, "release", "idle")
    /\ local_lock' = local_lock \ {MachineOf[t]}
    /\ UNCHANGED <<choosing, number, pending, index, max_num, calls>>

-----------------------------------------------------------------------------
Continue(t) ==
    \/ Choose(t) \/ ReadMax(t) \/ TakeNumber(t) \/ Chosen(t)
    \/ AwaitChosen(t) \/ CompareZero(t) \/ CompareLess(t) \/ CompareEqual(t)
    \/ UnlockSoft(t) \/ UnlockLocal(t)

Next == \E t \in Threads : LockLocal(t) \/ Continue(t) \/ Drain(t)

Spec == Init /\ [][Next]_vars

\* Every thread that holds its machine's mutex keeps running and leaves its
\* critical section, and stores drain.
FairSpec ==
    Spec /\ \A t \in Threads : WF_vars(Continue(t)) /\ WF_vars(Drain(t))

-----------------------------------------------------------------------------
Waiting == {"choosing", "zero", "less", "equal"}
PCs == {"idle", "choose", "max", "take", "chosen", "cs", "release"} \cup Waiting

TypeOK ==
    /\ local_lock \subseteq Machines
    /\ choosing \in [Machines -> Nat]
    /\ number \in [Machines -> Nat]
    /\ pending \in [Threads -> [array : {"none", "choosing", "number"}, value : Nat]]
    /\ pc \in [Threads -> PCs]
    /\ index \in [Threads -> 0 .. NUM_CLIENTS]
    /\ \A t \in Threads : pc[t] \in Waiting \cup {"max"} => index[t] \in Machines
    /\ max_num \in [Threads -> Nat]
    /\ calls \in 0 .. MaxCalls

\* At most one thread of all machines is between lock() and unlock().
MutualExclusion ==
    \A t, u \in Threads : pc[t] = "cs" /\ pc[u] = "cs" => t = u

\* The order of the bakery: smaller numbers first, then smaller machines.
Precedes(m, k) == number[m] < number[k] \/ (number[m] = number[k] /\ m < k)

\* The thread in the critical section holds the least number of all machines
\* that hold one: whoever has taken a number is overtaken only by smaller
\* numbers, although the comparison (soft_lock.cc:43-45) loads a number that
\* changes between its loads.
HolderIsFirst ==
    \A t \in Threads, m \in Machines :
        pc[t] = "cs" /\ m # MachineOf[t] /\ number[m] # 0
        => Precedes(MachineOf[t], m)

\* A thread that got its machine's mutex enters the critical section.  (A
\* pthread mutex is not fair, so a thread that waits for it may starve.)
Acquires == \A t \in Threads : pc[t] = "choose" ~> pc[t] = "cs"
=============================================================================
