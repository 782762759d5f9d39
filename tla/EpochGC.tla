------------------------------ MODULE EpochGC -------------------------------
(***************************************************************************)
(* The epoch-based reclamation of src/malloc/lsmalloc/src/gc.cpp: threads  *)
(* bracket their operations with begin_op and end_op, retire objects, and  *)
(* reclaim their own retired objects at the end of an operation; gc_loop   *)
(* advances the epoch.  Every access to an atomic is a step.               *)
(*                                                                         *)
(* The client is external: an operation may use, until it calls end_op,    *)
(* the objects that were reachable when begin_op returned.  Objects are    *)
(* unlinked before they are retired and never linked again.                *)
(*                                                                         *)
(* Locals that no step will read have their initial values.                *)
(***************************************************************************)
EXTENDS Integers

CONSTANTS
    N,          \* threads, named by their ids 0 .. N - 1
    Objects,    \* the objects of the client's data structure
    Busy,       \* the threads that never stop calling begin_op and end_op
    MaxEpoch    \* bound: epochs that are told apart

ASSUME NAssumption == N \in Nat
ASSUME EpochAssumption == MaxEpoch \in Nat

Threads == 0 .. N - 1
Main == N                     \* the thread that destroys the collector
Actors == 0 .. N
INT64_MAX == MaxEpoch + 1     \* beyond every epoch

VARIABLES
    global_epoch, registered_threads, running,
    local_epoch,      \* of each thread
    retired_nodes,    \* each thread's list, as a set of [addr, retire_epoch]
    gc,               \* gc_loop: "check", "sleep", "store" or "done"
    gc_index,         \* i of gc_loop
    pc, loaded, index, min_epoch,   \* each actor's step and locals
    cleaning,         \* tid of force_cleanup
    state,            \* of each object: "live", "retired" or "freed"
    held,             \* the objects each thread's operation may use
    began             \* the epoch when it began

gcvars == <<global_epoch, gc, gc_index>>
locals == <<loaded, index, min_epoch>>
client == <<state, held, began>>
vars == <<gcvars, registered_threads, running, local_epoch, retired_nodes, pc,
          locals, cleaning, client>>

Init ==
    /\ global_epoch = 0
    /\ registered_threads = 0
    /\ running = TRUE
    /\ local_epoch = [t \in Threads |-> 0]
    /\ retired_nodes = [t \in Threads |-> {}]
    /\ gc = "check"
    /\ gc_index = 0
    /\ pc = [a \in Actors |-> IF a = Main THEN "user" ELSE "new"]
    /\ loaded = [a \in Actors |-> 0]
    /\ index = [a \in Actors |-> 0]
    /\ min_epoch = [a \in Actors |-> INT64_MAX]
    /\ cleaning = 0
    /\ state = [o \in Objects |-> "live"]
    /\ held = [t \in Threads |-> {}]
    /\ began = [t \in Threads |-> 0]

Goto(a, from, to) == pc[a] = from /\ pc' = [pc EXCEPT ![a] = to]

-----------------------------------------------------------------------------
(* register_thread, begin_op, retire                                       *)

Register(t) ==
    /\ pc[Main] = "user"
    /\ registered_threads = t
    /\ registered_threads' = registered_threads + 1
    /\ Goto(t, "new", "register")
    /\ UNCHANGED <<gcvars, running, local_epoch, retired_nodes, locals, cleaning, client>>

RegisterStore(t) ==
    /\ Goto(t, "register", "idle")
    /\ local_epoch' = [local_epoch EXCEPT ![t] = INT64_MAX]
    /\ UNCHANGED <<gcvars, registered_threads, running, retired_nodes, locals, cleaning, client>>

BeginLoad(t) ==
    /\ pc[Main] = "user"
    /\ Goto(t, "idle", "begin")
    /\ loaded' = [loaded EXCEPT ![t] = global_epoch]
    /\ UNCHANGED <<gcvars, registered_threads, running, local_epoch, retired_nodes,
                   index, min_epoch, cleaning, client>>

BeginStore(t) ==
    /\ Goto(t, "begin", "op")
    /\ local_epoch' = [local_epoch EXCEPT ![t] = loaded[t]]
    /\ loaded' = [loaded EXCEPT ![t] = 0]
    /\ held' = [held EXCEPT ![t] = {o \in Objects : state[o] = "live"}]
    /\ began' = [began EXCEPT ![t] = global_epoch]
    /\ UNCHANGED <<gcvars, registered_threads, running, retired_nodes, index, min_epoch,
                   cleaning, state>>

Retire(t, o) ==
    /\ pc[t] = "op" /\ state[o] = "live"
    /\ state' = [state EXCEPT ![o] = "retired"]
    /\ retired_nodes' = [retired_nodes EXCEPT ![t] =
                           @ \cup {[addr |-> o, retire_epoch |-> global_epoch]}]
    /\ UNCHANGED <<gcvars, registered_threads, running, local_epoch, pc, locals, cleaning,
                   held, began>>

-----------------------------------------------------------------------------
(* end_op and try_reclaim                                                  *)

EndLoad(t) ==
    /\ Goto(t, "op", "end")
    /\ loaded' = [loaded EXCEPT ![t] = global_epoch]
    /\ held' = [held EXCEPT ![t] = {}]
    /\ began' = [began EXCEPT ![t] = 0]
    /\ UNCHANGED <<gcvars, registered_threads, running, local_epoch, retired_nodes,
                   index, min_epoch, cleaning, state>>

\* min_epoch and i of try_reclaim are initialised.
CallReclaim(a) ==
    /\ index' = [index EXCEPT ![a] = 0]
    /\ min_epoch' = [min_epoch EXCEPT ![a] = INT64_MAX]

EndStore(t) ==
    /\ Goto(t, "end", "scan")
    /\ local_epoch' = [local_epoch EXCEPT ![t] = loaded[t]]
    /\ loaded' = [loaded EXCEPT ![t] = 0]
    /\ CallReclaim(t)
    /\ UNCHANGED <<gcvars, registered_threads, running, retired_nodes, cleaning, client>>

\* Faulty variant of Scan: the loop runs over one thread too many.
ScanPast(a) ==
    /\ pc[a] = "scan" /\ index[a] <= registered_threads
    /\ index' = [index EXCEPT ![a] = @ + 1]
    /\ UNCHANGED <<gcvars, registered_threads, running, local_epoch, retired_nodes, pc,
                   loaded, min_epoch, cleaning, client>>

\* One round of the loop over the threads' epochs.
Scan(a) ==
    /\ pc[a] = "scan" /\ index[a] < registered_threads
    /\ min_epoch' = [min_epoch EXCEPT ![a] =
                       IF local_epoch[index[a]] < @ THEN local_epoch[index[a]] ELSE @]
    /\ index' = [index EXCEPT ![a] = @ + 1]
    /\ UNCHANGED <<gcvars, registered_threads, running, local_epoch, retired_nodes, pc,
                   loaded, cleaning, client>>

SafeEpoch(a) == IF min_epoch[a] > 0 THEN min_epoch[a] - 1 ELSE 0

\* Faulty variant of Reclaimable: objects of the safe epoch itself are taken.
ReclaimableToo(a, t) == {r \in retired_nodes[t] : r.retire_epoch <= SafeEpoch(a)}

Reclaimable(a, t) == {r \in retired_nodes[t] : r.retire_epoch < SafeEpoch(a)}

\* The loop over thread t's retired nodes.
Sweep(a, t) ==
    /\ index[a] >= registered_threads
    /\ retired_nodes' = [retired_nodes EXCEPT ![t] = @ \ Reclaimable(a, t)]
    /\ state' = [o \in Objects |-> IF \E r \in Reclaimable(a, t) : r.addr = o
                                   THEN "freed" ELSE state[o]]

EndReclaim(t) ==
    /\ Goto(t, "scan", "idle")
    /\ Sweep(t, t)
    /\ CallReclaim(t)
    /\ UNCHANGED <<gcvars, registered_threads, running, local_epoch, loaded, cleaning,
                   held, began>>

-----------------------------------------------------------------------------
(* gc_loop                                                                 *)

GcCheck ==
    /\ gc = "check"
    /\ gc' = IF running THEN "sleep" ELSE "done"
    /\ UNCHANGED <<global_epoch, gc_index, registered_threads, running, local_epoch,
                   retired_nodes, pc, locals, cleaning, client>>

\* At the bound the epoch stays, and the loop goes on.
GcTick ==
    /\ gc = "sleep" /\ gc' = "store"
    /\ global_epoch' = IF global_epoch < MaxEpoch THEN global_epoch + 1 ELSE MaxEpoch
    /\ UNCHANGED <<gc_index, registered_threads, running, local_epoch, retired_nodes, pc, locals,
                   cleaning, client>>

\* Faulty variant of GcStore: the last thread's epoch is not stored.
GcStoreShort ==
    /\ gc = "store"
    /\ IF gc_index + 1 < registered_threads
       THEN /\ local_epoch' = [local_epoch EXCEPT ![gc_index] = global_epoch]
            /\ gc_index' = gc_index + 1
            /\ UNCHANGED gc
       ELSE gc' = "check" /\ gc_index' = 0 /\ UNCHANGED local_epoch
    /\ UNCHANGED <<global_epoch, registered_threads, running, retired_nodes, pc, locals,
                   cleaning, client>>

\* One round of the loop over the threads, or its end.  (Only gc_loop changes
\* global_epoch, so it still is new_epoch.)
GcStore ==
    /\ gc = "store"
    /\ IF gc_index < registered_threads
       THEN /\ local_epoch' = [local_epoch EXCEPT ![gc_index] = global_epoch]
            /\ gc_index' = gc_index + 1
            /\ UNCHANGED gc
       ELSE gc' = "check" /\ gc_index' = 0 /\ UNCHANGED local_epoch
    /\ UNCHANGED <<global_epoch, registered_threads, running, retired_nodes, pc, locals,
                   cleaning, client>>

-----------------------------------------------------------------------------
(* ~EpochBasedGC and force_cleanup, when no thread is in a call            *)

Destroy ==
    /\ Goto(Main, "user", "join")
    /\ \A t \in Threads : pc[t] \in {"new", "idle"}
    /\ running' = FALSE
    /\ UNCHANGED <<gcvars, registered_threads, local_epoch, retired_nodes, locals, cleaning,
                   client>>

\* gc_thread has been joined: the loop of force_cleanup begins.
Join ==
    /\ gc = "done"
    /\ Goto(Main, "join", IF registered_threads > 0 THEN "scan" ELSE "destroyed")
    /\ CallReclaim(Main)
    /\ UNCHANGED <<gcvars, registered_threads, running, local_epoch, retired_nodes, loaded,
                   cleaning, client>>

Cleanup ==
    /\ Goto(Main, "scan", IF cleaning + 1 < registered_threads THEN "scan" ELSE "destroyed")
    /\ Sweep(Main, cleaning)
    /\ cleaning' = cleaning + 1
    /\ CallReclaim(Main)
    /\ UNCHANGED <<gcvars, registered_threads, running, local_epoch, loaded, held, began>>

-----------------------------------------------------------------------------
\* The rest of a call that has begun, and the end of the operation.
Continue(t) ==
    RegisterStore(t) \/ BeginStore(t) \/ EndLoad(t) \/ EndStore(t) \/ Scan(t) \/ EndReclaim(t)

GcLoop == GcCheck \/ GcTick \/ GcStore

Next ==
    \/ \E t \in Threads : \/ Register(t) \/ BeginLoad(t) \/ Continue(t)
                          \/ \E o \in Objects : Retire(t, o)
    \/ GcLoop
    \/ Destroy \/ Join \/ Scan(Main) \/ Cleanup

Spec == Init /\ [][Next]_vars

\* gc_loop keeps running, every call and every operation ends, and the busy
\* threads begin new operations; the others may stop between operations.
FairSpec ==
    /\ Spec /\ WF_vars(GcLoop)
    /\ \A t \in Threads : WF_vars(Continue(t))
    /\ \A t \in Busy : WF_vars(BeginLoad(t))

-----------------------------------------------------------------------------
Epochs == 0 .. MaxEpoch

TypeOK ==
    /\ global_epoch \in Epochs
    /\ registered_threads \in 0 .. N
    /\ running \in BOOLEAN
    /\ local_epoch \in [Threads -> 0 .. INT64_MAX]
    /\ retired_nodes \in [Threads -> SUBSET [addr : Objects, retire_epoch : Epochs]]
    /\ gc \in {"check", "sleep", "store", "done"}
    /\ gc_index \in 0 .. N
    /\ pc \in [Actors -> {"new", "register", "idle", "begin", "op", "end", "scan",
                          "user", "join", "destroyed"}]
    /\ loaded \in [Actors -> Epochs]
    /\ index \in [Actors -> 0 .. N]
    /\ min_epoch \in [Actors -> 0 .. INT64_MAX]
    /\ cleaning \in 0 .. N
    /\ state \in [Objects -> {"live", "retired", "freed"}]
    /\ held \in [Threads -> SUBSET Objects]
    /\ began \in [Threads -> Epochs]

\* What the collector does guarantee: an object is reclaimed under an operation
\* (gc.cpp:64-74) only if the epoch advanced twice since the operation began,
\* so operations that end within a period of gc_loop are safe.
ShortOperationsSafe ==
    \A t \in Threads : \A o \in held[t] :
        state[o] = "freed" => global_epoch >= began[t] + 2

\* "Safe to reclaim" (gc.cpp:68): no operation may still use a reclaimed object.
SafeToReclaim == \A t \in Threads : \A o \in held[t] : state[o] # "freed"

\* An object that a busy thread retired is reclaimed once the epoch has advanced
\* far enough, although the other threads may be idle: gc_loop advances their
\* epochs for them (gc.cpp:47-49).
EventuallyReclaimed ==
    \A t \in Busy, o \in Objects :
        (\E r \in retired_nodes[t] : r.addr = o /\ r.retire_epoch + 2 <= MaxEpoch)
            ~> (state[o] = "freed" \/ ~running)
=============================================================================
