----------------------------- MODULE HelpUpdate -----------------------------
(***************************************************************************)
(* The replicated root pointer of src/shm-lib/include/replica_help_update/ *)
(* help_update.h.  A global pointer is published together with one replica *)
(* per thread; the lowest bit of a pointer is a lock bit.  A writer locks  *)
(* the global pointer on the new value (A.1), copies A.1 to every replica  *)
(* in index order and then unlocks the global pointer (A.0).  Whoever      *)
(* meets a locked pointer helps the writer before going on.                *)
(*                                                                         *)
(* A pointer value is a version: the n-th value installed in the global    *)
(* pointer is n.  Callers pass freshly allocated objects as new_val        *)
(* (clevel_hash.hpp allocates a level_meta per call), so no value is       *)
(* installed twice.  Every access to shared memory is a step of its own;   *)
(* a thread may stop between any two.                                      *)
(***************************************************************************)
EXTENDS Integers

CONSTANTS
    replica_num,  \* number of replicas, one per thread
    MaxVersion    \* bound: how many values are ever installed

ASSUME ReplicaNumAssumption == replica_num \in Nat \ {0}
ASSUME MaxVersionAssumption == MaxVersion \in Nat

Threads == 0 .. replica_num - 1

VARIABLES
    global_ptr,    \* *global_ptr_
    replica_ptrs,  \* (*replica_ptrs_)[i]
    pc,            \* next shared access of each thread, "idle" between calls
    old_val,       \* cas_ptr's old_val
    expected,      \* help_update's expected_val
    i,             \* help_update's loop index
    local_r,       \* help_update's local_r
    caller,        \* where help_update returns to
    load_r,        \* load_ptr's local_r
    loaded,        \* what the thread's last load_ptr returned
    completed,     \* history: newest version whose cas_ptr has returned true
    begun          \* history: completed when the thread's last load_ptr began

vars == <<global_ptr, replica_ptrs, pc, old_val, expected, i, local_r, caller,
          load_r, loaded, completed, begun>>

Pointer == [ver : Nat, lock : BOOLEAN]
with_lock(v) == [ver |-> v, lock |-> TRUE]
unlocked(v) == [ver |-> v, lock |-> FALSE]

HelpPCs == {"h_global", "h_replica", "h_recheck", "h_cas", "h_reload",
            "h_clear"}
PCs == HelpPCs \cup {"idle", "c_swap", "l_clear"}
Callers == {"help_first", "publish", "load"}

Init ==
    /\ global_ptr = unlocked(0)
    /\ replica_ptrs = [r \in Threads |-> unlocked(0)]
    /\ pc = [t \in Threads |-> "idle"]
    /\ old_val = [t \in Threads |-> 0]
    /\ expected = [t \in Threads |-> 0]
    /\ i = [t \in Threads |-> 0]
    /\ local_r = [t \in Threads |-> unlocked(0)]
    /\ caller = [t \in Threads |-> "load"]
    /\ load_r = [t \in Threads |-> unlocked(0)]
    /\ loaded = [t \in Threads |-> 0]
    /\ completed = 0
    /\ begun = [t \in Threads |-> 0]

-----------------------------------------------------------------------------
(* help_update(expected_val, start_check_id)                               *)

\* The call: the loop starts at start_check_id.
CallHelp(t, v, start, from) ==
    /\ pc' = [pc EXCEPT ![t] = "h_global"]
    /\ expected' = [expected EXCEPT ![t] = v]
    /\ i' = [i EXCEPT ![t] = start]
    /\ caller' = [caller EXCEPT ![t] = from]

\* The return; every caller ignores the result.  cas_ptr goes on to its own
\* exchange, or returns true; load_ptr goes on to clear its replica's lock.
ReturnHelp(t) ==
    /\ pc' = [pc EXCEPT ![t] = CASE caller[t] = "help_first" -> "c_swap"
                                 [] caller[t] = "publish" -> "idle"
                                 [] OTHER -> "l_clear"]
    /\ completed' = IF caller[t] = "publish" /\ expected[t] > completed
                    THEN expected[t] ELSE completed
    /\ UNCHANGED i

\* Faulty variants of NextReplica: the loop ends before the last replica, or
\* its body advances i as well.
NextReplicaShort(t) ==
    /\ i' = [i EXCEPT ![t] = i[t] + 1]
    /\ pc' = [pc EXCEPT ![t] = IF i[t] + 2 < replica_num THEN "h_global"
                                                         ELSE "h_clear"]
    /\ UNCHANGED completed

NextReplicaTwice(t) ==
    /\ i' = [i EXCEPT ![t] = i[t] + 2]
    /\ pc' = [pc EXCEPT ![t] = IF i[t] + 2 < replica_num THEN "h_global"
                                                         ELSE "h_clear"]
    /\ UNCHANGED completed

\* ++i, and the loop condition.
NextReplica(t) ==
    /\ i' = [i EXCEPT ![t] = i[t] + 1]
    /\ pc' = [pc EXCEPT ![t] = IF i[t] + 1 < replica_num THEN "h_global"
                                                         ELSE "h_clear"]
    /\ UNCHANGED completed

HelpFrame(t) ==
    UNCHANGED <<old_val, expected, caller, load_r, loaded, begun>>

\* First load of the global pointer: done when it is unlocked on expected.
HelpGlobal(t) ==
    /\ pc[t] = "h_global"
    /\ \/ /\ global_ptr = unlocked(expected[t])
          /\ ReturnHelp(t)
       \/ /\ global_ptr # unlocked(expected[t])
          /\ pc' = [pc EXCEPT ![t] = "h_replica"]
          /\ UNCHANGED <<i, completed>>
    /\ UNCHANGED <<global_ptr, replica_ptrs, local_r>>
    /\ HelpFrame(t)

\* Load of replica i: a replica already on expected is skipped.
HelpReplica(t) ==
    /\ pc[t] = "h_replica"
    /\ local_r' = [local_r EXCEPT ![t] = replica_ptrs[i[t]]]
    /\ \/ /\ replica_ptrs[i[t]].ver = expected[t]
          /\ NextReplica(t)
       \/ /\ replica_ptrs[i[t]].ver # expected[t]
          /\ pc' = [pc EXCEPT ![t] = "h_recheck"]
          /\ UNCHANGED <<i, completed>>
    /\ UNCHANGED <<global_ptr, replica_ptrs>>
    /\ HelpFrame(t)

\* Faulty variant of HelpRecheck: the second check of the global pointer is
\* missing.
HelpRecheckNothing(t) ==
    /\ pc[t] = "h_recheck"
    /\ pc' = [pc EXCEPT ![t] = "h_cas"]
    /\ UNCHANGED <<global_ptr, replica_ptrs, i, local_r, completed>>
    /\ HelpFrame(t)

\* Second load of the global pointer: give up when it has moved on.
HelpRecheck(t) ==
    /\ pc[t] = "h_recheck"
    /\ \/ /\ global_ptr.ver # expected[t]
          /\ ReturnHelp(t)
       \/ /\ global_ptr.ver = expected[t]
          /\ pc' = [pc EXCEPT ![t] = "h_cas"]
          /\ UNCHANGED <<i, completed>>
    /\ UNCHANGED <<global_ptr, replica_ptrs, local_r>>
    /\ HelpFrame(t)

\* current_cas on replica i, the exchange.
HelpCas(t) ==
    /\ pc[t] = "h_cas"
    /\ \/ /\ replica_ptrs[i[t]] = local_r[t]
          /\ replica_ptrs' = [replica_ptrs EXCEPT
                                  ![i[t]] = with_lock(expected[t])]
          /\ NextReplica(t)
       \/ /\ replica_ptrs[i[t]] # local_r[t]
          /\ pc' = [pc EXCEPT ![t] = "h_reload"]
          /\ UNCHANGED <<replica_ptrs, i, completed>>
    /\ UNCHANGED <<global_ptr, local_r>>
    /\ HelpFrame(t)

\* Faulty variants of HelpReload: the result of current_cas is ignored, or the
\* exchange is retried without reading the replica again.
HelpReloadIgnored(t) ==
    /\ pc[t] = "h_reload"
    /\ NextReplica(t)
    /\ UNCHANGED <<global_ptr, replica_ptrs, local_r>>
    /\ HelpFrame(t)

HelpReloadRetry(t) ==
    /\ pc[t] = "h_reload"
    /\ \/ /\ replica_ptrs[i[t]] = with_lock(expected[t])
          /\ NextReplica(t)
       \/ /\ replica_ptrs[i[t]] # with_lock(expected[t])
          /\ pc' = [pc EXCEPT ![t] = "h_cas"]
          /\ UNCHANGED <<i, completed>>
    /\ UNCHANGED <<global_ptr, replica_ptrs, local_r>>
    /\ HelpFrame(t)

\* current_cas on replica i, the load after a failed exchange: when somebody
\* else wrote the same value go on, otherwise help_update returns false.
HelpReload(t) ==
    /\ pc[t] = "h_reload"
    /\ \/ /\ replica_ptrs[i[t]] = with_lock(expected[t])
          /\ NextReplica(t)
       \/ /\ replica_ptrs[i[t]] # with_lock(expected[t])
          /\ ReturnHelp(t)
    /\ UNCHANGED <<global_ptr, replica_ptrs, local_r>>
    /\ HelpFrame(t)

\* After the loop: unlock the global pointer if it is still locked on expected.
HelpClear(t) ==
    /\ pc[t] = "h_clear"
    /\ global_ptr' = IF global_ptr = with_lock(expected[t])
                     THEN unlocked(expected[t]) ELSE global_ptr
    /\ ReturnHelp(t)
    /\ UNCHANGED <<replica_ptrs, local_r>>
    /\ HelpFrame(t)

-----------------------------------------------------------------------------
(* cas_ptr(old_val, new_val)                                               *)

\* The first load finds the global pointer locked: help whoever locked it.
\* old is any value the caller may have loaded before.
CasHelpFirst(t, old) ==
    /\ pc[t] = "idle"
    /\ old <= global_ptr.ver
    /\ global_ptr.lock
    /\ old_val' = [old_val EXCEPT ![t] = old]
    /\ CallHelp(t, global_ptr.ver, 0, "help_first")
    /\ UNCHANGED <<global_ptr, replica_ptrs, local_r, load_r, loaded,
                   completed, begun>>

\* The first load finds the global pointer unlocked.
CasDirect(t, old) ==
    /\ pc[t] = "idle"
    /\ old <= global_ptr.ver
    /\ ~global_ptr.lock
    /\ old_val' = [old_val EXCEPT ![t] = old]
    /\ pc' = [pc EXCEPT ![t] = "c_swap"]
    /\ UNCHANGED <<global_ptr, replica_ptrs, expected, i, caller, local_r,
                   load_r, loaded, completed, begun>>

\* The exchange old_val -> new_val.1; when it succeeds the writer copies the
\* new value out, otherwise cas_ptr returns false.
CasSwap(t) ==
    /\ pc[t] = "c_swap"
    /\ \/ /\ global_ptr = unlocked(old_val[t])
          /\ global_ptr' = with_lock(old_val[t] + 1)
          /\ CallHelp(t, old_val[t] + 1, 0, "publish")
       \/ /\ global_ptr # unlocked(old_val[t])
          /\ pc' = [pc EXCEPT ![t] = "idle"]
          /\ UNCHANGED <<global_ptr, expected, i, caller>>
    /\ UNCHANGED <<replica_ptrs, old_val, local_r, load_r, loaded, completed,
                   begun>>

-----------------------------------------------------------------------------
(* load_ptr(thread_id)                                                     *)

\* The thread's own replica is unlocked: it is the result.
LoadUnlocked(t) ==
    /\ pc[t] = "idle"
    /\ ~replica_ptrs[t].lock
    /\ begun' = [begun EXCEPT ![t] = completed]
    /\ loaded' = [loaded EXCEPT ![t] = replica_ptrs[t].ver]
    /\ UNCHANGED <<global_ptr, replica_ptrs, pc, old_val, expected, i, local_r,
                   caller, load_r, completed>>

\* The thread's own replica is locked: help the replicas after it.
LoadAndHelp(t) ==
    /\ pc[t] = "idle"
    /\ replica_ptrs[t].lock
    /\ t + 1 < replica_num
    /\ begun' = [begun EXCEPT ![t] = completed]
    /\ load_r' = [load_r EXCEPT ![t] = replica_ptrs[t]]
    /\ CallHelp(t, replica_ptrs[t].ver, t + 1, "load")
    /\ UNCHANGED <<global_ptr, replica_ptrs, old_val, local_r, loaded, completed>>

\* The last replica is locked: there is nobody to help.
LoadLast(t) ==
    /\ pc[t] = "idle"
    /\ replica_ptrs[t].lock
    /\ t + 1 >= replica_num
    /\ begun' = [begun EXCEPT ![t] = completed]
    /\ load_r' = [load_r EXCEPT ![t] = replica_ptrs[t]]
    /\ pc' = [pc EXCEPT ![t] = "l_clear"]
    /\ UNCHANGED <<global_ptr, replica_ptrs, old_val, expected, i, local_r,
                   caller, loaded, completed>>

\* Faulty variant of LoadClear: a plain store instead of the exchange.
LoadClearStore(t) ==
    /\ pc[t] = "l_clear"
    /\ replica_ptrs' = [replica_ptrs EXCEPT ![t] = unlocked(load_r[t].ver)]
    /\ loaded' = [loaded EXCEPT ![t] = load_r[t].ver]
    /\ pc' = [pc EXCEPT ![t] = "idle"]
    /\ UNCHANGED <<global_ptr, old_val, expected, i, local_r, caller, load_r,
                   completed, begun>>

\* current_cas of the replica from A.1 to A.0, its result ignored, and return.
LoadClear(t) ==
    /\ pc[t] = "l_clear"
    /\ replica_ptrs' = IF replica_ptrs[t] = load_r[t]
                       THEN [replica_ptrs EXCEPT ![t] = unlocked(load_r[t].ver)]
                       ELSE replica_ptrs
    /\ loaded' = [loaded EXCEPT ![t] = load_r[t].ver]
    /\ pc' = [pc EXCEPT ![t] = "idle"]
    /\ UNCHANGED <<global_ptr, old_val, expected, i, local_r, caller, load_r,
                   completed, begun>>

-----------------------------------------------------------------------------
\* The rest of a call once it has begun.
Continue(t) ==
    \/ HelpGlobal(t) \/ HelpReplica(t) \/ HelpRecheck(t)
    \/ HelpCas(t) \/ HelpReload(t) \/ HelpClear(t)
    \/ CasSwap(t) \/ LoadClear(t)

Next ==
    \E t \in Threads :
        \/ LoadUnlocked(t) \/ LoadAndHelp(t) \/ LoadLast(t)
        \/ \E old \in 0 .. MaxVersion - 1 : CasHelpFirst(t, old) \/ CasDirect(t, old)
        \/ Continue(t)

Spec == Init /\ [][Next]_vars

\* A thread inside a call keeps running; nobody is forced to make a call.
FairSpec == Spec /\ \A t \in Threads : WF_vars(Continue(t))

-----------------------------------------------------------------------------
TypeOK ==
    /\ global_ptr \in Pointer
    /\ replica_ptrs \in [Threads -> Pointer]
    /\ pc \in [Threads -> PCs]
    /\ old_val \in [Threads -> Nat]
    /\ expected \in [Threads -> Nat]
    /\ i \in [Threads -> 0 .. replica_num]
    /\ local_r \in [Threads -> Pointer]
    /\ caller \in [Threads -> Callers]
    /\ load_r \in [Threads -> Pointer]
    /\ loaded \in [Threads -> Nat]
    /\ completed \in Nat
    /\ begun \in [Threads -> Nat]

\* While the global pointer is unlocked every replica holds its value: the
\* lock bit is cleared only after all replicas were updated
\* (help_update.h:127), whichever helper clears it.
UnlockedMeansConverged ==
    ~global_ptr.lock =>
        \A r \in Threads : replica_ptrs[r].ver = global_ptr.ver

\* Replicas are at most one update behind the global pointer, and the ones
\* with smaller indices are never behind the ones with larger indices:
\* load_ptr helps only the replicas after its own (help_update.h:172).
PrefixOrder ==
    \A r \in Threads :
        /\ replica_ptrs[r].ver \in {global_ptr.ver - 1, global_ptr.ver}
        /\ \A s \in Threads : r < s => replica_ptrs[s].ver <= replica_ptrs[r].ver

\* A load_ptr returns the newest version whose cas_ptr had returned true
\* before the load began, or its immediate predecessor, or something newer.
BoundedStaleness ==
    \A t \in Threads : pc[t] = "idle" => loaded[t] >= begun[t] - 1

\* No late helper or writer ever puts an older pointer back into the global
\* pointer or into a replica, and no thread's loads go back in time.
NeverBackwards ==
    [][/\ global_ptr'.ver >= global_ptr.ver
       /\ \A r \in Threads : /\ replica_ptrs'[r].ver >= replica_ptrs[r].ver
                             /\ loaded'[r] >= loaded[r]]_vars

\* Every call returns, whatever the other threads do: help_update visits each
\* replica at most once and waits for nobody.
CallsReturn == \A t \in Threads : pc[t] # "idle" ~> pc[t] = "idle"

-----------------------------------------------------------------------------
(* What a test says, and the code does not do.                             *)

\* test_linearizability.cc:149: a load that begins after an update completed
\* returns that update's value or a later one.
LoadSeesCompletedUpdates ==
    \A t \in Threads : pc[t] = "idle" => loaded[t] >= begun[t]
=============================================================================
