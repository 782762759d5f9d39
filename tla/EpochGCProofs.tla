--------------------------- MODULE EpochGCProofs ----------------------------
(***************************************************************************)
(* Proofs about EpochGC for any number of threads, objects and epochs.     *)
(***************************************************************************)
EXTENDS EpochGC, TLAPS

\* force_cleanup's tid stays below the number of threads, and no thread is in
\* a call once the collector is being destroyed.
MainInv ==
    /\ pc[Main] \in {"user", "join"} => cleaning = 0
    /\ pc[Main] = "scan" => cleaning < registered_threads
    /\ pc[Main] # "user" => \A t \in Threads : pc[t] \in {"new", "idle"}

\* No thread's epoch is ahead, and a thread that reclaims has read its own.
ThreadInv(t) ==
    /\ loaded[t] <= global_epoch
    /\ pc[t] # "new" => t < registered_threads
    /\ pc[t] \in {"op", "end", "scan"} => local_epoch[t] <= global_epoch
    /\ pc[t] = "scan" /\ t < index[t] => min_epoch[t] <= global_epoch

\* What is in a retired list is unlinked, and was retired in an epoch that has
\* begun.
NodeInv(t) ==
    \A r \in retired_nodes[t] : state[r.addr] # "live" /\ r.retire_epoch <= global_epoch

\* What an operation may use was retired after the operation began.
HeldInv(t) ==
    /\ held[t] # {} => pc[t] = "op"
    /\ began[t] <= global_epoch
    /\ \A u \in Threads : \A r \in retired_nodes[u] :
          r.addr \in held[t] => began[t] <= r.retire_epoch

IInv ==
    /\ TypeOK
    /\ MainInv
    /\ \A t \in Threads : ThreadInv(t) /\ NodeInv(t) /\ HeldInv(t)
    /\ ShortOperationsSafe

\* Thread ids, the id of Main and the epochs are numbers.
LEMMA Numbers ==
    /\ \A t \in Threads : t \in Actors /\ t # Main /\ t \in Nat /\ t + 1 \in 0 .. N
    /\ Main \in Actors
    /\ \A k \in 0 .. N : k \in Nat /\ (\A m \in 0 .. N : k < m => k \in Threads /\ k + 1 \in 0 .. N)
    /\ \A e \in Epochs : e \in Nat /\ e \in 0 .. INT64_MAX /\ e <= MaxEpoch
    /\ \A e \in 0 .. INT64_MAX : e \in Nat
    /\ 0 \in Epochs /\ 0 \in 0 .. N /\ INT64_MAX \in 0 .. INT64_MAX
BY NAssumption, EpochAssumption DEF Threads, Main, Actors, Epochs, INT64_MAX

\* Before any call no thread is registered and nothing is retired.
LEMMA InitIInv == Init => IInv
<1> SUFFICES ASSUME Init PROVE IInv
  OBVIOUS
<1> USE Numbers DEF Init
<1>1. TypeOK
  BY Zenon DEF TypeOK
<1>2. MainInv
  BY Zenon DEF MainInv
<1>3. ASSUME NEW t \in Threads PROVE ThreadInv(t) /\ NodeInv(t) /\ HeldInv(t)
  BY DEF ThreadInv, NodeInv, HeldInv
<1>4. ShortOperationsSafe
  BY Zenon DEF ShortOperationsSafe
<1> QED
  BY <1>1, <1>2, <1>3, <1>4, Zenon DEF IInv

\* The steps of thread t.
Step(t) ==
    \/ Register(t) \/ BeginLoad(t) \/ Continue(t) \/ \E o \in Objects : Retire(t, o)

\* A sweep keeps the types of the lists and of the objects' states.
LEMMA SweepTypes ==
    ASSUME TypeOK, NEW a \in Actors, NEW t \in Threads, Sweep(a, t)
    PROVE /\ retired_nodes' \in [Threads -> SUBSET [addr : Objects, retire_epoch : Epochs]]
          /\ state' \in [Objects -> {"live", "retired", "freed"}]
          /\ \A u \in Threads : retired_nodes'[u] \subseteq retired_nodes[u]
          /\ \A o \in Objects : state[o] # "live" => state'[o] # "live"
<1> DEFINE R == Reclaimable(a, t)
<1>1. retired_nodes' = [retired_nodes EXCEPT ![t] = retired_nodes[t] \ R]
  BY DEF Sweep
<1>2. state' = [o \in Objects |-> IF \E r \in R : r.addr = o THEN "freed" ELSE state[o]]
  BY DEF Sweep
<1> HIDE DEF R
<1> QED
  BY <1>1, <1>2, Zenon DEF TypeOK

\* A step of a thread keeps the types.
LEMMA ThreadType ==
    ASSUME TypeOK, MainInv, NEW t \in Threads, Step(t)
    PROVE TypeOK'
<1>0. t \in Actors /\ global_epoch \in Epochs
  BY Numbers, Zenon DEF TypeOK
<1> USE DEF Goto
<1>1. CASE Register(t)
  BY <1>0, <1>1, Numbers, Zenon DEF Register, TypeOK, gcvars, locals, client
<1>2. CASE RegisterStore(t)
  BY <1>0, <1>2, Numbers, Zenon DEF RegisterStore, TypeOK, gcvars, locals, client
<1>3. CASE BeginLoad(t)
  BY <1>0, <1>3, Zenon DEF BeginLoad, TypeOK, gcvars, client
<1>4. CASE BeginStore(t)
  <2>1. loaded[t] \in 0 .. INT64_MAX
    BY <1>0, Numbers, Zenon DEF TypeOK
  <2> QED
    BY <1>0, <1>4, <2>1, Numbers, Zenon DEF BeginStore, TypeOK, gcvars
<1>5. ASSUME NEW o \in Objects, Retire(t, o) PROVE TypeOK'
  <2>1. [addr |-> o, retire_epoch |-> global_epoch] \in [addr : Objects, retire_epoch : Epochs]
    BY <1>0
  <2> QED
    BY <1>0, <1>5, <2>1, Zenon DEF Retire, TypeOK, gcvars, locals
<1>6. CASE EndLoad(t)
  BY <1>0, <1>6, Numbers, Zenon DEF EndLoad, TypeOK, gcvars
<1>7. CASE EndStore(t)
  <2>1. loaded[t] \in 0 .. INT64_MAX
    BY <1>0, Numbers, Zenon DEF TypeOK
  <2> QED
    BY <1>0, <1>7, <2>1, Numbers, Zenon DEF EndStore, CallReclaim, TypeOK, gcvars, client
<1>8. CASE Scan(t)
  <2>1. index[t] \in Threads /\ index[t] + 1 \in 0 .. N
    BY <1>0, <1>8, Numbers, Zenon DEF Scan, TypeOK
  <2>2. index' \in [Actors -> 0 .. N] /\ min_epoch' \in [Actors -> 0 .. INT64_MAX]
    BY <1>0, <1>8, <2>1, Zenon DEF Scan, TypeOK
  <2> QED
    BY <1>8, <2>2, Zenon DEF Scan, TypeOK, gcvars, client
<1>9. CASE EndReclaim(t)
  <2>1. Sweep(t, t)
    BY <1>9 DEF EndReclaim
  <2> QED
    BY <1>0, <1>9, <2>1, SweepTypes, Numbers, Zenon DEF EndReclaim, CallReclaim, TypeOK, gcvars
<1> QED
  BY <1>1, <1>2, <1>3, <1>4, <1>5, <1>6, <1>7, <1>8, <1>9 DEF Step, Continue

\* A step of gc_loop or of the destructor keeps the types.
LEMMA MainType ==
    ASSUME TypeOK, MainInv,
           GcLoop \/ Destroy \/ Join \/ Scan(Main) \/ Cleanup
    PROVE TypeOK'
<1>0. Main \in Actors /\ global_epoch \in Epochs
  BY Numbers, Zenon DEF TypeOK
<1> USE DEF Goto
<1>1. CASE GcCheck
  BY <1>1, Zenon DEF GcCheck, TypeOK, locals, client
<1>2. CASE GcTick
  <2>1. global_epoch' \in Epochs
    BY <1>2, <1>0, EpochAssumption DEF GcTick, Epochs
  <2> QED
    BY <1>2, <2>1, Zenon DEF GcTick, TypeOK, locals, client
<1>3. CASE GcStore
  <2>1. gc_index < registered_threads => gc_index \in Threads /\ gc_index + 1 \in 0 .. N
    BY Numbers, Zenon DEF TypeOK
  <2>2. global_epoch \in 0 .. INT64_MAX
    BY <1>0, Numbers
  <2>3. /\ local_epoch' \in [Threads -> 0 .. INT64_MAX]
        /\ gc_index' \in 0 .. N
        /\ gc' \in {"check", "sleep", "store", "done"}
    BY <1>3, <2>1, <2>2, Numbers, Zenon DEF GcStore, TypeOK
  <2> QED
    BY <1>3, <2>3, Zenon DEF GcStore, TypeOK, locals, client
<1>4. CASE Destroy
  BY <1>0, <1>4, Zenon DEF Destroy, TypeOK, gcvars, locals, client
<1>5. CASE Join
  BY <1>0, <1>5, Numbers, Zenon DEF Join, CallReclaim, TypeOK, gcvars, client
<1>6. CASE Scan(Main)
  <2>1. index[Main] \in Threads /\ index[Main] + 1 \in 0 .. N
    BY <1>0, <1>6, Numbers, Zenon DEF Scan, TypeOK
  <2>2. index' \in [Actors -> 0 .. N] /\ min_epoch' \in [Actors -> 0 .. INT64_MAX]
    BY <1>0, <1>6, <2>1, Zenon DEF Scan, TypeOK
  <2> QED
    BY <1>6, <2>2, Zenon DEF Scan, TypeOK, gcvars, client
<1>7. CASE Cleanup
  <2>1. cleaning \in Threads /\ cleaning + 1 \in 0 .. N
    BY <1>7, Numbers, Zenon DEF Cleanup, MainInv, TypeOK
  <2>2. Sweep(Main, cleaning)
    BY <1>7, Zenon DEF Cleanup
  <2> QED
    BY <1>0, <1>7, <2>1, <2>2, SweepTypes, Numbers, Zenon DEF Cleanup, CallReclaim, TypeOK, gcvars
<1> QED
  BY <1>1, <1>2, <1>3, <1>4, <1>5, <1>6, <1>7 DEF GcLoop

\* What a step of thread t leaves alone.
LEMMA Bystander ==
    ASSUME TypeOK, NEW t \in Threads, Step(t)
    PROVE /\ global_epoch' = global_epoch /\ cleaning' = cleaning
          /\ pc'[Main] = pc[Main]
          /\ registered_threads' = registered_threads \/ registered_threads' = registered_threads + 1
          /\ \A u \in Threads : u # t =>
                /\ pc'[u] = pc[u] /\ loaded'[u] = loaded[u] /\ index'[u] = index[u]
                /\ min_epoch'[u] = min_epoch[u] /\ local_epoch'[u] = local_epoch[u]
                /\ retired_nodes'[u] = retired_nodes[u]
                /\ held'[u] = held[u] /\ began'[u] = began[u]
<1>0. t \in Actors /\ t # Main /\ \A u \in Threads : u \in Actors
  BY Numbers
<1> USE <1>0 DEF TypeOK, Goto, gcvars, locals, client, CallReclaim
<1>1. CASE Register(t)
  BY <1>1 DEF Register
<1>2. CASE RegisterStore(t)
  BY <1>2 DEF RegisterStore
<1>3. CASE BeginLoad(t)
  BY <1>3 DEF BeginLoad
<1>4. CASE BeginStore(t)
  BY <1>4 DEF BeginStore
<1>5. ASSUME NEW o \in Objects, Retire(t, o)
      PROVE /\ retired_nodes' = [retired_nodes EXCEPT ![t] =
                  @ \cup {[addr |-> o, retire_epoch |-> global_epoch]}]
            /\ UNCHANGED <<gcvars, registered_threads, local_epoch, pc, locals, cleaning,
                           held, began>>
  BY <1>5, Zenon DEF Retire
<1>6. CASE EndLoad(t)
  BY <1>6 DEF EndLoad
<1>7. CASE EndStore(t)
  BY <1>7 DEF EndStore
<1>8. CASE Scan(t)
  BY <1>8, Zenon DEF Scan
<1>9. CASE EndReclaim(t)
  BY <1>9 DEF EndReclaim, Sweep
<1>10. CASE \E o \in Objects : Retire(t, o)
  BY <1>5, <1>10, Zenon
<1> QED
  BY <1>1, <1>2, <1>3, <1>4, <1>6, <1>7, <1>8, <1>9, <1>10, Zenon DEF Step, Continue

\* A step of a thread keeps what force_cleanup relies on.
LEMMA ThreadMain ==
    ASSUME TypeOK, MainInv, NEW t \in Threads, Step(t)
    PROVE MainInv'
<1>1. /\ cleaning' = cleaning /\ pc'[Main] = pc[Main]
      /\ registered_threads' = registered_threads \/ registered_threads' = registered_threads + 1
      /\ \A u \in Threads : u # t => pc'[u] = pc[u]
  BY Bystander, Zenon
<1>2. cleaning \in Nat /\ registered_threads \in Nat
  BY Numbers, Zenon DEF TypeOK
<1>3. cleaning < registered_threads => cleaning < registered_threads'
  BY <1>1, <1>2
<1>4. pc[Main] = "user"
  <2>1. CASE Register(t) \/ BeginLoad(t)
    BY <2>1 DEF Register, BeginLoad
  <2>2. CASE Continue(t) \/ \E o \in Objects : Retire(t, o)
    <3>1. pc[t] \notin {"new", "idle"}
      BY <2>2, Zenon DEF Continue, Retire, RegisterStore, BeginStore, EndLoad, EndStore, Scan,
         EndReclaim, Goto
    <3> QED
      BY <3>1 DEF MainInv
  <2> QED
    BY <2>1, <2>2 DEF Step
<1> QED
  BY <1>1, <1>3, <1>4 DEF MainInv

\* A step of gc_loop or of the destructor keeps it too, and changes nothing of
\* a thread but its epoch and, in a sweep, its retired nodes.
LEMMA MainStep ==
    ASSUME TypeOK, MainInv, GcLoop \/ Destroy \/ Join \/ Scan(Main) \/ Cleanup
    PROVE /\ MainInv'
          /\ registered_threads' = registered_threads
          /\ global_epoch <= global_epoch'
          /\ held' = held /\ began' = began
          /\ \A u \in Threads :
                /\ pc'[u] = pc[u] /\ loaded'[u] = loaded[u] /\ index'[u] = index[u]
                /\ min_epoch'[u] = min_epoch[u]
                /\ local_epoch'[u] \in {local_epoch[u], global_epoch'}
          /\ ~Cleanup => UNCHANGED <<retired_nodes, state>>
<1>0. Main \in Actors /\ \A u \in Threads : u \in Actors /\ u # Main
  BY Numbers
<1>1. /\ global_epoch \in Nat /\ global_epoch <= MaxEpoch /\ cleaning \in Nat
      /\ registered_threads \in Nat /\ MaxEpoch \in Nat
  BY Numbers, EpochAssumption, Zenon DEF TypeOK
<1> USE <1>0 DEF Goto, gcvars, locals, client, CallReclaim
<1>2. CASE GcCheck
  BY <1>1, <1>2 DEF GcCheck, MainInv
<1>3. CASE GcTick
  <2>1. global_epoch <= global_epoch'
    BY <1>1, <1>3 DEF GcTick
  <2> QED
    BY <1>3, <2>1, Zenon DEF GcTick, MainInv
<1>4. CASE GcStore
  <2>1. /\ global_epoch' = global_epoch
        /\ UNCHANGED <<registered_threads, retired_nodes, pc, locals, cleaning, client>>
    BY <1>4 DEF GcStore
  <2>2. \A u \in Threads : local_epoch'[u] \in {local_epoch[u], global_epoch'}
    BY <1>4, <2>1, Zenon DEF GcStore, TypeOK
  <2> QED
    BY <1>1, <2>1, <2>2 DEF MainInv
<1>5. CASE Destroy
  <2>1. /\ pc'[Main] = "join" /\ pc[Main] = "user" /\ \A u \in Threads : pc'[u] = pc[u]
        /\ \A t \in Threads : pc[t] \in {"new", "idle"}
        /\ UNCHANGED <<global_epoch, registered_threads, local_epoch, retired_nodes, locals,
                       cleaning, client>>
    BY <1>5, Zenon DEF Destroy, TypeOK
  <2> QED
    BY <1>1, <2>1 DEF MainInv
<1>6. CASE Join
  <2>1. /\ pc[Main] = "join" /\ \A u \in Threads : pc'[u] = pc[u]
        /\ pc'[Main] = IF registered_threads > 0 THEN "scan" ELSE "destroyed"
        /\ \A u \in Threads : index'[u] = index[u] /\ min_epoch'[u] = min_epoch[u]
        /\ UNCHANGED <<global_epoch, registered_threads, local_epoch, retired_nodes, loaded,
                       cleaning, client>>
    BY <1>6, Zenon DEF Join, TypeOK
  <2>2. cleaning = 0 /\ (registered_threads > 0 => 0 < registered_threads)
    BY <1>1, <2>1, Zenon DEF MainInv
  <2> QED
    BY <1>1, <2>1, <2>2 DEF MainInv
<1>7. CASE Scan(Main)
  <2>1. /\ pc[Main] = "scan"
        /\ \A u \in Threads : index'[u] = index[u] /\ min_epoch'[u] = min_epoch[u]
        /\ UNCHANGED <<global_epoch, registered_threads, local_epoch, retired_nodes, pc, loaded,
                       cleaning, client>>
    BY <1>7, Zenon DEF Scan, TypeOK
  <2> QED
    BY <1>1, <2>1 DEF MainInv
<1>8. CASE Cleanup
  <2>1. /\ pc[Main] = "scan" /\ \A u \in Threads : pc'[u] = pc[u]
        /\ pc'[Main] = IF cleaning + 1 < registered_threads THEN "scan" ELSE "destroyed"
        /\ cleaning' = cleaning + 1
        /\ \A u \in Threads : index'[u] = index[u] /\ min_epoch'[u] = min_epoch[u]
        /\ UNCHANGED <<global_epoch, registered_threads, local_epoch, loaded, held, began>>
    BY <1>8, Zenon DEF Cleanup, TypeOK
  <2> QED
    BY <1>1, <1>8, <2>1 DEF MainInv
<1> QED
  BY <1>2, <1>3, <1>4, <1>5, <1>6, <1>7, <1>8, Zenon DEF GcLoop

\* A thread's own step keeps its epoch behind the global one.
LEMMA ThreadOwn ==
    ASSUME TypeOK, NEW t \in Threads, ThreadInv(t), Step(t)
    PROVE ThreadInv(t)'
<1>0. /\ t \in Actors /\ t \in Nat /\ global_epoch' = global_epoch
      /\ global_epoch \in Nat /\ 0 <= global_epoch /\ registered_threads \in Nat
      /\ loaded[t] <= global_epoch
  BY Numbers, Bystander DEF TypeOK, ThreadInv
<1>1. pc[t] # "new" => t < registered_threads'
  <2>1. registered_threads' = registered_threads \/ registered_threads' = registered_threads + 1
    BY Bystander, Zenon
  <2>2. pc[t] # "new" => t < registered_threads
    BY DEF ThreadInv
  <2> QED
    BY <1>0, <2>1, <2>2
<1> USE DEF Goto, CallReclaim
<1>2. CASE Register(t)
  <2>1. pc'[t] = "register" /\ loaded' = loaded /\ registered_threads' = t + 1
    BY <1>0, <1>2, Zenon DEF Register, TypeOK, locals
  <2>2. t < registered_threads'
    BY <1>0, <2>1
  <2> QED
    BY <1>0, <2>1, <2>2, Zenon DEF ThreadInv
<1>3. CASE RegisterStore(t) \/ BeginLoad(t)
  <2>1. /\ pc[t] # "new" /\ pc'[t] \in {"idle", "begin"}
        /\ loaded'[t] \in {loaded[t], global_epoch}
    BY <1>0, <1>3, Zenon DEF RegisterStore, BeginLoad, TypeOK, locals
  <2>2. loaded'[t] <= global_epoch
    BY <1>0, <2>1
  <2> QED
    BY <1>0, <1>1, <2>1, <2>2, Zenon DEF ThreadInv
<1>4. CASE BeginStore(t)
  <2>1. /\ pc[t] # "new" /\ pc'[t] = "op" /\ loaded'[t] = 0 /\ local_epoch'[t] = loaded[t]
    BY <1>0, <1>4, Zenon DEF BeginStore, TypeOK
  <2> QED
    BY <1>0, <1>1, <2>1, Zenon DEF ThreadInv
<1>5. CASE EndLoad(t)
  <2>1. /\ pc[t] = "op" /\ pc'[t] = "end" /\ loaded'[t] = global_epoch
        /\ local_epoch' = local_epoch
    BY <1>0, <1>5, Zenon DEF EndLoad, TypeOK
  <2> QED
    BY <1>0, <1>1, <2>1 DEF ThreadInv
<1>6. CASE EndStore(t)
  <2>1. /\ pc[t] = "end" /\ pc'[t] = "scan" /\ loaded'[t] = 0 /\ local_epoch'[t] = loaded[t]
        /\ index'[t] = 0
    BY <1>0, <1>6, Zenon DEF EndStore, TypeOK
  <2>2. ~(t < 0)
    BY <1>0
  <2> QED
    BY <1>0, <1>1, <2>1, <2>2, Zenon DEF ThreadInv
<1>7. CASE Scan(t)
  <2>1. /\ pc[t] = "scan" /\ pc'[t] = pc[t] /\ loaded' = loaded /\ local_epoch' = local_epoch
        /\ index'[t] = index[t] + 1 /\ index[t] \in Nat
        /\ min_epoch'[t] = IF local_epoch[index[t]] < min_epoch[t] THEN local_epoch[index[t]]
                                                                   ELSE min_epoch[t]
        /\ index[t] \in Threads
    BY <1>0, <1>7, Numbers, Zenon DEF Scan, TypeOK
  <2>2. /\ local_epoch[t] \in Nat /\ min_epoch[t] \in Nat /\ local_epoch[index[t]] \in Nat
        /\ local_epoch[t] <= global_epoch
    BY <1>0, <2>1, Numbers, Zenon DEF TypeOK, ThreadInv
  <2>3. min_epoch'[t] <= min_epoch[t] /\ min_epoch'[t] <= local_epoch[index[t]]
        /\ min_epoch'[t] \in Nat
    BY <2>1, <2>2
  <2>4. t < index'[t] => t < index[t] \/ t = index[t]
    BY <1>0, <2>1
  <2>5. t < index[t] => min_epoch[t] <= global_epoch
    BY <2>1, Zenon DEF ThreadInv
  <2>6. t < index'[t] => min_epoch'[t] <= global_epoch
    BY <1>0, <2>2, <2>3, <2>4, <2>5
  <2> QED
    BY <1>0, <1>1, <2>1, <2>2, <2>6, Zenon DEF ThreadInv
<1>8. CASE EndReclaim(t)
  <2>1. pc[t] = "scan" /\ pc'[t] = "idle" /\ loaded' = loaded
    BY <1>0, <1>8, Zenon DEF EndReclaim, TypeOK
  <2> QED
    BY <1>0, <1>1, <2>1, Zenon DEF ThreadInv
<1>9. ASSUME NEW o \in Objects, Retire(t, o) PROVE ThreadInv(t)'
  <2>1. /\ pc[t] = "op" /\ pc' = pc /\ loaded' = loaded /\ local_epoch' = local_epoch
    BY <1>9, Zenon DEF Retire, locals
  <2> QED
    BY <1>0, <1>1, <2>1, Zenon DEF ThreadInv
<1> QED
  BY <1>2, <1>3, <1>4, <1>5, <1>6, <1>7, <1>8, <1>9 DEF Step, Continue

\* Which of the client's state a step of thread t changes.
LEMMA ClientStep ==
    ASSUME TypeOK, NEW t \in Threads, Step(t)
    PROVE \/ BeginStore(t) \/ EndLoad(t) \/ EndReclaim(t) \/ (\E o \in Objects : Retire(t, o))
          \/ UNCHANGED <<state, held, began, retired_nodes>> /\ pc[t] # "op"
BY Zenon DEF Step, Continue, Register, RegisterStore, BeginLoad, EndStore, Scan, client, Goto

\* A step keeps what is in the retired lists unlinked.
LEMMA NodeStep ==
    ASSUME TypeOK, NEW t \in Threads, Step(t), NEW u \in Threads, NodeInv(u)
    PROVE NodeInv(u)'
<1> SUFFICES ASSUME NEW r \in retired_nodes'[u]
             PROVE state'[r.addr] # "live" /\ r.retire_epoch <= global_epoch'
  BY DEF NodeInv
<1>1. global_epoch' = global_epoch /\ global_epoch \in Nat
  BY Bystander, Numbers, Zenon DEF TypeOK
<1>2. r \in retired_nodes[u] =>
         r.addr \in Objects /\ state[r.addr] # "live" /\ r.retire_epoch <= global_epoch
  BY DEF NodeInv, TypeOK
<1>3. CASE UNCHANGED <<state, retired_nodes>>
  BY <1>1, <1>2, <1>3
<1>4. CASE BeginStore(t) \/ EndLoad(t)
  BY <1>3, <1>4, Zenon DEF BeginStore, EndLoad
<1>5. CASE EndReclaim(t)
  <2>1. t \in Actors /\ Sweep(t, t)
    BY <1>5, Numbers, Zenon DEF EndReclaim
  <2>2. r \in retired_nodes[u] /\ (state[r.addr] # "live" => state'[r.addr] # "live")
    BY <1>2, <2>1, SweepTypes, Zenon
  <2> QED
    BY <1>1, <1>2, <2>2
<1>6. ASSUME NEW o \in Objects, Retire(t, o)
      PROVE state'[r.addr] # "live" /\ r.retire_epoch <= global_epoch
  <2>1. state' = [state EXCEPT ![o] = "retired"] /\ state \in [Objects -> {"live", "retired", "freed"}]
    BY <1>6, Zenon DEF Retire, TypeOK
  <2>2. r \in retired_nodes[u] \/ r = [addr |-> o, retire_epoch |-> global_epoch]
    BY <1>6, Zenon DEF Retire, TypeOK
  <2>3. CASE r \in retired_nodes[u]
    BY <1>2, <2>1, <2>3
  <2>4. CASE r = [addr |-> o, retire_epoch |-> global_epoch]
    BY <1>1, <2>1, <2>4
  <2> QED
    BY <2>2, <2>3, <2>4, Zenon
<1>7. CASE \E o \in Objects : Retire(t, o)
  BY <1>1, <1>6, <1>7
<1> QED
  BY <1>3, <1>4, <1>5, <1>7, ClientStep, Zenon

\* A step keeps what an operation may use from being in a list with an epoch
\* older than the operation.
LEMMA HeldStep ==
    ASSUME TypeOK, NEW t \in Threads, Step(t), NEW u \in Threads, HeldInv(u),
           \A v \in Threads : NodeInv(v)
    PROVE HeldInv(u)'
<1>1. /\ global_epoch' = global_epoch /\ global_epoch \in Nat /\ t \in Actors
      /\ u # t => pc'[u] = pc[u] /\ held'[u] = held[u] /\ began'[u] = began[u]
  BY Bystander, Numbers, Zenon DEF TypeOK
<1>2. CASE UNCHANGED <<held, began, retired_nodes>> /\ pc[t] # "op"
  <2>1. held[u] # {} => u # t
    BY <1>2 DEF HeldInv
  <2> QED
    BY <1>1, <1>2, <2>1, Zenon DEF HeldInv
<1>3. CASE BeginStore(t)
  <2>1. retired_nodes' = retired_nodes
    BY <1>3, Zenon DEF BeginStore
  <2>2. CASE u # t
    BY <1>1, <2>1, <2>2, Zenon DEF HeldInv
  <2>3. CASE u = t
    <3>1. /\ pc'[t] = "op" /\ began'[t] = global_epoch
          /\ held'[t] = {o \in Objects : state[o] = "live"}
      BY <1>1, <1>3, Zenon DEF BeginStore, Goto, TypeOK
    <3>2. \A v \in Threads : \A r \in retired_nodes[v] : r.addr \notin held'[t]
      BY <3>1 DEF NodeInv
    <3>3. began'[t] <= global_epoch'
      BY <1>1, <3>1
    <3> QED
      BY <2>1, <2>3, <3>1, <3>2, <3>3, Zenon DEF HeldInv
  <2> QED
    BY <2>2, <2>3
<1>4. CASE EndLoad(t)
  <2>1. retired_nodes' = retired_nodes
    BY <1>4 DEF EndLoad
  <2>2. CASE u # t
    BY <1>1, <2>1, <2>2, Zenon DEF HeldInv
  <2>3. CASE u = t
    <3>1. held'[t] = {} /\ began'[t] = 0
      BY <1>4, Zenon DEF EndLoad, TypeOK
    <3>2. began'[t] <= global_epoch'
      BY <1>1, <3>1
    <3> QED
      BY <2>3, <3>1, <3>2, Zenon DEF HeldInv
  <2> QED
    BY <2>2, <2>3
<1>5. CASE EndReclaim(t)
  <2>1. Sweep(t, t) /\ pc[t] # "op" /\ UNCHANGED <<held, began>>
    BY <1>5 DEF EndReclaim, Goto
  <2>2. \A v \in Threads : retired_nodes'[v] \subseteq retired_nodes[v]
    BY <1>1, <2>1, SweepTypes, Zenon
  <2>3. held[u] # {} => u # t
    BY <2>1 DEF HeldInv
  <2> QED
    BY <1>1, <2>1, <2>2, <2>3, Zenon DEF HeldInv
<1>6. ASSUME NEW o \in Objects, Retire(t, o) PROVE HeldInv(u)'
  <2>1. UNCHANGED <<pc, held, began>>
    BY <1>6, Zenon DEF Retire
  <2>2. \A v \in Threads : \A r \in retired_nodes'[v] :
            r \in retired_nodes[v] \/ r = [addr |-> o, retire_epoch |-> global_epoch]
    BY <1>6, Zenon DEF Retire, TypeOK
  <2>3. \A v \in Threads : \A r \in retired_nodes'[v] :
            r \in retired_nodes[v] \/ r.retire_epoch = global_epoch
    BY <2>2
  <2>4. began[u] <= global_epoch
    BY DEF HeldInv
  <2> QED
    BY <1>1, <2>1, <2>3, <2>4, Zenon DEF HeldInv
<1> QED
  BY <1>2, <1>3, <1>4, <1>5, <1>6, ClientStep, Zenon

\* A sweep takes an object from under an operation only if two epochs have
\* begun since the operation did.
LEMMA SafeStep ==
    ASSUME IInv, NEW t \in Threads, Step(t)
    PROVE ShortOperationsSafe'
<1> SUFFICES ASSUME NEW u \in Threads, NEW o \in held'[u], state'[o] = "freed"
             PROVE global_epoch' >= began'[u] + 2
  BY DEF ShortOperationsSafe
<1>1. /\ TypeOK /\ global_epoch' = global_epoch /\ t \in Actors
      /\ u # t => held'[u] = held[u] /\ began'[u] = began[u]
  BY Bystander, Numbers, Zenon DEF IInv
<1>2. ASSUME held'[u] = held[u], began'[u] = began[u], state[o] = "freed"
      PROVE global_epoch' >= began'[u] + 2
  BY <1>1, <1>2, Zenon DEF IInv, ShortOperationsSafe
<1>3. CASE UNCHANGED <<state, held, began>>
  BY <1>2, <1>3
<1>4. CASE BeginStore(t)
  <2>1. state' = state /\ held'[t] = {x \in Objects : state[x] = "live"}
    BY <1>1, <1>4, Zenon DEF BeginStore, TypeOK
  <2>2. u # t
    BY <2>1
  <2> QED
    BY <1>1, <1>2, <2>1, <2>2
<1>5. CASE EndLoad(t)
  <2>1. state' = state /\ held'[t] = {}
    BY <1>1, <1>5, Zenon DEF EndLoad, TypeOK
  <2>2. u # t
    BY <2>1
  <2> QED
    BY <1>1, <1>2, <2>1, <2>2
<1>6. ASSUME NEW x \in Objects, Retire(t, x) PROVE global_epoch' >= began'[u] + 2
  <2>1. UNCHANGED <<held, began>> /\ (state'[o] = state[o] \/ state'[o] = "retired")
    BY <1>1, <1>6, Zenon DEF Retire, TypeOK
  <2> QED
    BY <1>2, <2>1
<1>7. CASE EndReclaim(t)
  <2>1. /\ Sweep(t, t) /\ pc[t] = "scan" /\ UNCHANGED <<held, began>>
        /\ index[t] >= registered_threads
    BY <1>7, Zenon DEF EndReclaim, Goto, Sweep
  <2>2. CASE state[o] = "freed"
    BY <1>2, <2>1, <2>2
  <2>3. CASE state[o] # "freed"
    <3>1. o \in Objects
      BY <1>1, <2>1, Zenon DEF TypeOK
    <3>2. PICK r \in Reclaimable(t, t) : r.addr = o
      BY <2>1, <2>3, <3>1, Zenon DEF Sweep
    <3>3. /\ r \in retired_nodes[t] /\ r.retire_epoch < SafeEpoch(t)
          /\ r.retire_epoch \in Nat
      BY <1>1, <3>2, Numbers DEF Reclaimable, TypeOK
    <3>4. began[u] <= r.retire_epoch
      BY <2>1, <3>2, <3>3, Zenon DEF IInv, HeldInv
    <3>5. /\ t \in Nat /\ registered_threads \in Nat /\ index[t] \in Nat /\ min_epoch[t] \in Nat
          /\ global_epoch \in Nat /\ began[u] \in Nat
      BY <1>1, Numbers, Zenon DEF TypeOK
    <3>6. t < registered_threads
      BY <2>1, Zenon DEF IInv, ThreadInv
    <3>7. t < index[t]
      BY <2>1, <3>5, <3>6
    <3>8. min_epoch[t] <= global_epoch
      BY <2>1, <3>7, Zenon DEF IInv, ThreadInv
    <3>9. r.retire_epoch + 2 <= min_epoch[t]
      BY <3>3, <3>5 DEF SafeEpoch
    <3> QED
      BY <1>1, <2>1, <3>3, <3>4, <3>5, <3>8, <3>9
  <2> QED
    BY <2>2, <2>3
<1> QED
  BY <1>3, <1>4, <1>5, <1>6, <1>7, <1>1, ClientStep, Zenon

\* The inductive invariant holds in every state of every execution.
THEOREM Invariance == Spec => []IInv
<1>1. IInv /\ [Next]_vars => IInv'
  <2> SUFFICES ASSUME IInv, [Next]_vars PROVE IInv'
    OBVIOUS
  <2>0. TypeOK /\ MainInv
    BY DEF IInv
  <2>1. ASSUME NEW t \in Threads, Step(t) PROVE IInv'
    <3>1. TypeOK' /\ MainInv'
      BY <2>0, <2>1, ThreadType, ThreadMain
    <3>2. ASSUME NEW u \in Threads PROVE ThreadInv(u)'
      <4>1. ThreadInv(u)
        BY DEF IInv
      <4>2. CASE u = t
        BY <2>0, <2>1, <4>1, <4>2, ThreadOwn
      <4>3. CASE u # t
        <5>1. /\ global_epoch' = global_epoch /\ pc'[u] = pc[u] /\ loaded'[u] = loaded[u]
              /\ index'[u] = index[u] /\ min_epoch'[u] = min_epoch[u]
              /\ local_epoch'[u] = local_epoch[u]
          BY <2>0, <2>1, <4>3, Bystander
        <5>2. u < registered_threads => u < registered_threads'
          <6>1. registered_threads' = registered_threads
                  \/ registered_threads' = registered_threads + 1
            BY <2>0, <2>1, Bystander, Zenon
          <6>2. u \in Nat /\ registered_threads \in Nat
            BY <2>0, Numbers, Zenon DEF TypeOK
          <6> QED
            BY <6>1, <6>2
        <5> QED
          BY <4>1, <5>1, <5>2, Zenon DEF ThreadInv
      <4> QED
        BY <4>2, <4>3
    <3>3. \A u \in Threads : NodeInv(u)' /\ HeldInv(u)'
      BY <2>0, <2>1, NodeStep, HeldStep DEF IInv
    <3>4. ShortOperationsSafe'
      BY <2>1, SafeStep
    <3> QED
      BY <3>1, <3>2, <3>3, <3>4 DEF IInv
  <2>2. ASSUME GcLoop \/ Destroy \/ Join \/ Scan(Main) \/ Cleanup PROVE IInv'
    <3>1. TypeOK' /\ MainInv'
      BY <2>0, <2>2, MainType, MainStep, Zenon
    <3>2. /\ registered_threads' = registered_threads /\ global_epoch <= global_epoch'
          /\ held' = held /\ began' = began
          /\ \A u \in Threads :
                /\ pc'[u] = pc[u] /\ loaded'[u] = loaded[u] /\ index'[u] = index[u]
                /\ min_epoch'[u] = min_epoch[u]
                /\ local_epoch'[u] \in {local_epoch[u], global_epoch'}
          /\ ~Cleanup => UNCHANGED <<retired_nodes, state>>
      BY <2>0, <2>2, MainStep, Zenon
    <3>3. global_epoch \in Nat /\ global_epoch' \in Nat
      BY <2>0, <3>1, Numbers, Zenon DEF TypeOK
    <3>4. \A e \in Nat : e <= global_epoch => e <= global_epoch'
      BY <3>2, <3>3
    <3>5. ASSUME NEW u \in Threads PROVE ThreadInv(u)'
      <4>1. ThreadInv(u) /\ u \in Actors
        BY Numbers DEF IInv
      <4>2. loaded[u] \in Nat /\ local_epoch[u] \in Nat /\ min_epoch[u] \in Nat
        BY <2>0, <4>1, Numbers, Zenon DEF TypeOK
      <4>3. local_epoch[u] <= global_epoch => local_epoch'[u] <= global_epoch'
        BY <3>2, <3>3, <3>4, <4>2
      <4> QED
        BY <3>2, <3>4, <4>1, <4>2, <4>3, Zenon DEF ThreadInv
    <3>6. /\ \A u \in Threads : retired_nodes'[u] \subseteq retired_nodes[u]
          /\ \A o \in Objects : state[o] # "live" => state'[o] # "live"
      <4>1. CASE ~Cleanup
        BY <3>2, <4>1, Zenon
      <4>2. CASE Cleanup
        <5>1. Main \in Actors /\ Sweep(Main, cleaning) /\ pc[Main] = "scan"
          BY <4>2, Numbers, Zenon DEF Cleanup, Goto
        <5>2. cleaning \in Threads
          BY <2>0, <5>1, Numbers, Zenon DEF MainInv, TypeOK
        <5> QED
          BY <2>0, <5>1, <5>2, SweepTypes, Zenon
      <4> QED
        BY <4>1, <4>2
    <3>7. ASSUME NEW u \in Threads PROVE NodeInv(u)' /\ HeldInv(u)'
      <4>1. NodeInv(u) /\ HeldInv(u) /\ began[u] \in Nat
        BY <2>0, Numbers, Zenon DEF IInv, TypeOK
      <4>2. \A r \in retired_nodes[u] : r.addr \in Objects /\ r.retire_epoch \in Nat
        BY <2>0, Numbers DEF TypeOK
      <4>3. NodeInv(u)'
        BY <3>4, <3>6, <4>1, <4>2, Zenon DEF NodeInv
      <4>4. HeldInv(u)'
        BY <3>2, <3>4, <3>6, <4>1, Zenon DEF HeldInv
      <4> QED
        BY <4>3, <4>4
    <3>8. ShortOperationsSafe'
      <4>1. CASE ~Cleanup
        <5>1. \A t \in Threads : began[t] \in Nat
          BY <2>0, Numbers, Zenon DEF TypeOK
        <5>2. ASSUME NEW t \in Threads, global_epoch >= began[t] + 2
              PROVE global_epoch' >= began[t] + 2
          BY <3>2, <3>3, <5>1, <5>2
        <5> QED
          BY <3>2, <4>1, <5>2 DEF IInv, ShortOperationsSafe
      <4>2. CASE Cleanup
        <5>1. pc[Main] = "scan"
          BY <4>2 DEF Cleanup, Goto
        <5>2. \A t \in Threads : held[t] = {}
          BY <2>0, <5>1, Zenon DEF MainInv, IInv, HeldInv
        <5> QED
          BY <3>2, <5>2, Zenon DEF ShortOperationsSafe
      <4> QED
        BY <4>1, <4>2
    <3> QED
      BY <3>1, <3>5, <3>7, <3>8 DEF IInv
  <2>3. CASE UNCHANGED vars
    <3> USE <2>3 DEF vars, gcvars, locals, client
    <3>1. TypeOK' /\ MainInv' /\ ShortOperationsSafe'
      BY Zenon DEF IInv, TypeOK, MainInv, ShortOperationsSafe
    <3>2. ASSUME NEW u \in Threads PROVE ThreadInv(u)' /\ NodeInv(u)' /\ HeldInv(u)'
      <4>1. ThreadInv(u) /\ NodeInv(u) /\ HeldInv(u)
        BY Zenon DEF IInv
      <4> QED
        BY <4>1, Zenon DEF ThreadInv, NodeInv, HeldInv
    <3> QED
      BY <3>1, <3>2, Zenon DEF IInv
  <2> QED
    BY <2>1, <2>2, <2>3 DEF Next, Step
<1> QED
  BY <1>1, InitIInv, PTL DEF Spec

\* TypeOK: the loops over thread_local_gc stay within the registered threads.
THEOREM TypeCorrect == Spec => []TypeOK
<1>1. IInv => TypeOK
  BY DEF IInv
<1> QED
  BY <1>1, Invariance, PTL

\* ShortOperationsSafe: try_reclaim frees an object under an operation only if
\* gc_loop advanced the epoch twice during the operation.
THEOREM ShortSafe == Spec => []ShortOperationsSafe
<1>1. IInv => ShortOperationsSafe
  BY DEF IInv
<1> QED
  BY <1>1, Invariance, PTL
=============================================================================
