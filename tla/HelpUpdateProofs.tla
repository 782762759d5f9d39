-------------------------- MODULE HelpUpdateProofs --------------------------
(***************************************************************************)
(* Proofs about HelpUpdate for any number of replicas and any number of    *)
(* installed versions.                                                     *)
(***************************************************************************)
EXTENDS HelpUpdate, TLAPS

\* What a thread inside help_update may rely on: the version it helps was
\* installed, the replicas it has passed have reached that version, and the
\* replica value it is about to replace is older.
HelperInv(t) ==
    /\ pc[t] \in HelpPCs =>
          /\ expected[t] <= global_ptr.ver
          /\ \A r \in Threads : r < i[t] => replica_ptrs[r].ver >= expected[t]
    /\ pc[t] \in HelpPCs \ {"h_clear"} => i[t] \in Threads
    /\ pc[t] = "h_clear" => i[t] = replica_num
    /\ pc[t] = "h_recheck" => /\ local_r[t].ver <= replica_ptrs[i[t]].ver
                              /\ local_r[t].ver # expected[t]
    /\ pc[t] = "h_cas" => local_r[t].ver < expected[t]

InLoad(t) == pc[t] = "l_clear" \/ (pc[t] \in HelpPCs /\ caller[t] = "load")

\* What load_ptr may rely on: its replica never falls behind what it read.
LoadInv(t) ==
    /\ loaded[t] <= replica_ptrs[t].ver
    /\ ~InLoad(t) => loaded[t] >= begun[t] - 1
    /\ InLoad(t) => /\ load_r[t].ver <= replica_ptrs[t].ver
                    /\ load_r[t].ver >= begun[t] - 1
                    /\ load_r[t].ver >= loaded[t]

\* The inductive invariant.
IInv ==
    /\ TypeOK
    /\ UnlockedMeansConverged
    /\ PrefixOrder
    /\ completed <= global_ptr.ver
    /\ \A t \in Threads : HelperInv(t) /\ LoadInv(t)

\* A replica is at most one version behind the global pointer.
LEMMA OneBehind ==
    ASSUME IInv, NEW r \in Threads
    PROVE /\ replica_ptrs[r].ver \in Nat /\ global_ptr.ver \in Nat
          /\ replica_ptrs[r].ver <= global_ptr.ver
          /\ replica_ptrs[r].ver >= global_ptr.ver - 1
<1>1. replica_ptrs[r].ver \in Nat /\ global_ptr.ver \in Nat
  BY DEF IInv, TypeOK, Pointer
<1>2. replica_ptrs[r].ver \in {global_ptr.ver - 1, global_ptr.ver}
  BY DEF IInv, PrefixOrder
<1> QED
  BY <1>1, <1>2

\* The initial state satisfies the inductive invariant.
LEMMA InitIInv == Init => IInv
<1> SUFFICES ASSUME Init PROVE IInv
  OBVIOUS
<1> USE ReplicaNumAssumption
<1>1. TypeOK
  BY DEF Init, TypeOK, Pointer, unlocked, PCs, Callers, Threads
<1>2. UnlockedMeansConverged /\ PrefixOrder
  BY DEF Init, UnlockedMeansConverged, PrefixOrder, unlocked, Threads
<1>3. \A t \in Threads : HelperInv(t) /\ LoadInv(t)
  BY DEF Init, HelperInv, LoadInv, InLoad, HelpPCs, unlocked
<1>4. completed <= global_ptr.ver
  BY DEF Init, unlocked
<1> QED
  BY <1>1, <1>2, <1>3, <1>4 DEF IInv

\* The three control moves of help_update keep the types.
LEMMA ControlTypes ==
    ASSUME TypeOK, NEW t \in Threads
    PROVE /\ ReturnHelp(t) => /\ pc' \in [Threads -> PCs]
                              /\ i' \in [Threads -> 0 .. replica_num]
                              /\ completed' \in Nat
          /\ i[t] \in Threads /\ NextReplica(t) =>
                              /\ pc' \in [Threads -> PCs]
                              /\ i' \in [Threads -> 0 .. replica_num]
                              /\ completed' \in Nat
          /\ \A v \in Nat, start \in Threads, from \in Callers :
                 CallHelp(t, v, start, from) =>
                              /\ pc' \in [Threads -> PCs]
                              /\ expected' \in [Threads -> Nat]
                              /\ i' \in [Threads -> 0 .. replica_num]
                              /\ caller' \in [Threads -> Callers]
<1> USE ReplicaNumAssumption DEF TypeOK
<1>1. ASSUME ReturnHelp(t)
      PROVE /\ pc' \in [Threads -> PCs]
            /\ i' \in [Threads -> 0 .. replica_num]
            /\ completed' \in Nat
  <2>1. (CASE caller[t] = "help_first" -> "c_swap"
           [] caller[t] = "publish" -> "idle"
           [] OTHER -> "l_clear") \in PCs
    BY DEF PCs
  <2> QED
    BY <1>1, <2>1, Zenon DEF ReturnHelp
<1>2. ASSUME i[t] \in Threads, NextReplica(t)
      PROVE /\ pc' \in [Threads -> PCs]
            /\ i' \in [Threads -> 0 .. replica_num]
            /\ completed' \in Nat
  <2>1. i[t] + 1 \in 0 .. replica_num
    <3> HIDE DEF TypeOK
    <3>1. i[t] \in 0 .. replica_num - 1
      BY <1>2 DEF Threads
    <3> QED
      BY <3>1
  <2>2. "h_global" \in PCs /\ "h_clear" \in PCs
    BY DEF PCs, HelpPCs
  <2> QED
    BY <1>2, <2>1, <2>2, Zenon DEF NextReplica
<1>3. ASSUME NEW v \in Nat, NEW start \in Threads, NEW from \in Callers,
             CallHelp(t, v, start, from)
      PROVE /\ pc' \in [Threads -> PCs]
            /\ expected' \in [Threads -> Nat]
            /\ i' \in [Threads -> 0 .. replica_num]
            /\ caller' \in [Threads -> Callers]
  <2>1. start \in 0 .. replica_num
    BY DEF Threads
  <2>2. "h_global" \in PCs
    BY DEF PCs, HelpPCs
  <2> QED
    BY <1>3, <2>1, <2>2, Zenon DEF CallHelp
<1> QED
  BY <1>1, <1>2, <1>3, Zenon

\* Every step of help_update, cas_ptr and load_ptr keeps the types.
LEMMA TypeStep == IInv /\ [Next]_vars => TypeOK'
<1> SUFFICES ASSUME IInv, [Next]_vars PROVE TypeOK'
  OBVIOUS
<1> USE ReplicaNumAssumption, MaxVersionAssumption DEF IInv, TypeOK
<1>0. 0 \in Threads
  BY DEF Threads
<1>1. ASSUME UNCHANGED vars PROVE TypeOK'
  BY <1>1, Zenon DEF vars
<1>2. ASSUME NEW t \in Threads,
             LoadUnlocked(t) \/ LoadAndHelp(t) \/ LoadLast(t)
      PROVE TypeOK'
  <2> USE DEF Pointer, Threads
  <2>1. CASE LoadUnlocked(t)
    BY <2>1, Zenon DEF LoadUnlocked
  <2>2. CASE LoadAndHelp(t)
    <3>1. t + 1 \in 0 .. replica_num /\ replica_ptrs[t].ver \in Nat
      BY <2>2 DEF LoadAndHelp
    <3> QED
      BY <2>2, <3>1, Zenon DEF LoadAndHelp, CallHelp, PCs, HelpPCs, Callers
  <2>3. CASE LoadLast(t)
    BY <2>3, Zenon DEF LoadLast, PCs
  <2> QED
    BY <1>2, <2>1, <2>2, <2>3, Zenon
<1>3. ASSUME NEW t \in Threads, NEW old \in 0 .. MaxVersion - 1,
             CasHelpFirst(t, old) \/ CasDirect(t, old)
      PROVE TypeOK'
  <2>1. old \in Nat /\ 0 \in 0 .. replica_num /\ global_ptr.ver \in Nat
    BY DEF Pointer
  <2>2. CASE CasHelpFirst(t, old)
    BY <2>1, <2>2, Zenon DEF CasHelpFirst, CallHelp, PCs, HelpPCs, Callers
  <2>3. CASE CasDirect(t, old)
    BY <2>1, <2>3, Zenon DEF CasDirect, PCs
  <2> QED
    BY <1>3, <2>2, <2>3, Zenon
<1>4. ASSUME NEW t \in Threads, Continue(t) PROVE TypeOK'
  <2>0. pc[t] \in HelpPCs \ {"h_clear"} => i[t] \in Threads
    BY Zenon DEF HelperInv
  <2>1. CASE HelpGlobal(t)
    BY <2>1, ControlTypes, Zenon DEF HelpGlobal, HelpFrame, PCs, HelpPCs
  <2>2. CASE HelpReplica(t)
    BY <2>0, <2>2, ControlTypes, Zenon DEF HelpReplica, HelpFrame, PCs, HelpPCs
  <2>3. CASE HelpRecheck(t)
    BY <2>3, ControlTypes, Zenon DEF HelpRecheck, HelpFrame, PCs, HelpPCs
  <2>4. CASE HelpCas(t)
    <3>1. with_lock(expected[t]) \in Pointer
      BY Zenon DEF Pointer, with_lock
    <3>2. CASE replica_ptrs[i[t]] = local_r[t]
      BY <2>0, <2>4, <3>1, <3>2, ControlTypes, ZenonT(30) DEF HelpCas, HelpFrame, HelpPCs
    <3>3. CASE replica_ptrs[i[t]] # local_r[t]
      BY <2>4, <3>3, Zenon DEF HelpCas, HelpFrame, PCs, HelpPCs
    <3> QED
      BY <3>2, <3>3, Zenon
  <2>5. CASE HelpReload(t)
    BY <2>0, <2>5, ControlTypes, Zenon DEF HelpReload, HelpFrame, HelpPCs
  <2>6. CASE HelpClear(t)
    BY <2>6, ControlTypes, Zenon DEF HelpClear, HelpFrame, Pointer, unlocked
  <2>7. CASE CasSwap(t)
    <3>1. with_lock(old_val[t] + 1) \in Pointer /\ old_val[t] + 1 \in Nat
      BY DEF Pointer, with_lock
    <3> QED
      BY <1>0, <2>7, <3>1, ControlTypes, Zenon DEF CasSwap, Callers, PCs
  <2>8. CASE LoadClear(t)
    BY <2>8, Zenon DEF LoadClear, Pointer, unlocked, PCs
  <2> QED
    BY <1>4, <2>1, <2>2, <2>3, <2>4, <2>5, <2>6, <2>7, <2>8, Zenon DEF Continue
<1> QED
  BY <1>1, <1>2, <1>3, <1>4, Zenon DEF Next

\* The four ways in which a step can change the pointers.
CopiesOut ==
    \E r \in Threads :
        /\ replica_ptrs' = [replica_ptrs EXCEPT ![r] = with_lock(global_ptr.ver)]
        /\ replica_ptrs[r].ver = global_ptr.ver - 1
        /\ \A s \in Threads : s < r => replica_ptrs[s].ver = global_ptr.ver
        /\ global_ptr' = global_ptr
Unlocks ==
    /\ global_ptr' = unlocked(global_ptr.ver)
    /\ \A r \in Threads : replica_ptrs[r].ver = global_ptr.ver
    /\ replica_ptrs' = replica_ptrs
Installs ==
    /\ ~global_ptr.lock
    /\ global_ptr' = with_lock(global_ptr.ver + 1)
    /\ replica_ptrs' = replica_ptrs
ClearsReplica ==
    /\ \E r \in Threads : replica_ptrs' =
                          [replica_ptrs EXCEPT ![r] = unlocked(replica_ptrs[r].ver)]
    /\ global_ptr' = global_ptr

\* Every step changes the pointers in one of these ways or leaves them alone: a
\* late helper's exchange on a replica can only succeed while the version it
\* helps is still the newest one.
LEMMA Effects ==
    IInv /\ [Next]_vars =>
        \/ CopiesOut \/ Unlocks \/ Installs \/ ClearsReplica
        \/ UNCHANGED <<global_ptr, replica_ptrs>>
<1> DEFINE Goal == \/ CopiesOut \/ Unlocks \/ Installs \/ ClearsReplica
                   \/ UNCHANGED <<global_ptr, replica_ptrs>>
<1> SUFFICES ASSUME IInv, [Next]_vars PROVE Goal
  OBVIOUS
<1> USE ReplicaNumAssumption
<1>1. ASSUME UNCHANGED vars PROVE Goal
  BY <1>1 DEF vars
<1>2. ASSUME NEW t \in Threads,
             LoadUnlocked(t) \/ LoadAndHelp(t) \/ LoadLast(t)
      PROVE Goal
  BY <1>2, Zenon DEF LoadUnlocked, LoadAndHelp, LoadLast
<1>3. ASSUME NEW t \in Threads, NEW old \in 0 .. MaxVersion - 1,
             CasHelpFirst(t, old) \/ CasDirect(t, old)
      PROVE Goal
  BY <1>3, Zenon DEF CasHelpFirst, CasDirect
<1>4. ASSUME NEW t \in Threads, HelpCas(t), replica_ptrs[i[t]] = local_r[t]
      PROVE CopiesOut
  <2> DEFINE r == i[t]
  <2>1. /\ r \in Threads
        /\ expected[t] <= global_ptr.ver
        /\ \A s \in Threads : s < r => replica_ptrs[s].ver >= expected[t]
        /\ local_r[t].ver < expected[t]
    BY <1>4, Zenon DEF HelpCas, IInv, HelperInv, HelpPCs
  <2>2. /\ global_ptr.ver \in Nat
        /\ expected[t] \in Nat
        /\ \A s \in Threads : replica_ptrs[s].ver \in Nat
    BY Zenon DEF IInv, TypeOK, Pointer
  <2>3. \A s \in Threads : replica_ptrs[s].ver \in {global_ptr.ver - 1, global_ptr.ver}
    BY Zenon DEF IInv, PrefixOrder
  <2>4. expected[t] = global_ptr.ver /\ replica_ptrs[r].ver = global_ptr.ver - 1
    BY <1>4, <2>1, <2>2, <2>3
  <2>5. \A s \in Threads : s < r => replica_ptrs[s].ver = global_ptr.ver
    BY <2>1, <2>2, <2>3, <2>4
  <2>6. /\ replica_ptrs' = [replica_ptrs EXCEPT ![r] = with_lock(global_ptr.ver)]
        /\ global_ptr' = global_ptr
    BY <1>4, <2>4, Zenon DEF HelpCas
  <2> QED
    BY <2>1, <2>4, <2>5, <2>6, Zenon DEF CopiesOut
<1>5. ASSUME NEW t \in Threads, HelpClear(t), global_ptr = with_lock(expected[t])
      PROVE Unlocks
  <2>1. /\ \A r \in Threads : r < i[t] => replica_ptrs[r].ver >= expected[t]
        /\ i[t] = replica_num
    BY <1>5, Zenon DEF HelpClear, IInv, HelperInv, HelpPCs
  <2>2. global_ptr.ver = expected[t] /\ global_ptr' = unlocked(expected[t])
    BY <1>5 DEF HelpClear, with_lock
  <2>3. \A r \in Threads : /\ replica_ptrs[r].ver \in Nat
                           /\ replica_ptrs[r].ver \in {global_ptr.ver - 1, global_ptr.ver}
    BY Zenon DEF IInv, TypeOK, Pointer, PrefixOrder
  <2>4. \A r \in Threads : replica_ptrs[r].ver >= expected[t]
    BY <2>1 DEF Threads
  <2>5. \A r \in Threads : replica_ptrs[r].ver = global_ptr.ver
    BY <2>2, <2>3, <2>4 DEF IInv, TypeOK, Pointer
  <2> QED
    BY <1>5, <2>2, <2>5, Zenon DEF HelpClear, Unlocks
<1>6. ASSUME NEW t \in Threads, CasSwap(t), global_ptr = unlocked(old_val[t])
      PROVE Installs
  BY <1>6, Zenon DEF CasSwap, Installs, unlocked
<1>7. ASSUME NEW t \in Threads, LoadClear(t), replica_ptrs[t] = load_r[t]
      PROVE ClearsReplica
  BY <1>7, Zenon DEF LoadClear, ClearsReplica
<1>8. ASSUME NEW t \in Threads, Continue(t) PROVE Goal
  <2>1. CASE HelpGlobal(t) \/ HelpReplica(t) \/ HelpRecheck(t) \/ HelpReload(t)
    BY <2>1, Zenon DEF HelpGlobal, HelpReplica, HelpRecheck, HelpReload
  <2>2. CASE HelpCas(t)
    BY <1>4, <2>2, Zenon DEF HelpCas
  <2>3. CASE HelpClear(t)
    BY <1>5, <2>3, Zenon DEF HelpClear
  <2>4. CASE CasSwap(t)
    BY <1>6, <2>4, Zenon DEF CasSwap
  <2>5. CASE LoadClear(t)
    BY <1>7, <2>5, Zenon DEF LoadClear
  <2> QED
    BY <1>8, <2>1, <2>2, <2>3, <2>4, <2>5, Zenon DEF Continue
<1> QED
  BY <1>1, <1>2, <1>3, <1>8, Zenon DEF Next

\* Pointer versions never go down, for any of the effects.
LEMMA VersionsForward ==
    ASSUME IInv, [Next]_vars
    PROVE /\ global_ptr'.ver >= global_ptr.ver
          /\ \A r \in Threads : replica_ptrs'[r].ver >= replica_ptrs[r].ver
<1>0. /\ global_ptr.ver \in Nat
      /\ \A r \in Threads : replica_ptrs[r].ver \in Nat
      /\ replica_ptrs \in [Threads -> Pointer]
  BY Zenon DEF IInv, TypeOK, Pointer
<1>1. CASE CopiesOut
  BY <1>0, <1>1 DEF CopiesOut, with_lock
<1>2. CASE Unlocks
  BY <1>0, <1>2 DEF Unlocks, unlocked
<1>3. CASE Installs
  BY <1>0, <1>3 DEF Installs, with_lock
<1>4. CASE ClearsReplica
  BY <1>0, <1>4 DEF ClearsReplica, unlocked
<1>5. CASE UNCHANGED <<global_ptr, replica_ptrs>>
  BY <1>0, <1>5
<1> QED
  BY <1>1, <1>2, <1>3, <1>4, <1>5, Effects, Zenon

\* The relation between the global pointer and the replicas is kept by each of
\* the effects.
LEMMA PointersStep ==
    ASSUME IInv, [Next]_vars
    PROVE (UnlockedMeansConverged /\ PrefixOrder)'
<1>0. /\ global_ptr.ver \in Nat
      /\ \A r \in Threads : replica_ptrs[r].ver \in Nat
      /\ replica_ptrs \in [Threads -> Pointer]
      /\ UnlockedMeansConverged /\ PrefixOrder
  BY Zenon DEF IInv, TypeOK, Pointer
<1>1. CASE CopiesOut
  <2>1. PICK r \in Threads :
          /\ replica_ptrs' = [replica_ptrs EXCEPT ![r] = with_lock(global_ptr.ver)]
          /\ replica_ptrs[r].ver = global_ptr.ver - 1
          /\ \A s \in Threads : s < r => replica_ptrs[s].ver = global_ptr.ver
          /\ global_ptr' = global_ptr
    BY <1>1, Zenon DEF CopiesOut
  <2>2. \A s \in Threads : replica_ptrs'[s].ver =
            IF s = r THEN global_ptr.ver ELSE replica_ptrs[s].ver
    BY <1>0, <2>1, Zenon DEF with_lock
  <2>3. UnlockedMeansConverged'
    BY <1>0, <2>1 DEF UnlockedMeansConverged
  <2>4. PrefixOrder'
    BY <1>0, <2>1, <2>2 DEF PrefixOrder
  <2> QED
    BY <2>3, <2>4
<1>2. CASE Unlocks
  BY <1>0, <1>2, Zenon DEF Unlocks, unlocked, UnlockedMeansConverged, PrefixOrder
<1>3. CASE Installs
  BY <1>0, <1>3 DEF Installs, with_lock, UnlockedMeansConverged, PrefixOrder
<1>4. CASE ClearsReplica
  <2>1. \A s \in Threads : replica_ptrs'[s].ver = replica_ptrs[s].ver
    BY <1>0, <1>4 DEF ClearsReplica, unlocked
  <2> QED
    BY <1>0, <1>4, <2>1, Zenon DEF ClearsReplica, UnlockedMeansConverged, PrefixOrder
<1>5. CASE UNCHANGED <<global_ptr, replica_ptrs>>
  BY <1>0, <1>5, Zenon DEF UnlockedMeansConverged, PrefixOrder
<1> QED
  BY <1>1, <1>2, <1>3, <1>4, <1>5, Effects

\* A thread whose locals a step leaves alone keeps what it relies on, since
\* pointers only move forward.
LEMMA BystanderStep ==
    ASSUME IInv, [Next]_vars, NEW u \in Threads,
           pc'[u] = pc[u], expected'[u] = expected[u], i'[u] = i[u],
           local_r'[u] = local_r[u], caller'[u] = caller[u],
           load_r'[u] = load_r[u], loaded'[u] = loaded[u], begun'[u] = begun[u]
    PROVE (HelperInv(u) /\ LoadInv(u))'
<1>1. /\ global_ptr.ver \in Nat /\ global_ptr'.ver \in Nat
      /\ \A r \in Threads : replica_ptrs[r].ver \in Nat /\ replica_ptrs'[r].ver \in Nat
      /\ expected[u] \in Nat /\ local_r[u].ver \in Nat
      /\ load_r[u].ver \in Nat /\ loaded[u] \in Nat /\ begun[u] \in Nat
  BY TypeStep, Zenon DEF IInv, TypeOK, Pointer
<1>2. /\ global_ptr'.ver >= global_ptr.ver
      /\ \A r \in Threads : replica_ptrs'[r].ver >= replica_ptrs[r].ver
  BY VersionsForward, Zenon
<1>3. HelperInv(u)'
  BY <1>1, <1>2 DEF IInv, HelperInv, HelpPCs
<1>4. LoadInv(u)'
  <2>1. /\ LoadInv(u) /\ (InLoad(u)' <=> InLoad(u))
        /\ replica_ptrs[u].ver \in Nat /\ replica_ptrs'[u].ver \in Nat
        /\ replica_ptrs'[u].ver >= replica_ptrs[u].ver
        /\ load_r[u].ver \in Nat /\ loaded[u] \in Nat
    BY <1>1, <1>2, Zenon DEF IInv, InLoad
  <2>2. loaded[u] <= replica_ptrs'[u].ver
    <3>1. loaded[u] <= replica_ptrs[u].ver
      BY <2>1, Zenon DEF LoadInv
    <3> QED
      BY <2>1, <3>1
  <2>3. InLoad(u) => load_r[u].ver <= replica_ptrs'[u].ver
    <3>1. InLoad(u) => load_r[u].ver <= replica_ptrs[u].ver
      BY <2>1, Zenon DEF LoadInv
    <3> QED
      BY <2>1, <3>1
  <2>4. /\ ~InLoad(u) => loaded[u] >= begun[u] - 1
        /\ InLoad(u) => load_r[u].ver >= begun[u] - 1 /\ load_r[u].ver >= loaded[u]
    BY <2>1, Zenon DEF LoadInv
  <2> QED
    BY <2>1, <2>2, <2>3, <2>4, Zenon DEF LoadInv
<1> QED
  BY <1>3, <1>4

\* The thread that takes the step keeps what help_update relies on.
LEMMA HelperStep ==
    ASSUME IInv, [Next]_vars, NEW t \in Threads, Continue(t)
    PROVE HelperInv(t)'
<1>0. /\ global_ptr.ver \in Nat /\ global_ptr'.ver \in Nat
      /\ \A r \in Threads : replica_ptrs[r].ver \in Nat /\ replica_ptrs'[r].ver \in Nat
      /\ \A u \in Threads : expected[u] \in Nat /\ local_r[u].ver \in Nat
      /\ TypeOK /\ HelperInv(t)
  BY TypeStep, Zenon DEF IInv, TypeOK, Pointer
<1>a. /\ global_ptr'.ver >= global_ptr.ver
      /\ \A r \in Threads : replica_ptrs'[r].ver >= replica_ptrs[r].ver
  BY VersionsForward
<1>r. ASSUME ReturnHelp(t) PROVE HelperInv(t)'
  <2>1. pc'[t] \in {"c_swap", "idle", "l_clear"}
    BY <1>r, <1>0, Zenon DEF ReturnHelp, TypeOK
  <2> QED
    BY <2>1, Zenon DEF HelperInv, HelpPCs
<1>n. ASSUME NextReplica(t), expected' = expected, pc[t] \in HelpPCs \ {"h_clear"},
             replica_ptrs'[i[t]].ver >= expected[t]
      PROVE HelperInv(t)'
  <2>1. i[t] \in Threads /\ i'[t] = i[t] + 1
    BY <1>n, <1>0, Zenon DEF NextReplica, TypeOK, HelperInv
  <2>2. /\ i[t] + 1 < replica_num => i[t] + 1 \in Threads
        /\ ~(i[t] + 1 < replica_num) => i[t] + 1 = replica_num
    BY <2>1, ReplicaNumAssumption DEF Threads
  <2>3. \A r \in Threads : r < i'[t] => r < i[t] \/ r = i[t]
    BY <2>1, ReplicaNumAssumption DEF Threads
  <2>4. pc'[t] = IF i[t] + 1 < replica_num THEN "h_global" ELSE "h_clear"
    BY <1>n, <1>0, Zenon DEF NextReplica, TypeOK
  <2>5. \A r \in Threads : r < i'[t] => replica_ptrs'[r].ver >= expected'[t]
    BY <1>0, <1>a, <1>n, <2>3 DEF HelperInv
  <2> QED
    BY <1>0, <1>a, <1>n, <2>1, <2>2, <2>4, <2>5 DEF HelperInv, HelpPCs
<1>1. CASE HelpGlobal(t)
  <2>1. CASE ReturnHelp(t)
    BY <1>r, <2>1
  <2>2. CASE pc' = [pc EXCEPT ![t] = "h_replica"] /\ UNCHANGED <<i, completed>>
    BY <1>0, <1>1, <2>2, Zenon DEF HelpGlobal, HelpFrame, HelperInv, HelpPCs, TypeOK
  <2> QED
    BY <1>1, <2>1, <2>2 DEF HelpGlobal
<1>2. CASE HelpReplica(t)
  <2>1. CASE replica_ptrs[i[t]].ver = expected[t]
    <3>1. i[t] \in Threads
      BY <1>0, <1>2, Zenon DEF HelpReplica, HelperInv, HelpPCs
    <3>2. replica_ptrs'[i[t]].ver >= expected[t]
      BY <1>0, <1>2, <2>1, <3>1 DEF HelpReplica
    <3> QED
      BY <1>n, <1>2, <2>1, <3>2, Zenon DEF HelpReplica, HelpFrame, HelpPCs
  <2>2. CASE replica_ptrs[i[t]].ver # expected[t]
    <3>1. /\ pc'[t] = "h_recheck"
          /\ local_r'[t] = replica_ptrs[i[t]]
          /\ UNCHANGED <<i, expected, global_ptr, replica_ptrs>>
      BY <1>0, <1>2, <2>2, Zenon DEF HelpReplica, HelpFrame, TypeOK
    <3>2. pc[t] = "h_replica" /\ i[t] \in Threads
      BY <1>0, <1>2, Zenon DEF HelpReplica, HelperInv, HelpPCs
    <3> QED
      BY <1>0, <2>2, <3>1, <3>2, SMTT(20) DEF HelperInv, HelpPCs
  <2> QED
    BY <2>1, <2>2
<1>3. CASE HelpRecheck(t)
  <2>1. CASE global_ptr.ver # expected[t]
    BY <1>r, <1>3, <2>1 DEF HelpRecheck
  <2>2. CASE global_ptr.ver = expected[t]
    <3>1. /\ pc'[t] = "h_cas" /\ pc[t] = "h_recheck"
          /\ UNCHANGED <<i, expected, global_ptr, replica_ptrs, local_r>>
      BY <1>0, <1>3, <2>2, Zenon DEF HelpRecheck, HelpFrame, TypeOK
    <3>2. i[t] \in Threads /\ local_r[t].ver <= replica_ptrs[i[t]].ver
          /\ local_r[t].ver # expected[t]
      BY <1>0, <3>1, Zenon DEF HelperInv, HelpPCs
    <3>3. replica_ptrs[i[t]].ver <= global_ptr.ver
      BY <3>2, OneBehind, Zenon
    <3>4. local_r[t].ver < expected[t]
      BY <1>0, <2>2, <3>2, <3>3
    <3> QED
      BY <1>0, <3>1, <3>4, Zenon DEF HelperInv, HelpPCs
  <2> QED
    BY <2>1, <2>2
<1>4. CASE HelpCas(t)
  <2>0. i[t] \in Threads
    BY <1>0, <1>4, Zenon DEF HelpCas, HelperInv, HelpPCs
  <2>1. CASE replica_ptrs[i[t]] = local_r[t]
    <3>1. replica_ptrs'[i[t]].ver = expected[t]
      BY <1>0, <1>4, <2>0, <2>1 DEF HelpCas, TypeOK, with_lock
    <3> QED
      BY <1>0, <1>n, <1>4, <2>0, <2>1, <3>1 DEF HelpCas, HelpFrame, HelpPCs
  <2>2. CASE replica_ptrs[i[t]] # local_r[t]
    <3>1. /\ pc'[t] = "h_reload" /\ pc[t] = "h_cas"
          /\ UNCHANGED <<i, expected, global_ptr, replica_ptrs, local_r>>
      BY <1>0, <1>4, <2>2, Zenon DEF HelpCas, HelpFrame, TypeOK
    <3> QED
      BY <1>0, <3>1, Zenon DEF HelperInv, HelpPCs
  <2> QED
    BY <2>1, <2>2
<1>5. CASE HelpReload(t)
  <2>0. i[t] \in Threads
    BY <1>0, <1>5, Zenon DEF HelpReload, HelperInv, HelpPCs
  <2>1. CASE replica_ptrs[i[t]] = with_lock(expected[t])
    <3>1. replica_ptrs' = replica_ptrs /\ NextReplica(t) /\ HelpFrame(t) /\ pc[t] = "h_reload"
      BY <1>5, <2>1 DEF HelpReload
    <3>2. replica_ptrs'[i[t]].ver = expected[t]
      BY <2>1, <3>1 DEF with_lock
    <3>3. replica_ptrs'[i[t]].ver >= expected[t] /\ expected' = expected
      BY <1>0, <2>0, <3>1, <3>2 DEF HelpFrame
    <3>4. pc[t] \in HelpPCs \ {"h_clear"}
      BY <3>1 DEF HelpPCs
    <3> QED
      BY <1>n, <3>1, <3>3, <3>4, Zenon
  <2>2. CASE replica_ptrs[i[t]] # with_lock(expected[t])
    BY <1>r, <1>5, <2>2, Zenon DEF HelpReload
  <2> QED
    BY <2>1, <2>2
<1>6. CASE HelpClear(t)
  BY <1>r, <1>6 DEF HelpClear
<1>7. CASE CasSwap(t)
  <2>1. CASE global_ptr = unlocked(old_val[t])
    <3>1. /\ pc'[t] = "h_global" /\ i'[t] = 0
          /\ expected'[t] = old_val[t] + 1
          /\ global_ptr' = with_lock(old_val[t] + 1)
      BY <1>0, <1>7, <2>1, Zenon DEF CasSwap, CallHelp, TypeOK
    <3>2. 0 \in Threads /\ \A r \in Threads : ~(r < 0)
      BY ReplicaNumAssumption DEF Threads
    <3>3. global_ptr'.ver = expected'[t]
      BY <3>1 DEF with_lock
    <3> QED
      BY <1>0, <3>1, <3>2, <3>3 DEF HelperInv, HelpPCs
  <2>2. CASE global_ptr # unlocked(old_val[t])
    BY <1>0, <1>7, <2>2, Zenon DEF CasSwap, HelperInv, HelpPCs, TypeOK
  <2> QED
    BY <2>1, <2>2
<1>8. CASE LoadClear(t)
  BY <1>0, <1>8, Zenon DEF LoadClear, HelperInv, HelpPCs, TypeOK
<1> QED
  BY <1>1, <1>2, <1>3, <1>4, <1>5, <1>6, <1>7, <1>8 DEF Continue

\* ... and what load_ptr relies on; its result is what it read at its start.
LEMMA LoadStep ==
    ASSUME IInv, [Next]_vars, NEW t \in Threads, Continue(t)
    PROVE LoadInv(t)' /\ loaded'[t] >= loaded[t]
<1>0. /\ \A r \in Threads : replica_ptrs[r].ver \in Nat /\ replica_ptrs'[r].ver \in Nat
      /\ \A u \in Threads : load_r[u].ver \in Nat /\ loaded[u] \in Nat /\ begun[u] \in Nat
      /\ TypeOK /\ LoadInv(t)
  BY TypeStep, Zenon DEF IInv, TypeOK, Pointer
<1>a. replica_ptrs'[t].ver >= replica_ptrs[t].ver
  BY VersionsForward
<1>k. ASSUME UNCHANGED <<load_r, loaded, begun>>, InLoad(t)' <=> InLoad(t)
      PROVE LoadInv(t)' /\ loaded'[t] >= loaded[t]
  <2>1. /\ replica_ptrs[t].ver \in Nat /\ replica_ptrs'[t].ver \in Nat
        /\ load_r[t].ver \in Nat /\ loaded[t] \in Nat /\ begun[t] \in Nat
        /\ LoadInv(t)
    BY <1>0, Zenon
  <2>2. loaded'[t] = loaded[t] /\ load_r'[t] = load_r[t] /\ begun'[t] = begun[t]
    BY <1>k
  <2>3. loaded'[t] >= loaded[t]
    BY <2>1, <2>2
  <2>4. LoadInv(t)'
    BY <1>a, <1>k, <2>1, <2>2 DEF LoadInv
  <2> QED
    BY <2>3, <2>4
<1>r. ASSUME ReturnHelp(t), HelpFrame(t), pc[t] \in HelpPCs
      PROVE LoadInv(t)' /\ loaded'[t] >= loaded[t]
  <2>1. pc'[t] \in {"c_swap", "idle"} <=> caller[t] # "load"
    BY <1>0, <1>r, Zenon DEF ReturnHelp, TypeOK, Callers
  <2>2. pc'[t] \in {"c_swap", "idle", "l_clear"}
    BY <1>0, <1>r, Zenon DEF ReturnHelp, TypeOK
  <2>3. InLoad(t)' <=> InLoad(t)
    BY <1>r, <2>1, <2>2 DEF InLoad, HelpPCs, HelpFrame
  <2> QED
    BY <1>k, <1>r, <2>3 DEF HelpFrame
<1>h. ASSUME HelpFrame(t), pc[t] \in HelpPCs, pc'[t] \in HelpPCs
      PROVE LoadInv(t)' /\ loaded'[t] >= loaded[t]
  <2>1. InLoad(t)' <=> InLoad(t)
    BY <1>h DEF InLoad, HelpPCs, HelpFrame
  <2> QED
    BY <1>k, <1>h, <2>1 DEF HelpFrame
<1>n. ASSUME NextReplica(t) PROVE pc'[t] \in HelpPCs
  BY <1>0, <1>n, Zenon DEF NextReplica, TypeOK, HelpPCs
<1>1. CASE HelpGlobal(t)
  BY <1>0, <1>1, <1>r, <1>h, Zenon DEF HelpGlobal, HelpPCs, TypeOK
<1>2. CASE HelpReplica(t)
  BY <1>0, <1>2, <1>n, <1>h, Zenon DEF HelpReplica, HelpPCs, TypeOK
<1>3. CASE HelpRecheck(t)
  BY <1>0, <1>3, <1>r, <1>h, Zenon DEF HelpRecheck, HelpPCs, TypeOK
<1>4. CASE HelpCas(t)
  BY <1>0, <1>4, <1>n, <1>h, Zenon DEF HelpCas, HelpPCs, TypeOK
<1>5. CASE HelpReload(t)
  BY <1>0, <1>5, <1>n, <1>r, <1>h, Zenon DEF HelpReload, HelpPCs, TypeOK
<1>6. CASE HelpClear(t)
  BY <1>6, <1>r DEF HelpClear, HelpPCs
<1>7. CASE CasSwap(t)
  <2>1. ~InLoad(t) /\ UNCHANGED <<load_r, loaded, begun>>
    BY <1>7 DEF CasSwap, InLoad, HelpPCs
  <2>2. pc'[t] = "idle" \/ (pc'[t] = "h_global" /\ caller'[t] = "publish")
    BY <1>0, <1>7, Zenon DEF CasSwap, CallHelp, TypeOK
  <2>3. ~InLoad(t)'
    BY <2>2 DEF InLoad, HelpPCs
  <2> QED
    BY <1>k, <2>1, <2>3
<1>8. CASE LoadClear(t)
  <2>1. /\ pc'[t] = "idle" /\ loaded'[t] = load_r[t].ver /\ begun' = begun
        /\ InLoad(t)
    BY <1>0, <1>8, Zenon DEF LoadClear, TypeOK, InLoad
  <2>2. ~InLoad(t)'
    BY <2>1 DEF InLoad, HelpPCs
  <2> QED
    BY <1>0, <1>a, <2>1, <2>2, SMTT(20) DEF LoadInv
<1> QED
  BY <1>1, <1>2, <1>3, <1>4, <1>5, <1>6, <1>7, <1>8, Zenon DEF Continue

\* The thread that begins a call.
LEMMA BeginStep ==
    ASSUME IInv, [Next]_vars, NEW t \in Threads,
           \/ LoadUnlocked(t) \/ LoadAndHelp(t) \/ LoadLast(t)
           \/ \E old \in 0 .. MaxVersion - 1 : CasHelpFirst(t, old) \/ CasDirect(t, old)
    PROVE (HelperInv(t) /\ LoadInv(t))' /\ loaded'[t] >= loaded[t]
<1>0. /\ global_ptr.ver \in Nat /\ completed \in Nat
      /\ \A r \in Threads : replica_ptrs[r].ver \in Nat
      /\ \A u \in Threads : load_r[u].ver \in Nat /\ loaded[u] \in Nat /\ begun[u] \in Nat
      /\ TypeOK /\ LoadInv(t) /\ completed <= global_ptr.ver
  BY Zenon DEF IInv, TypeOK, Pointer
<1>n. /\ loaded[t] \in Nat /\ load_r[t].ver \in Nat /\ begun[t] \in Nat
      /\ replica_ptrs[t].ver \in Nat /\ global_ptr.ver \in Nat /\ completed \in Nat
      /\ loaded[t] <= replica_ptrs[t].ver /\ completed <= global_ptr.ver
  BY <1>0, Zenon DEF LoadInv
<1>1. replica_ptrs[t].ver >= global_ptr.ver - 1
  BY OneBehind
<1>2. pc[t] = "idle" => ~InLoad(t)
  BY DEF InLoad, HelpPCs
<1>3. CASE LoadUnlocked(t)
  <2>1. /\ pc'[t] = "idle" /\ loaded'[t] = replica_ptrs[t].ver
        /\ begun'[t] = completed /\ replica_ptrs' = replica_ptrs
    BY <1>0, <1>3, Zenon DEF LoadUnlocked, TypeOK
  <2>2. ~InLoad(t)'
    BY <2>1 DEF InLoad, HelpPCs
  <2>3. HelperInv(t)'
    BY <2>1, Zenon DEF HelperInv, HelpPCs
  <2>4. loaded'[t] <= replica_ptrs'[t].ver /\ loaded'[t] >= begun'[t] - 1
    BY <1>n, <1>1, <2>1
  <2>5. LoadInv(t)'
    BY <2>2, <2>4, Zenon DEF LoadInv
  <2>9. loaded'[t] >= loaded[t]
    BY <1>n, <2>1, Zenon
  <2> QED
    BY <2>3, <2>5, <2>9
<1>4. CASE LoadAndHelp(t)
  <2>1. /\ pc'[t] = "h_global" /\ load_r'[t] = replica_ptrs[t]
        /\ begun'[t] = completed /\ loaded'[t] = loaded[t]
        /\ caller'[t] = "load" /\ i'[t] = t + 1
        /\ expected'[t] = replica_ptrs[t].ver
        /\ UNCHANGED <<global_ptr, replica_ptrs>>
        /\ t + 1 < replica_num
    BY <1>0, <1>4, Zenon DEF LoadAndHelp, CallHelp, TypeOK
  <2>2. LoadInv(t)'
    <3>1. InLoad(t)'
      BY <2>1, Zenon DEF InLoad, HelpPCs
    <3> QED
      BY <1>n, <1>1, <2>1, <3>1 DEF LoadInv
  <2>3. t + 1 \in Threads /\ \A r \in Threads : r < t + 1 => r < t \/ r = t
    BY <2>1, ReplicaNumAssumption DEF Threads
  <2>4. \A r \in Threads : r < t => replica_ptrs[r].ver >= replica_ptrs[t].ver
    BY <1>0, Zenon DEF IInv, PrefixOrder
  <2>5. replica_ptrs[t].ver <= global_ptr.ver
    BY OneBehind
  <2>6. \A r \in Threads : r < t + 1 => replica_ptrs[r].ver >= replica_ptrs[t].ver
    BY <1>n, <2>3, <2>4
  <2>7. HelperInv(t)'
    BY <2>1, <2>3, <2>5, <2>6, Zenon DEF HelperInv, HelpPCs
  <2>9. loaded'[t] >= loaded[t]
    <3>1. loaded[t] \in Nat /\ loaded'[t] = loaded[t]
      BY <1>n, <2>1, Zenon
    <3> QED
      BY <3>1
  <2> QED
    BY <2>2, <2>7, <2>9
<1>5. CASE LoadLast(t)
  <2>1. /\ pc'[t] = "l_clear" /\ load_r'[t] = replica_ptrs[t]
        /\ begun'[t] = completed /\ loaded'[t] = loaded[t]
        /\ replica_ptrs' = replica_ptrs
    BY <1>0, <1>5, Zenon DEF LoadLast, TypeOK
  <2>2. InLoad(t)'
    BY <2>1 DEF InLoad
  <2>3. HelperInv(t)'
    BY <2>1, Zenon DEF HelperInv, HelpPCs
  <2>4. LoadInv(t)'
    BY <1>n, <1>1, <2>1, <2>2 DEF LoadInv
  <2>9. loaded'[t] >= loaded[t]
    <3>1. loaded[t] \in Nat /\ loaded'[t] = loaded[t]
      BY <1>n, <2>1, Zenon
    <3> QED
      BY <3>1
  <2> QED
    BY <2>3, <2>4, <2>9
<1>6. ASSUME NEW old \in 0 .. MaxVersion - 1, CasHelpFirst(t, old)
      PROVE (HelperInv(t) /\ LoadInv(t))' /\ loaded'[t] >= loaded[t]
  <2>1. /\ pc[t] = "idle" /\ pc'[t] = "h_global" /\ caller'[t] = "help_first"
        /\ i'[t] = 0 /\ expected'[t] = global_ptr.ver
        /\ loaded'[t] = loaded[t] /\ begun'[t] = begun[t] /\ load_r'[t] = load_r[t]
        /\ UNCHANGED <<global_ptr, replica_ptrs>>
    BY <1>0, <1>6, Zenon DEF CasHelpFirst, CallHelp, TypeOK
  <2>2. ~InLoad(t)' /\ ~InLoad(t)
    BY <2>1, Zenon DEF InLoad, HelpPCs
  <2>3. 0 \in Threads /\ \A r \in Threads : ~(r < 0)
    BY ReplicaNumAssumption DEF Threads
  <2>4. HelperInv(t)'
    BY <1>n, <2>1, <2>3 DEF HelperInv, HelpPCs
  <2>5. LoadInv(t)'
    BY <1>0, <2>1, <2>2, Zenon DEF LoadInv
  <2>9. loaded'[t] >= loaded[t]
    <3>1. loaded[t] \in Nat /\ loaded'[t] = loaded[t]
      BY <1>n, <2>1, Zenon
    <3> QED
      BY <3>1
  <2> QED
    BY <2>4, <2>5, <2>9
<1>7. ASSUME NEW old \in 0 .. MaxVersion - 1, CasDirect(t, old)
      PROVE (HelperInv(t) /\ LoadInv(t))' /\ loaded'[t] >= loaded[t]
  <2>1. /\ pc[t] = "idle" /\ pc'[t] = "c_swap"
        /\ loaded'[t] = loaded[t] /\ begun'[t] = begun[t] /\ load_r'[t] = load_r[t]
        /\ UNCHANGED replica_ptrs
    BY <1>0, <1>7, Zenon DEF CasDirect, TypeOK
  <2>2. ~InLoad(t)' /\ ~InLoad(t)
    BY <2>1, Zenon DEF InLoad, HelpPCs
  <2>3. HelperInv(t)'
    BY <2>1, Zenon DEF HelperInv, HelpPCs
  <2>4. LoadInv(t)'
    BY <1>0, <2>1, <2>2, Zenon DEF LoadInv
  <2>9. loaded'[t] >= loaded[t]
    <3>1. loaded[t] \in Nat /\ loaded'[t] = loaded[t]
      BY <1>n, <2>1, Zenon
    <3> QED
      BY <3>1
  <2> QED
    BY <2>3, <2>4, <2>9
<1> QED
  BY <1>3, <1>4, <1>5, <1>6, <1>7, Zenon

\* Every step acts for one thread and leaves the locals of the others alone.
LEMMA OneThreadActs ==
    ASSUME IInv, Next
    PROVE \E t \in Threads :
             /\ \/ LoadUnlocked(t) \/ LoadAndHelp(t) \/ LoadLast(t) \/ Continue(t)
                \/ \E old \in 0 .. MaxVersion - 1 :
                       CasHelpFirst(t, old) \/ CasDirect(t, old)
             /\ \A u \in Threads \ {t} :
                   /\ pc'[u] = pc[u] /\ expected'[u] = expected[u] /\ i'[u] = i[u]
                   /\ local_r'[u] = local_r[u] /\ caller'[u] = caller[u]
                   /\ load_r'[u] = load_r[u] /\ loaded'[u] = loaded[u]
                   /\ begun'[u] = begun[u]
             /\ completed' # completed =>
                   /\ completed' = expected[t]
                   /\ pc[t] \in HelpPCs
<1>0. TypeOK
  BY DEF IInv
<1>1. PICK t \in Threads :
          \/ LoadUnlocked(t) \/ LoadAndHelp(t) \/ LoadLast(t) \/ Continue(t)
          \/ \E old \in 0 .. MaxVersion - 1 : CasHelpFirst(t, old) \/ CasDirect(t, old)
  BY DEF Next
<1> DEFINE Locals(u) == /\ pc'[u] = pc[u] /\ expected'[u] = expected[u] /\ i'[u] = i[u]
                        /\ local_r'[u] = local_r[u] /\ caller'[u] = caller[u]
                        /\ load_r'[u] = load_r[u] /\ loaded'[u] = loaded[u]
                        /\ begun'[u] = begun[u]
           Counts == completed' # completed => /\ completed' = expected[t]
                                               /\ pc[t] \in HelpPCs
<1> SUFFICES ASSUME NEW u \in Threads PROVE (u # t => Locals(u)) /\ Counts
  BY <1>1, Zenon
<1>2. CASE LoadUnlocked(t) \/ LoadAndHelp(t) \/ LoadLast(t)
  BY <1>0, <1>2, SMTT(20) DEF LoadUnlocked, LoadAndHelp, LoadLast, CallHelp, TypeOK
<1>3. ASSUME NEW old \in 0 .. MaxVersion - 1, CasHelpFirst(t, old) \/ CasDirect(t, old)
      PROVE (u # t => Locals(u)) /\ Counts
  BY <1>0, <1>3 DEF CasHelpFirst, CasDirect, CallHelp, TypeOK
<1>4. CASE Continue(t)
  <2>1. CASE HelpGlobal(t)
    BY <1>0, <2>1, Zenon DEF HelpGlobal, HelpFrame, ReturnHelp, TypeOK, HelpPCs
  <2>2. CASE HelpReplica(t)
    BY <1>0, <2>2, Zenon DEF HelpReplica, HelpFrame, NextReplica, TypeOK
  <2>3. CASE HelpRecheck(t)
    BY <1>0, <2>3, Zenon DEF HelpRecheck, HelpFrame, ReturnHelp, TypeOK, HelpPCs
  <2>4. CASE HelpCas(t)
    BY <1>0, <2>4, Zenon DEF HelpCas, HelpFrame, NextReplica, TypeOK
  <2>5. CASE HelpReload(t)
    BY <1>0, <2>5 DEF HelpReload, HelpFrame, NextReplica, ReturnHelp, TypeOK, HelpPCs
  <2>6. CASE HelpClear(t)
    BY <1>0, <2>6, Zenon DEF HelpClear, HelpFrame, ReturnHelp, TypeOK, HelpPCs
  <2>7. CASE CasSwap(t)
    BY <1>0, <2>7 DEF CasSwap, CallHelp, TypeOK
  <2>8. CASE LoadClear(t)
    BY <1>0, <2>8, Zenon DEF LoadClear, TypeOK
  <2> QED
    BY <1>4, <2>1, <2>2, <2>3, <2>4, <2>5, <2>6, <2>7, <2>8, Zenon DEF Continue
<1> QED
  BY <1>1, <1>2, <1>3, <1>4, Zenon

\* Every step keeps the inductive invariant, and moves pointers and loads only
\* forward.
LEMMA IInvStep == IInv /\ [Next]_vars =>
    /\ IInv'
    /\ global_ptr'.ver >= global_ptr.ver
    /\ \A r \in Threads : /\ replica_ptrs'[r].ver >= replica_ptrs[r].ver
                          /\ loaded'[r] >= loaded[r]
<1> SUFFICES ASSUME IInv, [Next]_vars
             PROVE /\ IInv'
                   /\ global_ptr'.ver >= global_ptr.ver
                   /\ \A r \in Threads : /\ replica_ptrs'[r].ver >= replica_ptrs[r].ver
                                         /\ loaded'[r] >= loaded[r]
  OBVIOUS
<1>0. /\ global_ptr.ver \in Nat /\ global_ptr'.ver \in Nat
      /\ completed \in Nat /\ completed <= global_ptr.ver
      /\ \A u \in Threads : expected[u] \in Nat /\ loaded[u] \in Nat
  BY TypeStep, Zenon DEF IInv, TypeOK, Pointer
<1>1. /\ global_ptr'.ver >= global_ptr.ver
      /\ \A r \in Threads : replica_ptrs'[r].ver >= replica_ptrs[r].ver
  BY VersionsForward
<1>2. TypeOK' /\ (UnlockedMeansConverged /\ PrefixOrder)'
  BY TypeStep, PointersStep
<1>3. ASSUME NEW u \in Threads
      PROVE (HelperInv(u) /\ LoadInv(u))' /\ loaded'[u] >= loaded[u]
  <2>1. CASE UNCHANGED vars
    <3>1. /\ pc'[u] = pc[u] /\ expected'[u] = expected[u] /\ i'[u] = i[u]
          /\ local_r'[u] = local_r[u] /\ caller'[u] = caller[u]
          /\ load_r'[u] = load_r[u] /\ loaded'[u] = loaded[u] /\ begun'[u] = begun[u]
      BY <2>1 DEF vars
    <3>2. loaded[u] \in Nat
      BY <1>0
    <3>3. (HelperInv(u) /\ LoadInv(u))'
      BY <3>1, BystanderStep, Zenon
    <3>4. loaded'[u] >= loaded[u]
      BY <3>1, <3>2
    <3> QED
      BY <3>3, <3>4
  <2>2. CASE Next
    <3>1. PICK t \in Threads :
             /\ \/ LoadUnlocked(t) \/ LoadAndHelp(t) \/ LoadLast(t) \/ Continue(t)
                \/ \E old \in 0 .. MaxVersion - 1 :
                       CasHelpFirst(t, old) \/ CasDirect(t, old)
             /\ \A v \in Threads \ {t} :
                   /\ pc'[v] = pc[v] /\ expected'[v] = expected[v] /\ i'[v] = i[v]
                   /\ local_r'[v] = local_r[v] /\ caller'[v] = caller[v]
                   /\ load_r'[v] = load_r[v] /\ loaded'[v] = loaded[v]
                   /\ begun'[v] = begun[v]
      BY <2>2, OneThreadActs, Zenon
    <3>2. CASE u # t
      <4>1. /\ pc'[u] = pc[u] /\ expected'[u] = expected[u] /\ i'[u] = i[u]
            /\ local_r'[u] = local_r[u] /\ caller'[u] = caller[u]
            /\ load_r'[u] = load_r[u] /\ loaded'[u] = loaded[u] /\ begun'[u] = begun[u]
        BY <3>1, <3>2, Zenon
      <4>2. loaded[u] \in Nat
        BY <1>0
      <4>3. (HelperInv(u) /\ LoadInv(u))'
        BY <4>1, BystanderStep, Zenon
      <4>4. loaded'[u] >= loaded[u]
        BY <4>1, <4>2
      <4> QED
        BY <4>3, <4>4
    <3>3. CASE u = t /\ Continue(t)
      BY <3>3, HelperStep, LoadStep
    <3>4. CASE u = t /\ ~Continue(t)
      BY <3>1, <3>4, BeginStep, Zenon
    <3> QED
      BY <3>2, <3>3, <3>4
  <2> QED
    BY <2>1, <2>2
<1>4. completed' <= global_ptr'.ver
  <2>1. CASE completed' = completed
    BY <1>0, <1>1, <2>1
  <2>2. CASE completed' # completed
    <3>1. \E t \in Threads : completed' = expected[t] /\ pc[t] \in HelpPCs
      BY <2>2, OneThreadActs, Zenon DEF vars
    <3>2. \A t \in Threads : pc[t] \in HelpPCs => expected[t] <= global_ptr.ver
      BY Zenon DEF IInv, HelperInv
    <3> QED
      BY <1>0, <1>1, <3>1, <3>2
  <2> QED
    BY <2>1, <2>2
<1> QED
  BY <1>1, <1>2, <1>3, <1>4, Zenon DEF IInv

-----------------------------------------------------------------------------
\* The inductive invariant holds in every reachable state.
THEOREM Invariance == Spec => []IInv
<1>1. IInv /\ [Next]_vars => IInv'
  BY IInvStep
<1> QED
  BY InitIInv, <1>1, PTL DEF Spec

\* Pointers, indices and versions keep their types: in particular help_update
\* never indexes past the last replica.
THEOREM TypeCorrect == Spec => []TypeOK
<1>1. IInv => TypeOK
  BY DEF IInv
<1> QED
  BY <1>1, Invariance, PTL

\* An unlocked global pointer means that all replicas agree with it.
THEOREM Converged == Spec => []UnlockedMeansConverged
<1>1. IInv => UnlockedMeansConverged
  BY DEF IInv
<1> QED
  BY <1>1, Invariance, PTL

\* Replicas lag by at most one update, and never behind a later replica.
THEOREM Ordered == Spec => []PrefixOrder
<1>1. IInv => PrefixOrder
  BY DEF IInv
<1> QED
  BY <1>1, Invariance, PTL

\* A load_ptr misses at most the newest of the updates completed before it.
THEOREM StalenessBounded == Spec => []BoundedStaleness
<1>1. IInv => BoundedStaleness
  BY Zenon DEF IInv, LoadInv, InLoad, HelpPCs, BoundedStaleness
<1> QED
  BY <1>1, Invariance, PTL

\* No step of any helper, writer or reader moves a pointer or a thread's loads
\* back to an older version.
THEOREM Monotone == Spec => NeverBackwards
<1>1. IInv /\ [Next]_vars =>
         [/\ global_ptr'.ver >= global_ptr.ver
          /\ \A r \in Threads : /\ replica_ptrs'[r].ver >= replica_ptrs[r].ver
                                /\ loaded'[r] >= loaded[r]]_vars
  BY IInvStep
<1> QED
  BY <1>1, Invariance, PTL DEF Spec, NeverBackwards
=============================================================================
