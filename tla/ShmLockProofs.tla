--------------------------- MODULE ShmLockProofs ----------------------------
(***************************************************************************)
(* Proofs about ShmLock for any threads, machines and number of calls.     *)
(***************************************************************************)
EXTENDS ShmLock, TLAPS

Inside(t) == pc[t] # "idle"

\* The machine's mutex admits one thread, and a machine whose mutex is free
\* takes no part in the bakery.
LocalInv ==
    /\ \A t \in Threads : Inside(t) => MachineOf[t] \in local_lock
    /\ \A t, u \in Threads :
          Inside(t) /\ Inside(u) /\ MachineOf[t] = MachineOf[u] => t = u
    /\ \A m \in local_lock : \E t \in Threads : Inside(t) /\ MachineOf[t] = m
    /\ \A m \in Machines \ local_lock : number[m] = 0 /\ choosing[m] = 0

\* What a thread's stores have made of its machine's flag and number.
StoreInv(t) ==
    LET m == MachineOf[t]
    IN  /\ pc[t] = "idle" => pending[t] = Drained
        /\ pc[t] = "choose" =>
              pending[t] = Drained /\ choosing[m] = 0 /\ number[m] = 0
        /\ pc[t] = "max" =>
              /\ number[m] = 0
              /\ \/ pending[t] = Store("choosing", 1) /\ index[t] = 0 /\ choosing[m] = 0
                 \/ pending[t] = Drained /\ choosing[m] = 1
        /\ pc[t] = "take" =>
              pending[t] = Drained /\ choosing[m] = 1 /\ number[m] = 0
        /\ pc[t] = "chosen" =>
              /\ choosing[m] = 1
              /\ \/ pending[t] = Store("number", max_num[t] + 1) /\ number[m] = 0
                 \/ pending[t] = Drained /\ number[m] = max_num[t] + 1
        /\ pc[t] \in Waiting \cup {"cs"} =>
              /\ number[m] = max_num[t] + 1
              /\ \/ pending[t] = Store("choosing", 0) /\ pc[t] \in {"choosing", "zero"}
                                                      /\ choosing[m] = 1
                 \/ pending[t] = Drained /\ choosing[m] = 0
        /\ pc[t] = "release" =>
              /\ choosing[m] = 0
              /\ \/ pending[t] = Store("number", 0) /\ number[m] = max_num[t] + 1
                 \/ pending[t] = Drained /\ number[m] = 0

\* The order of two threads' numbers, which are max_num + 1.
Before(t, u) ==
    \/ max_num[t] < max_num[u]
    \/ max_num[t] = max_num[u] /\ MachineOf[t] < MachineOf[u]

\* A thread that is still choosing will choose a number behind t's.
ChoosesBehind(u, t) ==
    /\ pc[u] = "max" => index[u] <= MachineOf[t] \/ max_num[u] > max_num[t]
    /\ pc[u] \in {"take", "chosen"} => Before(t, u)

HasNumber(u) ==
    pc[u] \in Waiting \cup {"cs"} \/ (pc[u] = "release" /\ pending[u] # Drained)

\* u cannot overtake t any more.
Behind(u, t) == ChoosesBehind(u, t) /\ (HasNumber(u) => Before(t, u))

\* The bakery: whoever has compared itself with a machine has overtaken it for
\* good.
BakeryInv(t, u) ==
    MachineOf[t] # MachineOf[u] =>
        /\ pc[t] = "cs" \/ (pc[t] \in Waiting /\ MachineOf[u] < index[t]) => Behind(u, t)
        /\ pc[t] \in {"zero", "less", "equal"} /\ index[t] = MachineOf[u] =>
              ChoosesBehind(u, t)
        /\ pc[t] = "equal" /\ index[t] = MachineOf[u] /\ HasNumber(u) =>
              max_num[t] <= max_num[u]

IInv ==
    /\ TypeOK
    /\ LocalInv
    /\ \A t \in Threads : StoreInv(t)
    /\ \A t, u \in Threads : BakeryInv(t, u)

Step(a) == LockLocal(a) \/ Continue(a) \/ Drain(a)

\* The values a loop index takes.
LEMMA NextMachine ==
    ASSUME NEW k \in Machines
    PROVE /\ k + 1 \in 0 .. NUM_CLIENTS
          /\ k + 1 < NUM_CLIENTS => k + 1 \in Machines
          /\ ~(k + 1 < NUM_CLIENTS) => \A m \in Machines : m < k + 1
          /\ \A m \in Machines : m < k + 1 <=> m < k \/ m = k
BY ClientsAssumption DEF Machines

\* Before any call no machine takes part.
LEMMA InitIInv == Init => IInv
<1> SUFFICES ASSUME Init PROVE IInv
  OBVIOUS
<1> USE ClientsAssumption, MachineAssumption, CallsAssumption DEF Init
<1>1. TypeOK
  BY DEF TypeOK, PCs, Waiting, Store, Drained, Machines
<1>2. LocalInv
  BY DEF LocalInv, Inside
<1>3. \A t \in Threads : StoreInv(t)
  BY Zenon DEF StoreInv, Waiting
<1>4. \A t, u \in Threads : BakeryInv(t, u)
  BY DEF BakeryInv, Waiting
<1> QED
  BY <1>1, <1>2, <1>3, <1>4 DEF IInv

\* A step keeps the types; an index stays within the machines while a loop
\* uses it.
LEMMA TypeStep ==
    ASSUME TypeOK, NEW a \in Threads, Step(a)
    PROVE TypeOK'
<1> USE ClientsAssumption, MachineAssumption, CallsAssumption
        DEF TypeOK, Goto, WRITE_NT_32, Store, Drained
<1>0. /\ \A w \in Waiting \cup {"idle", "choose", "max", "take", "chosen", "cs", "release"} :
            w \in PCs
      /\ MachineOf[a] \in Machines /\ 0 \in Machines /\ 0 \in 0 .. NUM_CLIENTS
  BY DEF PCs, Machines
<1>1. CASE LockLocal(a)
  BY <1>0, <1>1 DEF LockLocal, Waiting
<1>2. CASE Choose(a)
  BY <1>0, <1>2, Zenon DEF Choose, Waiting
<1>3. CASE ReadMax(a)
  <2>1. index[a] \in Machines /\ number[index[a]] \in Nat /\ max_num[a] \in Nat
    BY <1>3, Zenon DEF ReadMax
  <2>2. /\ index[a] + 1 \in 0 .. NUM_CLIENTS
        /\ index[a] + 1 < NUM_CLIENTS => index[a] + 1 \in Machines
    BY <2>1, NextMachine, Zenon
  <2>3. index' \in [Threads -> 0 .. NUM_CLIENTS] /\ max_num' \in [Threads -> Nat]
    BY <1>3, <2>1, <2>2, Zenon DEF ReadMax
  <2>4. pc' \in [Threads -> PCs]
    BY <1>0, <1>3, Zenon DEF ReadMax
  <2>5. \A t \in Threads : pc'[t] \in Waiting \cup {"max"} => index'[t] \in Machines
    BY <1>3, <2>2, Zenon DEF ReadMax, Waiting
  <2> QED
    BY <1>3, <2>3, <2>4, <2>5, Zenon DEF ReadMax
<1>4. CASE TakeNumber(a)
  <2>1. max_num[a] + 1 \in Nat
    OBVIOUS
  <2> QED
    BY <1>0, <1>4, <2>1, Zenon DEF TakeNumber, Waiting
<1>5. CASE Chosen(a)
  BY <1>0, <1>5, Zenon DEF Chosen, Waiting
<1>6. CASE AwaitChosen(a)
  BY <1>0, <1>6, Zenon DEF AwaitChosen, Waiting
<1>7. ASSUME NEW from \in {"zero", "equal"}, Advance(a, from),
             UNCHANGED <<local_lock, choosing, number, pending, max_num, calls>>
      PROVE TypeOK'
  <2>1. /\ index[a] + 1 \in 0 .. NUM_CLIENTS
        /\ index[a] + 1 < NUM_CLIENTS => index[a] + 1 \in Machines
    <3>1. index[a] \in Machines
      BY <1>7, Zenon DEF Advance, Waiting
    <3> QED
      BY <3>1, NextMachine, Zenon
  <2>2. index' \in [Threads -> 0 .. NUM_CLIENTS]
    BY <1>7, <2>1, Zenon DEF Advance
  <2>3. pc' \in [Threads -> PCs]
    BY <1>0, <1>7, Zenon DEF Advance, Waiting
  <2>4. \A t \in Threads : pc'[t] \in Waiting \cup {"max"} => index'[t] \in Machines
    BY <1>7, <2>1, Zenon DEF Advance, Waiting
  <2> QED
    BY <1>7, <2>2, <2>3, <2>4, Zenon
<1>8. CASE CompareZero(a)
  <2>1. CASE Repeat(a, "zero", "less")
    BY <1>0, <1>8, <2>1, Zenon DEF CompareZero, Repeat, Waiting
  <2> QED
    BY <1>7, <1>8, <2>1, Zenon DEF CompareZero
<1>9. CASE CompareLess(a)
  BY <1>0, <1>9, Zenon DEF CompareLess, Repeat, Waiting
<1>10. CASE CompareEqual(a)
  <2>1. CASE Repeat(a, "equal", "zero")
    BY <1>0, <1>10, <2>1, Zenon DEF CompareEqual, Repeat, Waiting
  <2> QED
    BY <1>7, <1>10, <2>1, Zenon DEF CompareEqual
<1>11. CASE UnlockSoft(a)
  BY <1>0, <1>11, Zenon DEF UnlockSoft, Waiting
<1>12. CASE UnlockLocal(a)
  BY <1>0, <1>12, Zenon DEF UnlockLocal, Waiting
<1>13. CASE Drain(a)
  BY <1>0, <1>13, SMTT(30) DEF Drain
<1> QED
  BY <1>1, <1>2, <1>3, <1>4, <1>5, <1>6, <1>8, <1>9, <1>10, <1>11, <1>12, <1>13, Zenon
     DEF Step, Continue

\* A step of one thread leaves the locals of the others alone, and the flag
\* and number of a machine where another thread is inside.
LEMMA Bystander ==
    ASSUME IInv, NEW a \in Threads, Step(a), NEW v \in Threads, v # a
    PROVE /\ pc'[v] = pc[v] /\ index'[v] = index[v]
          /\ max_num'[v] = max_num[v] /\ pending'[v] = pending[v]
          /\ Inside(v) => /\ number'[MachineOf[v]] = number[MachineOf[v]]
                          /\ choosing'[MachineOf[v]] = choosing[MachineOf[v]]
<1>1. TypeOK /\ MachineOf[a] \in Machines /\ MachineOf[v] \in Machines
  BY MachineAssumption DEF IInv
<1>2. CASE LockLocal(a) \/ Continue(a)
  BY <1>1, <1>2, Zenon DEF LockLocal, Continue, Choose, ReadMax, TakeNumber, Chosen, AwaitChosen,
     CompareZero, CompareLess, CompareEqual, UnlockSoft, UnlockLocal, Advance, Repeat,
     Goto, WRITE_NT_32, TypeOK
<1>3. CASE Drain(a)
  <2>1. Inside(a)
    <3>1. pending[a] # Drained
      BY <1>3 DEF Drain, Drained, Store
    <3>2. pc[a] = "idle" => pending[a] = Drained
      BY Zenon DEF IInv, StoreInv
    <3> QED
      BY <3>1, <3>2 DEF Inside
  <2>2. Inside(v) => MachineOf[a] # MachineOf[v]
    BY <2>1 DEF IInv, LocalInv
  <2> QED
    BY <1>1, <1>3, <2>2, Zenon DEF Drain, TypeOK
<1> QED
  BY <1>2, <1>3, Zenon DEF Step

\* A step keeps what a thread's stores have made of its machine.
LEMMA StoreStep ==
    ASSUME IInv, NEW a \in Threads, Step(a), NEW v \in Threads
    PROVE StoreInv(v)'
<1>0. /\ TypeOK /\ StoreInv(a) /\ StoreInv(v)
      /\ MachineOf[a] \in Machines
      /\ max_num[a] \in Nat /\ max_num[a] + 1 # 0
  BY MachineAssumption DEF IInv, TypeOK
<1>1. CASE v # a
  <2>1. /\ pc'[v] = pc[v] /\ index'[v] = index[v]
        /\ max_num'[v] = max_num[v] /\ pending'[v] = pending[v]
        /\ Inside(v) => /\ number'[MachineOf[v]] = number[MachineOf[v]]
                        /\ choosing'[MachineOf[v]] = choosing[MachineOf[v]]
    BY <1>1, Bystander, Zenon
  <2>2. CASE Inside(v)
    BY <1>0, <2>1, <2>2, Zenon DEF StoreInv
  <2>3. CASE ~Inside(v)
    BY <1>0, <2>1, <2>3, Zenon DEF StoreInv, Inside, Waiting
  <2> QED
    BY <2>2, <2>3
<1> USE DEF Goto, WRITE_NT_32, Waiting, memory_fence
<1>2. ASSUME LockLocal(a) PROVE StoreInv(a)'
  <2>1. pc[a] = "idle" /\ number[MachineOf[a]] = 0 /\ choosing[MachineOf[a]] = 0
    BY <1>0, <1>2, Zenon DEF LockLocal, IInv, LocalInv
  <2> QED
    BY <1>0, <1>2, <2>1, Zenon DEF LockLocal, StoreInv, TypeOK
<1>3. ASSUME Choose(a) PROVE StoreInv(a)'
  BY <1>0, <1>3, Zenon DEF Choose, StoreInv, TypeOK
<1>4. ASSUME ReadMax(a) PROVE StoreInv(a)'
  <2>1. /\ pc[a] = "max" /\ pending[a] = Drained /\ pending' = pending
        /\ pc'[a] \in {"max", "take"} /\ number' = number /\ choosing' = choosing
    BY <1>0, <1>4, Zenon DEF ReadMax, TypeOK
  <2>2. Drained # Store("choosing", 1)
    BY DEF Drained, Store
  <2> QED
    BY <1>0, <2>1, <2>2, Zenon DEF StoreInv
<1>5. ASSUME TakeNumber(a) PROVE StoreInv(a)'
  BY <1>0, <1>5, Zenon DEF TakeNumber, StoreInv, TypeOK
<1>6. ASSUME Chosen(a) PROVE StoreInv(a)'
  <2>1. Drained # Store("number", max_num[a] + 1)
    BY DEF Drained, Store
  <2> QED
    BY <1>0, <1>6, <2>1, Zenon DEF Chosen, StoreInv, TypeOK
<1>7. ASSUME AwaitChosen(a) PROVE StoreInv(a)'
  BY <1>0, <1>7, Zenon DEF AwaitChosen, StoreInv, TypeOK
<1>8. ASSUME pc[a] \in {"zero", "less", "equal"}, pc[a] = "zero" => pending[a] = Drained,
             pc'[a] \in Waiting \cup {"cs"},
             UNCHANGED <<number, choosing, pending, max_num>>
      PROVE StoreInv(a)'
  <2>1. Drained # Store("choosing", 0)
    BY DEF Drained, Store
  <2>2. pending[a] = Drained /\ choosing[MachineOf[a]] = 0 /\ number[MachineOf[a]] = max_num[a] + 1
    BY <1>0, <1>8, <2>1, Zenon DEF StoreInv
  <2> QED
    BY <1>8, <2>2, Zenon DEF StoreInv
<1>9. ASSUME CompareZero(a) PROVE StoreInv(a)'
  BY <1>0, <1>8, <1>9, Zenon DEF CompareZero, Advance, Repeat, TypeOK
<1>10. ASSUME CompareLess(a) PROVE StoreInv(a)'
  BY <1>0, <1>8, <1>10, Zenon DEF CompareLess, Repeat, TypeOK
<1>11. ASSUME CompareEqual(a) PROVE StoreInv(a)'
  BY <1>0, <1>8, <1>11, Zenon DEF CompareEqual, Advance, Repeat, TypeOK
<1>12. ASSUME UnlockSoft(a) PROVE StoreInv(a)'
  BY <1>0, <1>12, Zenon DEF UnlockSoft, StoreInv, TypeOK
<1>13. ASSUME UnlockLocal(a) PROVE StoreInv(a)'
  BY <1>0, <1>13, Zenon DEF UnlockLocal, StoreInv, TypeOK
<1>14. ASSUME Drain(a) PROVE StoreInv(a)'
  <2>1. /\ pc' = pc /\ index' = index /\ max_num' = max_num /\ pending'[a] = Drained
    BY <1>0, <1>14, Zenon DEF Drain, TypeOK
  <2>2. CASE pending[a].array = "choosing"
    <3>1. /\ number' = number /\ choosing'[MachineOf[a]] = pending[a].value
          /\ \A n : pending[a] # Store("number", n)
          /\ pending[a] # Drained
      BY <1>0, <1>14, <2>2 DEF Drain, TypeOK, Store, Drained
    <3>2. \A n : pending[a] = Store("choosing", n) => pending[a].value = n
      BY DEF Store
    <3> QED
      BY <1>0, <2>1, <3>1, <3>2, Zenon DEF StoreInv
  <2>3. CASE pending[a].array = "number"
    <3>1. /\ choosing' = choosing /\ number'[MachineOf[a]] = pending[a].value
          /\ \A n : pending[a] # Store("choosing", n)
          /\ pending[a] # Drained
      BY <1>0, <1>14, <2>3 DEF Drain, TypeOK, Store, Drained
    <3>2. \A n : pending[a] = Store("number", n) => pending[a].value = n
      BY DEF Store
    <3> QED
      BY <1>0, <2>1, <3>1, <3>2, Zenon DEF StoreInv
  <2> QED
    BY <1>14, <2>2, <2>3, Zenon DEF Drain
<1>15. StoreInv(a)'
  BY <1>2, <1>3, <1>4, <1>5, <1>6, <1>7, <1>9, <1>10, <1>11, <1>12, <1>13, <1>14, Zenon
     DEF Step, Continue
<1> QED
  BY <1>1, <1>15

\* A step keeps each machine's mutex and its place in the bakery in agreement.
LEMMA LocalStep ==
    ASSUME IInv, NEW a \in Threads, Step(a)
    PROVE LocalInv'
<1>0. /\ TypeOK /\ StoreInv(a) /\ LocalInv /\ MachineOf[a] \in Machines
      /\ \A v \in Threads : v # a => pc'[v] = pc[v]
  BY MachineAssumption, Bystander, Zenon DEF IInv
<1> USE DEF Goto
<1>1. CASE LockLocal(a)
  <2>1. /\ pc[a] = "idle" /\ pc'[a] = "choose" /\ MachineOf[a] \notin local_lock
        /\ local_lock' = local_lock \cup {MachineOf[a]}
        /\ UNCHANGED <<number, choosing>>
    BY <1>0, <1>1, Zenon DEF LockLocal, TypeOK
  <2> QED
    BY <1>0, <2>1 DEF LocalInv, Inside
<1>2. CASE UnlockLocal(a)
  <2>1. /\ pc[a] = "release" /\ pc'[a] = "idle" /\ pending[a] = Drained
        /\ local_lock' = local_lock \ {MachineOf[a]}
        /\ UNCHANGED <<number, choosing>>
    BY <1>0, <1>2, Zenon DEF UnlockLocal, TypeOK, memory_fence
  <2>2. number[MachineOf[a]] = 0 /\ choosing[MachineOf[a]] = 0
    <3>1. Drained # Store("number", 0)
      BY DEF Drained, Store
    <3> QED
      BY <1>0, <2>1, <3>1, Zenon DEF StoreInv
  <2> QED
    BY <1>0, <2>1, <2>2 DEF LocalInv, Inside
<1>3. CASE Drain(a)
  <2>1. pc' = pc /\ local_lock' = local_lock /\ pending[a] # Drained
    BY <1>3 DEF Drain, Drained, Store
  <2>2. MachineOf[a] \in local_lock
    BY <1>0, <2>1, Zenon DEF StoreInv, LocalInv, Inside
  <2>3. \A m \in Machines : m # MachineOf[a] =>
            number'[m] = number[m] /\ choosing'[m] = choosing[m]
    BY <1>0, <1>3, Zenon DEF Drain, TypeOK
  <2> QED
    BY <1>0, <2>1, <2>2, <2>3 DEF LocalInv, Inside
<1>4. CASE Continue(a) /\ ~UnlockLocal(a)
  <2>1. /\ pc[a] # "idle" /\ pc'[a] # "idle"
        /\ UNCHANGED <<local_lock, number, choosing>>
    BY <1>0, <1>4, Zenon DEF Continue, Choose, ReadMax, TakeNumber, Chosen, AwaitChosen,
       CompareZero, CompareLess, CompareEqual, UnlockSoft, Advance, Repeat, TypeOK
  <2> QED
    BY <1>0, <2>1 DEF LocalInv, Inside
<1> QED
  BY <1>1, <1>2, <1>3, <1>4 DEF Step

\* A thread that chooses while t has its number reads t's number, or has yet to:
\* the number it takes is behind t's.
LEMMA StillBehind ==
    ASSUME IInv, NEW t \in Threads, NEW u \in Threads, Step(u),
           MachineOf[t] # MachineOf[u],
           pc[t] \in Waiting \cup {"cs"}, ChoosesBehind(u, t)
    PROVE /\ ChoosesBehind(u, t)'
          /\ (HasNumber(u) => Before(t, u)) => (HasNumber(u) => Before(t, u))'
          /\ (HasNumber(u) => max_num[t] <= max_num[u])
                => (HasNumber(u) => max_num[t] <= max_num[u])'
<1>0. /\ TypeOK /\ StoreInv(t) /\ t # u
      /\ MachineOf[t] \in Machines /\ MachineOf[u] \in Machines
      /\ MachineOf[t] \in Nat /\ MachineOf[u] \in Nat
      /\ max_num[t] \in Nat /\ max_num[u] \in Nat
      /\ max_num'[t] = max_num[t]
  <2>1. TypeOK /\ StoreInv(t) /\ t # u
    BY DEF IInv
  <2>2. MachineOf[t] \in Machines /\ MachineOf[u] \in Machines
    BY MachineAssumption
  <2>3. MachineOf[t] \in Nat /\ MachineOf[u] \in Nat
    BY <2>2, ClientsAssumption DEF Machines
  <2>4. max_num[t] \in Nat /\ max_num[u] \in Nat
    BY <2>1, Zenon DEF TypeOK
  <2>5. max_num'[t] = max_num[t]
    BY <2>1, Bystander, Zenon
  <2> QED
    BY <2>1, <2>2, <2>3, <2>4, <2>5, Zenon
<1>1. number[MachineOf[t]] = max_num[t] + 1
  BY <1>0, Zenon DEF StoreInv
<1> USE DEF Goto, WRITE_NT_32
<1>2. MachineOf[t] \in Nat /\ max_num[t] \in Nat
  BY <1>0, Zenon
<1>3. pc'[u] \notin {"max", "take", "chosen"} => ChoosesBehind(u, t)'
  BY Zenon DEF ChoosesBehind
<1>4. (Before(t, u))' <=> \/ max_num[t] < max_num'[u]
                          \/ max_num[t] = max_num'[u] /\ MachineOf[t] < MachineOf[u]
  BY <1>0, Zenon DEF Before
<1>5. max_num'[u] = max_num[u] => (Before(t, u)' <=> Before(t, u))
  BY <1>4, Zenon DEF Before
<1>6. CASE LockLocal(u) \/ UnlockLocal(u)
  <2>1. pc'[u] \in {"choose", "idle"}
    BY <1>0, <1>6, Zenon DEF LockLocal, UnlockLocal, TypeOK
  <2> QED
    BY <1>3, <2>1, Zenon DEF HasNumber, Waiting
<1>7. CASE Choose(u)
  <2>1. pc'[u] = "max" /\ index'[u] = 0
    BY <1>0, <1>7, Zenon DEF Choose, TypeOK
  <2>2. 0 <= MachineOf[t]
    BY <1>2
  <2> QED
    BY <2>1, <2>2, Zenon DEF HasNumber, Waiting, ChoosesBehind
<1>8. CASE ReadMax(u)
  <2>1. /\ pc[u] = "max" /\ index[u] \in Machines /\ index'[u] = index[u] + 1
        /\ pc'[u] = IF index[u] + 1 < NUM_CLIENTS THEN "max" ELSE "take"
        /\ number[index[u]] \in Nat
        /\ max_num'[u] = IF number[index[u]] > max_num[u] THEN number[index[u]]
                                                          ELSE max_num[u]
    BY <1>0, <1>8, Zenon DEF ReadMax, TypeOK, Machines
  <2>2. max_num'[u] \in Nat /\ max_num'[u] >= max_num[u] /\ index[u] \in Nat
    BY <1>0, <2>1 DEF Machines
  <2>3. index'[u] <= MachineOf[t] \/ max_num'[u] > max_num[t]
    <3>1. CASE index[u] = MachineOf[t]
      BY <1>1, <1>2, <2>1, <2>2, <3>1
    <3>2. CASE index[u] < MachineOf[t]
      BY <1>2, <2>1, <2>2, <3>2
    <3>3. CASE max_num[u] > max_num[t]
      BY <1>0, <2>2, <3>3
    <3>4. index[u] <= MachineOf[t] \/ max_num[u] > max_num[t]
      BY <2>1, Zenon DEF ChoosesBehind
    <3> QED
      BY <1>0, <2>2, <3>1, <3>2, <3>3, <3>4
  <2>4. pc'[u] = "take" => max_num[t] < max_num'[u]
    <3>1. pc'[u] = "take" => MachineOf[t] < index'[u]
      BY <1>0, <2>1, NextMachine
    <3> QED
      BY <1>0, <2>1, <2>2, <2>3, <3>1
  <2>5. pc'[u] \in {"max", "take"}
    BY <2>1, Zenon
  <2>6. ChoosesBehind(u, t)'
    BY <1>0, <1>4, <2>3, <2>4, <2>5, Zenon DEF ChoosesBehind
  <2> QED
    BY <2>5, <2>6, Zenon DEF HasNumber, Waiting
<1>9. CASE TakeNumber(u)
  <2>1. pc[u] = "take" /\ pc'[u] = "chosen" /\ max_num'[u] = max_num[u]
    BY <1>0, <1>9, Zenon DEF TakeNumber, TypeOK
  <2> QED
    BY <1>5, <2>1, Zenon DEF HasNumber, Waiting, ChoosesBehind
<1>10. CASE Chosen(u)
  <2>1. pc[u] = "chosen" /\ pc'[u] = "choosing" /\ max_num'[u] = max_num[u]
    BY <1>0, <1>10, Zenon DEF Chosen, TypeOK
  <2>2. Before(t, u) /\ Before(t, u)' /\ ChoosesBehind(u, t)'
    BY <1>5, <2>1, Zenon DEF ChoosesBehind
  <2>3. max_num[t] <= max_num[u]
    BY <1>0, <2>2 DEF Before
  <2> QED
    BY <1>0, <2>1, <2>2, <2>3, Zenon
<1>11. CASE AwaitChosen(u) \/ CompareZero(u) \/ CompareLess(u) \/ CompareEqual(u)
  <2>1. /\ pc[u] \in Waiting /\ pc'[u] \in Waiting \cup {"cs"}
        /\ max_num'[u] = max_num[u]
    BY <1>0, <1>11, Zenon DEF AwaitChosen, CompareZero, CompareLess, CompareEqual, Advance,
       Repeat, TypeOK, Waiting
  <2>2. pc'[u] \notin {"max", "take", "chosen"} /\ HasNumber(u)
    BY <2>1 DEF Waiting, HasNumber
  <2> QED
    BY <1>0, <1>3, <1>5, <2>1, <2>2, Zenon
<1>12. CASE UnlockSoft(u)
  <2>1. pc[u] = "cs" /\ pc'[u] = "release" /\ max_num'[u] = max_num[u]
    BY <1>0, <1>12, Zenon DEF UnlockSoft, TypeOK
  <2>2. pc'[u] \notin {"max", "take", "chosen"} /\ HasNumber(u)
    BY <2>1 DEF HasNumber
  <2> QED
    BY <1>0, <1>3, <1>5, <2>1, <2>2, Zenon
<1>13. CASE Drain(u)
  <2>1. /\ pc'[u] = pc[u] /\ max_num'[u] = max_num[u] /\ index'[u] = index[u]
        /\ pending'[u] = Drained
    BY <1>0, <1>13, Zenon DEF Drain, TypeOK
  <2>2. HasNumber(u)' => HasNumber(u)
    BY <2>1 DEF HasNumber
  <2>3. ChoosesBehind(u, t)'
    BY <1>0, <1>5, <2>1, Zenon DEF ChoosesBehind
  <2> QED
    BY <1>0, <1>5, <2>1, <2>2, <2>3, Zenon
<1> QED
  BY <1>6, <1>7, <1>8, <1>9, <1>10, <1>11, <1>12, <1>13, Zenon DEF Step, Continue

\* A step keeps the order of the bakery between two threads.
LEMMA BakeryStep ==
    ASSUME IInv, NEW a \in Threads, Step(a), NEW t \in Threads, NEW u \in Threads
    PROVE BakeryInv(t, u)'
<1> SUFFICES ASSUME MachineOf[t] # MachineOf[u] PROVE BakeryInv(t, u)'
  BY Zenon DEF BakeryInv
<1>0. /\ TypeOK /\ StoreInv(t) /\ StoreInv(u) /\ t # u /\ BakeryInv(t, u)
  BY DEF IInv
<1>n. /\ MachineOf[t] \in Machines /\ MachineOf[u] \in Machines
      /\ MachineOf[t] \in Nat /\ MachineOf[u] \in Nat
  BY MachineAssumption, ClientsAssumption DEF Machines
<1>m. max_num[t] \in Nat /\ max_num[u] \in Nat
  BY <1>0, Zenon DEF TypeOK
<1>b. \A v \in Threads : v # a =>
        /\ pc'[v] = pc[v] /\ index'[v] = index[v]
        /\ max_num'[v] = max_num[v] /\ pending'[v] = pending[v]
  BY Bystander
<1>1. CASE a # t /\ a # u
  BY <1>0, <1>1, <1>b, Zenon DEF BakeryInv, Behind, ChoosesBehind, HasNumber, Before
<1>2. CASE a = u
  <2>1. pc'[t] = pc[t] /\ index'[t] = index[t]
    BY <1>0, <1>2, <1>b
  <2>2. CASE pc[t] \notin Waiting \cup {"cs"}
    BY <2>1, <2>2, Zenon DEF BakeryInv, Waiting
  <2>3. CASE pc[t] \in Waiting \cup {"cs"} /\ ~ChoosesBehind(u, t)
    <3>1. /\ ~(pc[t] = "cs" \/ (pc[t] \in Waiting /\ MachineOf[u] < index[t]))
          /\ ~(pc[t] \in {"zero", "less", "equal"} /\ index[t] = MachineOf[u])
      BY <1>0, <2>3, Zenon DEF BakeryInv, Behind
    <3> QED
      BY <2>1, <3>1, Zenon DEF BakeryInv
  <2>4. CASE pc[t] \in Waiting \cup {"cs"} /\ ChoosesBehind(u, t)
    <3>1. /\ ChoosesBehind(u, t)'
          /\ (HasNumber(u) => Before(t, u)) => (HasNumber(u) => Before(t, u))'
          /\ (HasNumber(u) => max_num[t] <= max_num[u])
                => (HasNumber(u) => max_num[t] <= max_num[u])'
      BY <1>2, <2>4, StillBehind, Zenon
    <3> QED
      BY <1>0, <2>1, <3>1, Zenon DEF BakeryInv, Behind
  <2> QED
    BY <2>2, <2>3, <2>4
<1>3. CASE a = t
  <2>u. /\ pc'[u] = pc[u] /\ index'[u] = index[u]
        /\ max_num'[u] = max_num[u] /\ pending'[u] = pending[u]
    BY <1>0, <1>3, <1>b, Zenon
  <2>v. max_num'[t] = max_num[t] =>
            /\ ChoosesBehind(u, t)' <=> ChoosesBehind(u, t)
            /\ HasNumber(u)' <=> HasNumber(u)
            /\ Before(t, u)' <=> Before(t, u)
    BY <2>u, Zenon DEF ChoosesBehind, HasNumber, Before
  <2>h. HasNumber(u) => number[MachineOf[u]] = max_num[u] + 1
    <3>1. ASSUME pc[u] = "release", pending[u] # Drained
          PROVE number[MachineOf[u]] = max_num[u] + 1
      BY <1>0, <3>1, Zenon DEF StoreInv
    <3> QED
      BY <1>0, <3>1, Zenon DEF StoreInv, HasNumber
  <2>i. pc[t] \in Waiting => index[t] \in Machines /\ index[t] \in Nat
    BY <1>0, ClientsAssumption DEF TypeOK, Machines
  <2> USE DEF Goto
  <2>1. CASE \/ LockLocal(t) \/ Choose(t) \/ ReadMax(t) \/ TakeNumber(t)
             \/ UnlockSoft(t) \/ UnlockLocal(t)
    <3>1. pc'[t] \notin Waiting \cup {"cs"}
      BY <1>0, <2>1, Zenon DEF LockLocal, Choose, ReadMax, TakeNumber, UnlockSoft, UnlockLocal,
         Waiting, TypeOK
    <3> QED
      BY <3>1, Zenon DEF BakeryInv, Waiting
  <2>2. CASE Chosen(t)
    <3>1. pc'[t] = "choosing" /\ index'[t] = 0
      BY <1>0, <2>2, Zenon DEF Chosen, TypeOK
    <3>2. ~(MachineOf[u] < 0)
      BY <1>n
    <3> QED
      BY <3>1, <3>2, Zenon DEF BakeryInv
  <2>3. CASE AwaitChosen(t)
    <3>1. /\ pc[t] = "choosing" /\ pc'[t] = "zero" /\ index'[t] = index[t]
          /\ max_num'[t] = max_num[t] /\ choosing[index[t]] = 0
      BY <1>0, <2>3, Zenon DEF AwaitChosen, TypeOK
    <3>2. ASSUME choosing[MachineOf[u]] = 0 PROVE ChoosesBehind(u, t)
      <4>1. pc[u] = "max" => index[u] = 0
        <5>1. pc[u] = "max" => index[u] = 0 \/ choosing[MachineOf[u]] = 1
          BY <1>0, Zenon DEF StoreInv
        <5> QED
          BY <3>2, <5>1
      <4>2. pc[u] \notin {"take", "chosen"}
        <5>1. pc[u] \in {"take", "chosen"} => choosing[MachineOf[u]] = 1
          BY <1>0, Zenon DEF StoreInv
        <5> QED
          BY <3>2, <5>1
      <4>3. 0 <= MachineOf[t]
        BY <1>n
      <4> QED
        BY <4>1, <4>2, <4>3 DEF ChoosesBehind
    <3>3. MachineOf[u] < index[t] => Behind(u, t)
      BY <1>0, <3>1, Zenon DEF BakeryInv, Waiting
    <3> QED
      BY <2>v, <3>1, <3>2, <3>3, Zenon DEF BakeryInv, Behind
  <2>4. ASSUME pc[t] \in {"zero", "less", "equal"},
               pc'[t] \in {"zero", "less"}, index'[t] = index[t], max_num'[t] = max_num[t]
        PROVE BakeryInv(t, u)'
    <3>1. /\ MachineOf[u] < index[t] => Behind(u, t)
          /\ index[t] = MachineOf[u] => ChoosesBehind(u, t)
      BY <1>0, <2>4, Zenon DEF BakeryInv, Waiting
    <3> QED
      BY <2>v, <2>4, <3>1, Zenon DEF BakeryInv, Behind
  <2>5. ASSUME pc[t] \in {"zero", "less", "equal"},
               pc'[t] = IF index[t] + 1 < NUM_CLIENTS THEN "choosing" ELSE "cs",
               index'[t] = index[t] + 1, max_num'[t] = max_num[t],
               index[t] = MachineOf[u] /\ HasNumber(u) => Before(t, u)
        PROVE BakeryInv(t, u)'
    <3>1. /\ MachineOf[u] < index[t] => Behind(u, t)
          /\ index[t] = MachineOf[u] => Behind(u, t)
      BY <1>0, <2>5, Zenon DEF BakeryInv, Behind, Waiting
    <3>2. /\ MachineOf[u] < index'[t] => MachineOf[u] < index[t] \/ MachineOf[u] = index[t]
          /\ pc'[t] = "cs" => MachineOf[u] < index'[t]
          /\ pc'[t] \in {"choosing", "cs"}
      BY <1>n, <2>5, <2>i, NextMachine DEF Waiting
    <3> QED
      BY <2>v, <2>5, <3>1, <3>2, Zenon DEF BakeryInv, Behind
  <2>6. CASE CompareZero(t)
    <3>1. /\ pc[t] = "zero" /\ max_num'[t] = max_num[t]
          /\ \/ number[index[t]] # 0 /\ pc'[t] = "less" /\ index'[t] = index[t]
             \/ /\ number[index[t]] = 0 /\ index'[t] = index[t] + 1
                /\ pc'[t] = IF index[t] + 1 < NUM_CLIENTS THEN "choosing" ELSE "cs"
      BY <1>0, <2>6, Zenon DEF CompareZero, Advance, Repeat, TypeOK
    <3>2. number[index[t]] = 0 => (index[t] = MachineOf[u] => ~HasNumber(u))
      BY <1>m, <2>h
    <3> QED
      BY <2>4, <2>5, <3>1, <3>2, Zenon
  <2>7. CASE CompareLess(t)
    <3>1. /\ pc[t] = "less" /\ max_num'[t] = max_num[t] /\ index'[t] = index[t]
          /\ pc'[t] = IF number[index[t]] < number[MachineOf[t]] THEN "zero" ELSE "equal"
      BY <1>0, <2>7, Zenon DEF CompareLess, Repeat, TypeOK
    <3>2. CASE number[index[t]] < number[MachineOf[t]]
      BY <2>4, <3>1, <3>2, Zenon
    <3>3. CASE ~(number[index[t]] < number[MachineOf[t]])
      <4>1. number[MachineOf[t]] = max_num[t] + 1
        BY <1>0, <3>1, Zenon DEF StoreInv, Waiting
      <4>2. index[t] = MachineOf[u] /\ HasNumber(u) => max_num[t] <= max_num[u]
        BY <1>m, <2>h, <3>3, <4>1
      <4>3. /\ MachineOf[u] < index[t] => Behind(u, t)
            /\ index[t] = MachineOf[u] => ChoosesBehind(u, t)
        BY <1>0, <3>1, Zenon DEF BakeryInv, Waiting
      <4> QED
        BY <2>u, <2>v, <3>1, <3>3, <4>2, <4>3, Zenon DEF BakeryInv, Behind
    <3> QED
      BY <3>2, <3>3
  <2>8. CASE CompareEqual(t)
    <3>1. /\ pc[t] = "equal" /\ max_num'[t] = max_num[t]
          /\ \/ pc'[t] = "zero" /\ index'[t] = index[t]
             \/ /\ ~(number[index[t]] = number[MachineOf[t]] /\ index[t] < MachineOf[t])
                /\ index'[t] = index[t] + 1
                /\ pc'[t] = IF index[t] + 1 < NUM_CLIENTS THEN "choosing" ELSE "cs"
      BY <1>0, <2>8, Zenon DEF CompareEqual, Advance, Repeat, TypeOK
    <3>2. ASSUME ~(number[index[t]] = number[MachineOf[t]] /\ index[t] < MachineOf[t]),
                 index[t] = MachineOf[u], HasNumber(u)
          PROVE Before(t, u)
      <4>1. number[MachineOf[t]] = max_num[t] + 1 /\ max_num[t] <= max_num[u]
        BY <1>0, <3>1, <3>2, Zenon DEF StoreInv, BakeryInv, Waiting
      <4>2. ~(max_num[t] = max_num[u] /\ MachineOf[u] < MachineOf[t])
        BY <1>m, <2>h, <3>2, <4>1, Zenon
      <4> QED
        BY <1>m, <1>n, <4>1, <4>2 DEF Before
    <3> QED
      BY <2>4, <2>5, <3>1, <3>2, Zenon
  <2>9. CASE Drain(t)
    <3>1. pc'[t] = pc[t] /\ max_num'[t] = max_num[t] /\ index'[t] = index[t]
      BY <2>9, Zenon DEF Drain
    <3> QED
      BY <1>0, <2>u, <2>v, <3>1, Zenon DEF BakeryInv, Behind
  <2> QED
    BY <1>3, <2>1, <2>2, <2>3, <2>6, <2>7, <2>8, <2>9, Zenon DEF Step, Continue
<1> QED
  BY <1>1, <1>2, <1>3

\* The inductive invariant holds in every state of every execution.
THEOREM Invariance == Spec => []IInv
<1>1. IInv /\ [Next]_vars => IInv'
  <2> SUFFICES ASSUME IInv, [Next]_vars PROVE IInv'
    OBVIOUS
  <2>1. CASE Next
    <3>1. PICK a \in Threads : Step(a)
      BY <2>1 DEF Next, Step
    <3>2. TypeOK'
      BY <3>1, TypeStep DEF IInv
    <3>3. LocalInv' /\ (\A t \in Threads : StoreInv(t)')
      BY <3>1, LocalStep, StoreStep
    <3>4. \A t, u \in Threads : BakeryInv(t, u)'
      BY <3>1, BakeryStep
    <3> QED
      BY <3>2, <3>3, <3>4 DEF IInv
  <2>2. CASE UNCHANGED vars
    <3>1. TypeOK' /\ LocalInv'
      BY <2>2, Zenon DEF vars, IInv, TypeOK, LocalInv, Inside
    <3>2. ASSUME NEW t \in Threads PROVE StoreInv(t)'
      <4>1. StoreInv(t)
        BY DEF IInv
      <4> QED
        BY <2>2, <4>1, Zenon DEF vars, StoreInv
    <3>3. ASSUME NEW t \in Threads, NEW u \in Threads PROVE BakeryInv(t, u)'
      <4>1. BakeryInv(t, u)
        BY DEF IInv
      <4> QED
        BY <2>2, <4>1, Zenon DEF vars, BakeryInv, Behind, ChoosesBehind, HasNumber, Before
    <3> QED
      BY <3>1, <3>2, <3>3 DEF IInv
  <2> QED
    BY <2>1, <2>2
<1> QED
  BY <1>1, InitIInv, PTL DEF Spec

\* TypeOK: the loops of shm_lock_cross_machine_bypass_cache stay within the
\* arrays.
THEOREM TypeCorrect == Spec => []TypeOK
<1>1. IInv => TypeOK
  BY DEF IInv
<1> QED
  BY <1>1, Invariance, PTL

\* MutualExclusion: lock() admits one thread of all machines at a time, however
\* late its non-temporal stores drain.
THEOREM Exclusion == Spec => []MutualExclusion
<1>1. IInv => MutualExclusion
  <2> SUFFICES ASSUME IInv, NEW t \in Threads, NEW u \in Threads,
                      pc[t] = "cs", pc[u] = "cs"
               PROVE t = u
    BY DEF MutualExclusion
  <2>1. CASE MachineOf[t] = MachineOf[u]
    BY <2>1 DEF IInv, LocalInv, Inside
  <2>2. CASE MachineOf[t] # MachineOf[u]
    <3>1. Behind(u, t) /\ Behind(t, u)
      BY <2>2, Zenon DEF IInv, BakeryInv
    <3>2. Before(t, u) /\ Before(u, t)
      BY <3>1 DEF Behind, HasNumber
    <3>3. max_num[t] \in Nat /\ max_num[u] \in Nat
      BY DEF IInv, TypeOK
    <3>4. MachineOf[t] \in Nat /\ MachineOf[u] \in Nat
      BY MachineAssumption, ClientsAssumption DEF Machines
    <3> QED
      BY <3>2, <3>3, <3>4 DEF Before
  <2> QED
    BY <2>1, <2>2
<1> QED
  BY <1>1, Invariance, PTL

\* HolderIsFirst: the thread in the critical section has the least number.
THEOREM FirstServed == Spec => []HolderIsFirst
<1>1. IInv => HolderIsFirst
  <2> SUFFICES ASSUME IInv, NEW t \in Threads, NEW m \in Machines,
                      pc[t] = "cs", m # MachineOf[t], number[m] # 0
               PROVE Precedes(MachineOf[t], m)
    BY DEF HolderIsFirst
  <2>1. PICK u \in Threads : Inside(u) /\ MachineOf[u] = m
    BY Zenon DEF IInv, LocalInv
  <2>2. StoreInv(u) /\ StoreInv(t) /\ TypeOK /\ Behind(u, t)
    BY <2>1, Zenon DEF IInv, BakeryInv
  <2>3. number[m] = max_num[u] + 1 /\ number[MachineOf[t]] = max_num[t] + 1
    <3>1. pc[u] \in PCs \ {"idle"}
      BY <2>1, <2>2, Zenon DEF TypeOK, Inside
    <3> QED
      BY <2>1, <2>2, <3>1, Zenon DEF StoreInv, PCs
  <2>4. Before(t, u)
    <3>1. CASE pc[u] \in {"choose", "max", "take"}
      BY <2>1, <2>2, <3>1, Zenon DEF StoreInv
    <3>2. CASE pc[u] = "chosen"
      BY <2>2, <3>2 DEF Behind, ChoosesBehind
    <3>3. CASE pc[u] \in Waiting \cup {"cs"}
      BY <2>2, <3>3 DEF Behind, HasNumber
    <3>4. CASE pc[u] = "release"
      <4>1. pending[u] # Drained
        <5>1. Drained # Store("number", 0)
          BY DEF Drained, Store
        <5>2. pending[u] = Store("number", 0) \/ number[MachineOf[u]] = 0
          BY <2>2, <3>4, Zenon DEF StoreInv
        <5> QED
          BY <2>1, <5>1, <5>2
      <4> QED
        BY <2>2, <3>4, <4>1 DEF Behind, HasNumber
    <3>5. pc[u] \in PCs \ {"idle"}
      BY <2>1, <2>2, Zenon DEF TypeOK, Inside
    <3> QED
      BY <3>1, <3>2, <3>3, <3>4, <3>5 DEF PCs
  <2>5. max_num[t] \in Nat /\ max_num[u] \in Nat
    BY <2>2, Zenon DEF TypeOK
  <2> QED
    BY <2>1, <2>3, <2>4, <2>5 DEF Before, Precedes
<1> QED
  BY <1>1, Invariance, PTL
=============================================================================
