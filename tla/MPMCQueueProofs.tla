-------------------------- MODULE MPMCQueueProofs ---------------------------
(***************************************************************************)
(* Proofs about MPMCQueue for any threads, machines, capacity and number   *)
(* of positions.                                                           *)
(***************************************************************************)
EXTENDS MPMCQueue, TLAPS

\* A position is determined by its slot and its round.
LEMMA SlotAndRound ==
    ASSUME NEW p \in Nat, NEW q \in Nat
    PROVE /\ idx(p) \in Slots
          /\ turn(p) \in Nat
          /\ idx(p) = idx(q) /\ turn(p) = turn(q) => p = q
<1>1. p = capacity * (p \div capacity) + (p % capacity)
  BY CapacityAssumption
<1>2. q = capacity * (q \div capacity) + (q % capacity)
  BY CapacityAssumption
<1>3. idx(p) \in Slots /\ turn(p) \in Nat
  BY CapacityAssumption DEF idx, turn, Slots
<1>4. ASSUME idx(p) = idx(q), turn(p) = turn(q) PROVE p = q
  BY <1>1, <1>2, <1>4 DEF idx, turn
<1> QED
  BY <1>3, <1>4

\* Positions are handed out once.
ClaimInv ==
    /\ \A t \in Threads : pc[t] \in EnqueuePCs => pos[t] < tail
    /\ \A t \in Threads : pc[t] \in DequeuePCs => pos[t] < head
    /\ \A t, u \in Threads :
          /\ pc[t] \in EnqueuePCs /\ pc[u] \in EnqueuePCs /\ pos[t] = pos[u] => t = u
          /\ pc[t] \in DequeuePCs /\ pc[u] \in DequeuePCs /\ pos[t] = pos[u] => t = u

\* A slot's turn never passes a use of the slot that is still to come, and
\* stands at the use in progress.
TurnInv ==
    /\ \A p \in Nat : p >= tail => turns[idx(p)] <= turn(p) * 2
    /\ \A p \in Nat : p >= head => turns[idx(p)] <= turn(p) * 2 + 1
    /\ \A t \in Threads :
          /\ pc[t] = "e_wait" => turns[idx(pos[t])] <= turn(pos[t]) * 2
          /\ pc[t] \in {"e_write", "e_clwb", "e_publish"} =>
                turns[idx(pos[t])] = turn(pos[t]) * 2
          /\ pc[t] = "d_wait" => turns[idx(pos[t])] <= turn(pos[t]) * 2 + 1
          /\ pc[t] \in {"d_flush", "d_read", "d_release"} =>
                turns[idx(pos[t])] = turn(pos[t]) * 2 + 1
          /\ pc[t] = "t_cas" => turns[idx(pos[t])] >= turn(pos[t]) * 2 + 1

\* A dirty line belongs to an enqueuer between its store and its clwb.
DirtyInv ==
    \A m \in Machines, s \in Slots : <<m, s>> \in dirty =>
        \E t \in Threads : /\ pc[t] = "e_clwb" /\ MachineOf[t] = m
                           /\ idx(pos[t]) = s /\ cache[m][s] = pos[t]

\* Where the value of a thread's item is on its way through cache and memory.
ItemInv(t) ==
    /\ pc[t] = "e_clwb" =>
          \/ /\ cache[MachineOf[t]][idx(pos[t])] = pos[t]
             /\ <<MachineOf[t], idx(pos[t])>> \in dirty
          \/ /\ cache[MachineOf[t]][idx(pos[t])] \in {NotCached, pos[t]}
             /\ memory[idx(pos[t])] = pos[t]
    /\ pc[t] = "e_publish" => memory[idx(pos[t])] = pos[t]
    /\ pc[t] = "d_read" => cache[MachineOf[t]][idx(pos[t])] \in {NotCached, pos[t]}
    /\ pc[t] = "d_release" => item[t] = pos[t]

\* A published item is in memory.
PublishedInv ==
    \A p \in Nat : turns[idx(p)] = turn(p) * 2 + 1 => memory[idx(p)] = p

ValueInv == DirtyInv /\ PublishedInv /\ \A t \in Threads : ItemInv(t)

IInv == TypeOK /\ ClaimInv /\ TurnInv /\ ValueInv

\* The constructor's state satisfies the inductive invariant.
LEMMA InitIInv == Init => IInv
<1> SUFFICES ASSUME Init PROVE IInv
  OBVIOUS
<1> USE CapacityAssumption, MaxPositionAssumption, MachineAssumption DEF Init
<1>1. TypeOK
  BY DEF TypeOK, Positions, Items, NoItem, NotCached
<1>2. ClaimInv
  BY DEF ClaimInv, EnqueuePCs, DequeuePCs
<1>3. TurnInv
  BY SlotAndRound DEF TurnInv
<1>4. ValueInv
  BY SlotAndRound DEF ValueInv, DirtyInv, PublishedInv, ItemInv
<1> QED
  BY <1>1, <1>2, <1>3, <1>4 DEF IInv

\* A slot's value is accessed by one thread at a time.
LEMMA Exclusive == IInv => SlotExclusive
<1> SUFFICES ASSUME IInv, NEW t \in Threads, NEW u \in Threads,
                    Accessing(t), Accessing(u), idx(pos[t]) = idx(pos[u])
             PROVE t = u
  BY DEF SlotExclusive
<1>1. /\ pos[t] \in Nat /\ pos[u] \in Nat
      /\ turn(pos[t]) \in Nat /\ turn(pos[u]) \in Nat
      /\ turn(pos[t]) = turn(pos[u]) => pos[t] = pos[u]
  BY SlotAndRound, MaxPositionAssumption DEF IInv, TypeOK, Positions
<1>2. CASE /\ pc[t] \in {"e_write", "e_clwb", "e_publish"}
           /\ pc[u] \in {"e_write", "e_clwb", "e_publish"}
  BY <1>1, <1>2 DEF IInv, TurnInv, ClaimInv, EnqueuePCs
<1>3. CASE /\ pc[t] \in {"d_flush", "d_read", "d_release"}
           /\ pc[u] \in {"d_flush", "d_read", "d_release"}
  BY <1>1, <1>3 DEF IInv, TurnInv, ClaimInv, DequeuePCs
<1>4. CASE /\ pc[t] \in {"e_write", "e_clwb", "e_publish"}
           /\ pc[u] \in {"d_flush", "d_read", "d_release"}
  BY <1>1, <1>4 DEF IInv, TurnInv
<1>5. CASE /\ pc[t] \in {"d_flush", "d_read", "d_release"}
           /\ pc[u] \in {"e_write", "e_clwb", "e_publish"}
  BY <1>1, <1>5 DEF IInv, TurnInv
<1> QED
  BY <1>2, <1>3, <1>4, <1>5 DEF Accessing

\* Every step keeps the types; a try_dequeue's exchange stays within the bound
\* because a published position was handed out by tail.
LEMMA TypeStep == IInv /\ [Next]_vars => TypeOK'
<1> SUFFICES ASSUME IInv, [Next]_vars PROVE TypeOK'
  OBVIOUS
<1> USE MaxPositionAssumption, MachineAssumption DEF IInv, TypeOK, EnqueuePCs, DequeuePCs, TryPCs, Goto
<1>0. /\ \A t \in Threads : pos[t] \in Nat /\ idx(pos[t]) \in Slots /\ turn(pos[t]) \in Nat
      /\ \A p \in Positions : p \in Items
      /\ \A m \in Machines, s \in Slots : CachedValue(m, s) \in Items
  BY SlotAndRound DEF Positions, Items, CachedValue, NotCached
<1>1. ASSUME NEW t \in Threads, EnqueueClaim(t) PROVE TypeOK'
  BY <1>0, <1>1 DEF EnqueueClaim, Positions
<1>2. ASSUME NEW t \in Threads, EnqueueWait(t) PROVE TypeOK'
  BY <1>0, <1>2, Zenon DEF EnqueueWait
<1>3. ASSUME NEW t \in Threads, EnqueueWrite(t) PROVE TypeOK'
  BY <1>0, <1>3 DEF EnqueueWrite
<1>4. ASSUME NEW t \in Threads, EnqueueWriteBack(t) PROVE TypeOK'
  BY <1>0, <1>4, Zenon DEF EnqueueWriteBack, WriteBack
<1>5. ASSUME NEW t \in Threads, EnqueuePublish(t) PROVE TypeOK'
  BY <1>0, <1>5 DEF EnqueuePublish
<1>6. ASSUME NEW t \in Threads, DequeueClaim(t) PROVE TypeOK'
  BY <1>0, <1>6 DEF DequeueClaim, Positions
<1>7. ASSUME NEW t \in Threads, DequeueWait(t) PROVE TypeOK'
  BY <1>0, <1>7, Zenon DEF DequeueWait
<1>8. ASSUME NEW t \in Threads, DequeueFlush(t) PROVE TypeOK'
  <2>1. \A m \in Machines, s \in Slots : <<m, s>> \in dirty => cache[m][s] \in Items
    BY <1>0 DEF ValueInv, DirtyInv
  <2> QED
    BY <1>0, <1>8, <2>1, Zenon DEF DequeueFlush, Flush
<1>9. ASSUME NEW t \in Threads, DequeueRead(t) PROVE TypeOK'
  BY <1>0, <1>9, Zenon DEF DequeueRead
<1>10. ASSUME NEW t \in Threads, DequeueRelease(t) PROVE TypeOK'
  BY <1>0, <1>10 DEF DequeueRelease
<1>11. ASSUME NEW t \in Threads, TryLoadHead(t) PROVE TypeOK'
  BY <1>0, <1>11, Zenon DEF TryLoadHead
<1>12. ASSUME NEW t \in Threads, TryCheckTurn(t) PROVE TypeOK'
  BY <1>0, <1>12, Zenon DEF TryCheckTurn
<1>13. ASSUME NEW t \in Threads, TryCas(t) PROVE TypeOK'
  <2>1. head = pos[t] => pos[t] + 1 \in Positions
    BY <1>0, <1>13 DEF TryCas, TurnInv, Positions
  <2> QED
    BY <1>0, <1>13, <2>1, ZenonT(30) DEF TryCas
<1>14. ASSUME NEW t \in Threads, TryReload(t) PROVE TypeOK'
  BY <1>0, <1>14, Zenon DEF TryReload
<1>15. ASSUME NEW m \in Machines, NEW s \in Slots, Evict(m, s) PROVE TypeOK'
  BY <1>0, <1>15 DEF Evict, Flush, NotCached, Items
<1>17. ASSUME NEW m \in Machines, NEW s \in Slots, Fetch(m, s) PROVE TypeOK'
  BY <1>0, <1>17, Zenon DEF Fetch
<1>16. CASE UNCHANGED vars
  BY <1>16, Zenon DEF vars
<1> QED
  BY <1>1, <1>2, <1>3, <1>4, <1>5, <1>6, <1>7, <1>8, <1>9, <1>10, <1>11, <1>12, <1>13, <1>14, <1>15, <1>16, <1>17, Zenon
     DEF Next, Continue, Try

\* Every step keeps positions unique: only fetch_add on head or tail and the
\* exchange on head hand one out.
LEMMA ClaimStep == IInv /\ [Next]_vars => ClaimInv'
<1> SUFFICES ASSUME IInv, [Next]_vars PROVE ClaimInv'
  OBVIOUS
<1> USE DEF ClaimInv, EnqueuePCs, DequeuePCs, Goto
<1>0. /\ ClaimInv /\ head \in Nat /\ tail \in Nat
      /\ \A t \in Threads : pos[t] \in Nat
      /\ DOMAIN pc = Threads /\ DOMAIN pos = Threads
      /\ pc = [t \in Threads |-> pc[t]] /\ pos = [t \in Threads |-> pos[t]]
  BY MaxPositionAssumption DEF IInv, TypeOK, Positions
<1>1. ASSUME NEW t \in Threads, EnqueueClaim(t) PROVE ClaimInv'
  BY <1>0, <1>1 DEF EnqueueClaim
<1>2. ASSUME NEW t \in Threads, EnqueueWait(t) PROVE ClaimInv'
  BY <1>0, <1>2 DEF EnqueueWait
<1>3. ASSUME NEW t \in Threads, EnqueueWrite(t) PROVE ClaimInv'
  BY <1>0, <1>3 DEF EnqueueWrite
<1>4. ASSUME NEW t \in Threads, EnqueueWriteBack(t) PROVE ClaimInv'
  BY <1>0, <1>4 DEF EnqueueWriteBack
<1>5. ASSUME NEW t \in Threads, EnqueuePublish(t) PROVE ClaimInv'
  BY <1>0, <1>5, Zenon DEF EnqueuePublish
<1>6. ASSUME NEW t \in Threads, DequeueClaim(t) PROVE ClaimInv'
  BY <1>0, <1>6 DEF DequeueClaim
<1>7. ASSUME NEW t \in Threads, DequeueWait(t) PROVE ClaimInv'
  BY <1>0, <1>7 DEF DequeueWait
<1>8. ASSUME NEW t \in Threads, DequeueFlush(t) PROVE ClaimInv'
  BY <1>0, <1>8 DEF DequeueFlush
<1>9. ASSUME NEW t \in Threads, DequeueRead(t) PROVE ClaimInv'
  BY <1>0, <1>9 DEF DequeueRead
<1>10. ASSUME NEW t \in Threads, DequeueRelease(t) PROVE ClaimInv'
  BY <1>0, <1>10, Zenon DEF DequeueRelease
<1>11. ASSUME NEW t \in Threads, TryLoadHead(t) PROVE ClaimInv'
  BY <1>0, <1>11, Zenon DEF TryLoadHead
<1>12. ASSUME NEW t \in Threads, TryCheckTurn(t) PROVE ClaimInv'
  BY <1>0, <1>12, Zenon DEF TryCheckTurn
<1>13. ASSUME NEW t \in Threads, TryCas(t) PROVE ClaimInv'
  BY <1>0, <1>13 DEF TryCas
<1>14. ASSUME NEW t \in Threads, TryReload(t) PROVE ClaimInv'
  BY <1>0, <1>14 DEF TryReload
<1>15. ASSUME NEW m \in Machines, NEW s \in Slots, Evict(m, s) PROVE ClaimInv'
  BY <1>0, <1>15, Zenon DEF Evict
<1>17. ASSUME NEW m \in Machines, NEW s \in Slots, Fetch(m, s) PROVE ClaimInv'
  BY <1>0, <1>17, Zenon DEF Fetch
<1>16. CASE UNCHANGED vars
  BY <1>0, <1>16, Zenon DEF vars
<1> QED
  BY <1>1, <1>2, <1>3, <1>4, <1>5, <1>6, <1>7, <1>8, <1>9, <1>10, <1>11, <1>12, <1>13, <1>14, <1>15, <1>16, <1>17, Zenon
     DEF Next, Continue, Try

\* Every step keeps the turns in step with the positions; only publishing and
\* releasing a slot move a turn, and both move it by one.
LEMMA TurnStep == IInv /\ [Next]_vars => TurnInv'
<1> SUFFICES ASSUME IInv, [Next]_vars PROVE TurnInv'
  OBVIOUS
<1>0. /\ \A t \in Threads : pos[t] \in Nat
      /\ head \in Nat /\ tail \in Nat
      /\ turns \in [Slots -> Nat]
      /\ pc = [t \in Threads |-> pc[t]] /\ pos = [t \in Threads |-> pos[t]]
  BY MaxPositionAssumption DEF IInv, TypeOK, Positions
<1>a. \A p \in Nat : idx(p) \in Slots /\ turn(p) \in Nat /\ turns[idx(p)] \in Nat
  BY <1>0, SlotAndRound
<1>b. \A p, q \in Nat : idx(p) = idx(q) /\ turn(p) = turn(q) => p = q
  BY SlotAndRound
<1>c. TurnInv /\ ClaimInv
  BY DEF IInv
<1> USE DEF TurnInv, Goto
<1>1. ASSUME NEW t \in Threads, EnqueueClaim(t) PROVE TurnInv'
  BY <1>0, <1>a, <1>c, <1>1 DEF EnqueueClaim
<1>2. ASSUME NEW t \in Threads, EnqueueWait(t) PROVE TurnInv'
  BY <1>0, <1>a, <1>c, <1>2, Zenon DEF EnqueueWait
<1>3. ASSUME NEW t \in Threads, EnqueueWrite(t) PROVE TurnInv'
  BY <1>0, <1>a, <1>c, <1>3, Zenon DEF EnqueueWrite
<1>4. ASSUME NEW t \in Threads, EnqueueWriteBack(t) PROVE TurnInv'
  BY <1>0, <1>a, <1>c, <1>4, Zenon DEF EnqueueWriteBack
<1>5. ASSUME NEW t \in Threads, EnqueuePublish(t) PROVE TurnInv'
  <2>1. /\ pc[t] = "e_publish" /\ pc' = [pc EXCEPT ![t] = "idle"]
        /\ turns' = [turns EXCEPT ![idx(pos[t])] = turns[idx(pos[t])] + 1]
        /\ turns[idx(pos[t])] = turn(pos[t]) * 2
        /\ UNCHANGED <<head, tail, pos>>
    BY <1>0, <1>a, <1>c, <1>5, Zenon DEF EnqueuePublish
  <2>2. \A p \in Nat : turns'[idx(p)] = IF idx(p) = idx(pos[t]) THEN turns[idx(p)] + 1
                                                              ELSE turns[idx(p)]
    BY <1>0, <1>a, <2>1, Zenon
  <2>3. \A p \in Nat : p >= tail => turns'[idx(p)] <= turn(p) * 2
    <3> SUFFICES ASSUME NEW p \in Nat, p >= tail PROVE turns'[idx(p)] <= turn(p) * 2
      OBVIOUS
    <3>1. p # pos[t]
      BY <1>0, <1>c, <2>1 DEF ClaimInv, EnqueuePCs
    <3>2. CASE idx(p) = idx(pos[t])
      <4>1. turn(p) # turn(pos[t])
        BY <1>0, <1>b, <3>1, <3>2
      <4>2. turn(p) \in Nat /\ turn(pos[t]) \in Nat /\ turns[idx(p)] \in Nat
        BY <1>0, <1>a
      <4>3. turns'[idx(p)] = turns[idx(p)] + 1
        BY <2>2, <3>2
      <4> QED
        BY <1>c, <2>1, <3>2, <4>1, <4>2, <4>3
    <3> QED
      BY <1>c, <2>2, <3>2, Zenon
  <2>4. \A p \in Nat : p >= head => turns'[idx(p)] <= turn(p) * 2 + 1
    BY <1>0, <1>a, <1>b, <1>c, <2>1, <2>2, SMTT(30) DEF ClaimInv, DequeuePCs
  <2>5. ASSUME NEW u \in Threads
        PROVE /\ pc'[u] = "e_wait" => turns'[idx(pos[u])] <= turn(pos[u]) * 2
              /\ pc'[u] \in {"e_write", "e_clwb", "e_publish"} =>
                    turns'[idx(pos[u])] = turn(pos[u]) * 2
              /\ pc'[u] = "d_wait" => turns'[idx(pos[u])] <= turn(pos[u]) * 2 + 1
              /\ pc'[u] \in {"d_flush", "d_read", "d_release"} =>
                    turns'[idx(pos[u])] = turn(pos[u]) * 2 + 1
              /\ pc'[u] = "t_cas" => turns'[idx(pos[u])] >= turn(pos[u]) * 2 + 1
    <3>1. CASE u = t
      BY <1>0, <2>1, <3>1, Zenon
    <3>2. CASE u # t /\ idx(pos[u]) # idx(pos[t])
      BY <1>0, <1>c, <2>1, <2>2, <3>2
    <3>3. CASE u # t /\ idx(pos[u]) = idx(pos[t])
      <4>1. ~Accessing(u)
        BY <2>1, <3>3, Exclusive, Zenon DEF SlotExclusive, Accessing
      <4>2. turns'[idx(pos[u])] = turns[idx(pos[u])] + 1
        BY <1>0, <2>2, <3>3, Zenon
      <4>3. pc'[u] = pc[u] /\ pos[u] \in Nat /\ pos[t] \in Nat
        BY <1>0, <2>1, <3>3, Zenon
      <4>4. pc[u] = "e_wait" => turn(pos[u]) # turn(pos[t])
        BY <1>b, <1>c, <2>1, <3>3, <4>3, Zenon DEF ClaimInv, EnqueuePCs
      <4>5. turn(pos[u]) \in Nat /\ turn(pos[t]) \in Nat /\ turns[idx(pos[u])] \in Nat
        BY <1>a, <4>3
      <4> QED
        BY <1>c, <2>1, <3>3, <4>1, <4>2, <4>3, <4>4, <4>5 DEF Accessing
    <3> QED
      BY <3>1, <3>2, <3>3, Zenon
  <2> QED
    BY <2>1, <2>3, <2>4, <2>5, Zenon
<1>6. ASSUME NEW t \in Threads, DequeueClaim(t) PROVE TurnInv'
  BY <1>0, <1>a, <1>c, <1>6 DEF DequeueClaim
<1>7. ASSUME NEW t \in Threads, DequeueWait(t) PROVE TurnInv'
  BY <1>0, <1>a, <1>c, <1>7, Zenon DEF DequeueWait
<1>8. ASSUME NEW t \in Threads, DequeueFlush(t) PROVE TurnInv'
  BY <1>0, <1>a, <1>c, <1>8, Zenon DEF DequeueFlush
<1>9. ASSUME NEW t \in Threads, DequeueRead(t) PROVE TurnInv'
  BY <1>0, <1>a, <1>c, <1>9, Zenon DEF DequeueRead
<1>10. ASSUME NEW t \in Threads, DequeueRelease(t) PROVE TurnInv'
  <2>1. /\ pc[t] = "d_release" /\ pc' = [pc EXCEPT ![t] = "idle"]
        /\ turns' = [turns EXCEPT ![idx(pos[t])] = turns[idx(pos[t])] + 1]
        /\ turns[idx(pos[t])] = turn(pos[t]) * 2 + 1
        /\ UNCHANGED <<head, tail, pos>>
    <3>1. turns[idx(pos[t])] = turn(pos[t]) * 2 + 1 /\ turn(pos[t]) \in Nat
      BY <1>0, <1>a, <1>c, <1>10, Zenon DEF DequeueRelease
    <3>2. turn(pos[t]) * 2 + 2 = turns[idx(pos[t])] + 1
      BY <3>1
    <3> QED
      BY <1>10, <3>1, <3>2, Zenon DEF DequeueRelease
  <2>2. \A p \in Nat : turns'[idx(p)] = IF idx(p) = idx(pos[t]) THEN turns[idx(p)] + 1
                                                              ELSE turns[idx(p)]
    BY <1>0, <1>a, <2>1, Zenon
  <2>3. \A p \in Nat : p >= tail => turns'[idx(p)] <= turn(p) * 2
    BY <1>0, <1>a, <1>b, <1>c, <2>1, <2>2, SMTT(30) DEF ClaimInv, EnqueuePCs
  <2>4. \A p \in Nat : p >= head => turns'[idx(p)] <= turn(p) * 2 + 1
    <3> SUFFICES ASSUME NEW p \in Nat, p >= head PROVE turns'[idx(p)] <= turn(p) * 2 + 1
      OBVIOUS
    <3>1. p # pos[t]
      BY <1>0, <1>c, <2>1 DEF ClaimInv, DequeuePCs
    <3>2. CASE idx(p) = idx(pos[t])
      <4>1. turn(p) # turn(pos[t])
        BY <1>0, <1>b, <3>1, <3>2, Zenon
      <4>2. turn(p) \in Nat /\ turn(pos[t]) \in Nat /\ turns[idx(p)] \in Nat
        BY <1>0, <1>a, Zenon
      <4>3. turns'[idx(p)] = turns[idx(p)] + 1
        BY <2>2, <3>2, Zenon
      <4> QED
        BY <1>c, <2>1, <3>2, <4>1, <4>2, <4>3
    <3> QED
      BY <1>c, <2>2, <3>2, Zenon
  <2>5. ASSUME NEW u \in Threads
        PROVE /\ pc'[u] = "e_wait" => turns'[idx(pos[u])] <= turn(pos[u]) * 2
              /\ pc'[u] \in {"e_write", "e_clwb", "e_publish"} =>
                    turns'[idx(pos[u])] = turn(pos[u]) * 2
              /\ pc'[u] = "d_wait" => turns'[idx(pos[u])] <= turn(pos[u]) * 2 + 1
              /\ pc'[u] \in {"d_flush", "d_read", "d_release"} =>
                    turns'[idx(pos[u])] = turn(pos[u]) * 2 + 1
              /\ pc'[u] = "t_cas" => turns'[idx(pos[u])] >= turn(pos[u]) * 2 + 1
    <3>1. CASE u = t
      BY <1>0, <2>1, <3>1, Zenon
    <3>2. CASE u # t /\ idx(pos[u]) # idx(pos[t])
      BY <1>0, <1>c, <2>1, <2>2, <3>2
    <3>3. CASE u # t /\ idx(pos[u]) = idx(pos[t])
      <4>1. ~Accessing(u)
        BY <2>1, <3>3, Exclusive, Zenon DEF SlotExclusive, Accessing
      <4>2. turns'[idx(pos[u])] = turns[idx(pos[u])] + 1
        BY <1>0, <2>2, <3>3, Zenon
      <4>3. pc'[u] = pc[u] /\ pos[u] \in Nat /\ pos[t] \in Nat
        BY <1>0, <2>1, <3>3, Zenon
      <4>4. pc[u] = "d_wait" => turn(pos[u]) # turn(pos[t])
        BY <1>b, <1>c, <2>1, <3>3, <4>3, Zenon DEF ClaimInv, DequeuePCs
      <4>5. turn(pos[u]) \in Nat /\ turn(pos[t]) \in Nat /\ turns[idx(pos[u])] \in Nat
        BY <1>a, <4>3, Zenon
      <4> QED
        BY <1>c, <2>1, <3>3, <4>1, <4>2, <4>3, <4>4, <4>5, SMTT(30) DEF Accessing
    <3> QED
      BY <3>1, <3>2, <3>3, Zenon
  <2> QED
    BY <2>1, <2>3, <2>4, <2>5, Zenon
<1>11. ASSUME NEW t \in Threads, TryLoadHead(t) PROVE TurnInv'
  BY <1>0, <1>a, <1>c, <1>11, Zenon DEF TryLoadHead
<1>12. ASSUME NEW t \in Threads, TryCheckTurn(t) PROVE TurnInv'
  BY <1>0, <1>a, <1>c, <1>12 DEF TryCheckTurn
<1>13. ASSUME NEW t \in Threads, TryCas(t) PROVE TurnInv'
  BY <1>0, <1>a, <1>c, <1>13 DEF TryCas
<1>14. ASSUME NEW t \in Threads, TryReload(t) PROVE TurnInv'
  BY <1>0, <1>a, <1>c, <1>14 DEF TryReload
<1>15. ASSUME NEW m \in Machines, NEW s \in Slots, Evict(m, s) PROVE TurnInv'
  BY <1>0, <1>a, <1>c, <1>15, Zenon DEF Evict
<1>17. ASSUME NEW m \in Machines, NEW s \in Slots, Fetch(m, s) PROVE TurnInv'
  BY <1>0, <1>a, <1>c, <1>17, Zenon DEF Fetch
<1>16. CASE UNCHANGED vars
  BY <1>c, <1>16, Zenon DEF vars
<1> QED
  BY <1>1, <1>2, <1>3, <1>4, <1>5, <1>6, <1>7, <1>8, <1>9, <1>10, <1>11, <1>12, <1>13, <1>14, <1>15, <1>16, <1>17, Zenon
     DEF Next, Continue, Try

\* A step keeps the values of the slots where ValueInv says.  A dirty line
\* belongs to an enqueuer between its store and its clwb, so no other thread
\* accesses that slot, and no write-back disturbs a published value.
LEMMA ValueStep == IInv /\ [Next]_vars => ValueInv'
<1> SUFFICES ASSUME IInv, [Next]_vars PROVE ValueInv'
  OBVIOUS
<1>0. /\ \A t \in Threads : /\ pos[t] \in Nat /\ idx(pos[t]) \in Slots
                             /\ turn(pos[t]) \in Nat /\ MachineOf[t] \in Machines
      /\ turns \in [Slots -> Nat]
      /\ memory = [x \in Slots |-> memory[x]] /\ item = [t \in Threads |-> item[t]]
      /\ cache \in [Machines -> [Slots -> Items \cup {NotCached}]]
      /\ pc = [t \in Threads |-> pc[t]] /\ pos = [t \in Threads |-> pos[t]]
  BY SlotAndRound, MaxPositionAssumption, MachineAssumption DEF IInv, TypeOK, Positions
<1>a. \A p \in Nat : idx(p) \in Slots /\ turn(p) \in Nat /\ turns[idx(p)] \in Nat
  BY <1>0, SlotAndRound, Zenon
<1>b. \A p \in Nat : p # NotCached
  BY DEF NotCached
<1>c. ValueInv
  BY DEF IInv
<1>d. \A t, u \in Threads : Accessing(t) /\ Accessing(u) /\ idx(pos[t]) = idx(pos[u]) => t = u
  BY Exclusive DEF SlotExclusive
<1>e. \A t \in Threads :
        /\ pc[t] \in {"e_write", "e_clwb", "e_publish"} => turns[idx(pos[t])] = turn(pos[t]) * 2
        /\ pc[t] \in {"d_flush", "d_read", "d_release"} => turns[idx(pos[t])] = turn(pos[t]) * 2 + 1
  BY Zenon DEF IInv, TurnInv
<1>f. \A t \in Threads, p \in Nat :
        pc[t] \in {"e_write", "e_clwb", "e_publish"} /\ idx(p) = idx(pos[t])
        => turns[idx(p)] # turn(p) * 2 + 1
  <2> SUFFICES ASSUME NEW t \in Threads, NEW p \in Nat, idx(p) = idx(pos[t]),
                      pc[t] \in {"e_write", "e_clwb", "e_publish"}
               PROVE turns[idx(p)] # turn(p) * 2 + 1
    OBVIOUS
  <2>1. turns[idx(p)] = turn(pos[t]) * 2 /\ turn(pos[t]) \in Nat /\ turn(p) \in Nat
    BY <1>0, <1>a, <1>e, Zenon
  <2> QED
    BY <2>1
<1>g. \A p \in Nat, m \in Machines : turns[idx(p)] = turn(p) * 2 + 1 => <<m, idx(p)>> \notin dirty
  BY <1>a, <1>c, <1>f DEF ValueInv, DirtyInv
<1> DEFINE Holding(u) == pc[u] \in {"e_clwb", "e_publish", "d_read", "d_release"}
           Untouched(u) == (Holding(u) \/ Holding(u)') => pc'[u] = pc[u] /\ pos'[u] = pos[u]
<1>h. ASSUME UNCHANGED <<turns, memory, cache, dirty, item>>, \A u \in Threads : Untouched(u)
      PROVE ValueInv'
  <2>1. DirtyInv'
    BY <1>c, <1>h DEF ValueInv, DirtyInv
  <2>2. PublishedInv'
    BY <1>c, <1>h, Zenon DEF ValueInv, PublishedInv
  <2>3. ASSUME NEW u \in Threads PROVE ItemInv(u)'
    BY <1>c, <1>h, Zenon DEF ValueInv, ItemInv
  <2> QED
    BY <2>1, <2>2, <2>3 DEF ValueInv
<1> USE DEF Goto
<1>1. ASSUME NEW t \in Threads, EnqueueClaim(t) PROVE ValueInv'
  BY <1>0, <1>h, <1>1, Zenon DEF EnqueueClaim, Untouched, Holding
<1>2. ASSUME NEW t \in Threads, EnqueueWait(t) PROVE ValueInv'
  BY <1>0, <1>h, <1>2, Zenon DEF EnqueueWait, Untouched, Holding
<1>3. ASSUME NEW t \in Threads, EnqueueWrite(t) PROVE ValueInv'
  <2>1. DirtyInv'
    <3> SUFFICES ASSUME NEW m \in Machines, NEW s \in Slots, <<m, s>> \in dirty'
                 PROVE \E u \in Threads : /\ pc'[u] = "e_clwb" /\ MachineOf[u] = m
                                          /\ idx(pos'[u]) = s /\ cache'[m][s] = pos'[u]
      BY Zenon DEF DirtyInv
    <3>1. CASE m = MachineOf[t] /\ s = idx(pos[t])
      <4>1. pc'[t] = "e_clwb" /\ pos'[t] = pos[t] /\ cache'[m][s] = pos[t]
        BY <1>0, <1>3, <3>1, Zenon DEF EnqueueWrite
      <4> QED
        BY <3>1, <4>1, Zenon
    <3>2. CASE ~(m = MachineOf[t] /\ s = idx(pos[t]))
      <4>1. <<m, s>> \in dirty
        BY <1>3, <3>2, Zenon DEF EnqueueWrite
      <4>2. PICK u \in Threads : /\ pc[u] = "e_clwb" /\ MachineOf[u] = m
                                /\ idx(pos[u]) = s /\ cache[m][s] = pos[u]
        BY <1>c, <4>1 DEF ValueInv, DirtyInv
      <4>3. pc'[u] = "e_clwb" /\ pos'[u] = pos[u] /\ cache'[m][s] = cache[m][s]
        BY <1>0, <1>3, <3>2, <4>2, Zenon DEF EnqueueWrite
      <4> QED
        BY <4>2, <4>3, Zenon
    <3> QED
      BY <3>1, <3>2, Zenon
  <2>2. PublishedInv'
    BY <1>0, <1>a, <1>c, <1>f, <1>g, <1>3, Zenon DEF EnqueueWrite, ValueInv, PublishedInv, ItemInv
  <2>3. ASSUME NEW u \in Threads PROVE ItemInv(u)'
    <3>1. CASE u = t
      BY <1>0, <1>a, <1>b, <1>c, <1>e, <1>g, <1>3, <3>1, Zenon DEF EnqueueWrite, ValueInv, PublishedInv, ItemInv
    <3>2. CASE u # t
      BY <1>0, <1>c, <1>d, <1>e, <1>g, <1>3, <3>2, ZenonT(30) DEF EnqueueWrite, ValueInv, ItemInv, Accessing
    <3> QED
      BY <3>1, <3>2
  <2> QED
    BY <2>1, <2>2, <2>3 DEF ValueInv
<1>4. ASSUME NEW t \in Threads, EnqueueWriteBack(t) PROVE ValueInv'
  <2>1. DirtyInv'
    <3> SUFFICES ASSUME NEW m \in Machines, NEW s \in Slots, <<m, s>> \in dirty'
                 PROVE \E u \in Threads : /\ pc'[u] = "e_clwb" /\ MachineOf[u] = m
                                          /\ idx(pos'[u]) = s /\ cache'[m][s] = pos'[u]
      BY Zenon DEF DirtyInv
    <3>1. <<m, s>> \in dirty
      BY <1>4, Zenon DEF EnqueueWriteBack, WriteBack
    <3>2. PICK u \in Threads : /\ pc[u] = "e_clwb" /\ MachineOf[u] = m
                              /\ idx(pos[u]) = s /\ cache[m][s] = pos[u]
      BY <1>c, <3>1 DEF ValueInv, DirtyInv
    <3>3. pc'[u] = "e_clwb" /\ pos'[u] = pos[u] /\ cache'[m][s] = cache[m][s]
      BY <1>0, <1>4, <3>1, <3>2, Zenon DEF EnqueueWriteBack, WriteBack
    <3> QED
      BY <3>2, <3>3, Zenon
  <2>2. PublishedInv'
    BY <1>0, <1>a, <1>c, <1>f, <1>g, <1>4, Zenon DEF EnqueueWriteBack, ValueInv, PublishedInv, ItemInv, WriteBack, CachedValue
  <2>3. ASSUME NEW u \in Threads PROVE ItemInv(u)'
    <3>1. CASE u = t
      BY <1>0, <1>a, <1>b, <1>c, <1>e, <1>g, <1>4, <3>1, Zenon DEF EnqueueWriteBack, ValueInv, PublishedInv, ItemInv, WriteBack, CachedValue
    <3>2. CASE u # t
      BY <1>0, <1>c, <1>d, <1>e, <1>g, <1>4, <3>2, Zenon DEF EnqueueWriteBack, ValueInv, ItemInv, Accessing, WriteBack, CachedValue
    <3> QED
      BY <3>1, <3>2
  <2> QED
    BY <2>1, <2>2, <2>3 DEF ValueInv
<1>5. ASSUME NEW t \in Threads, EnqueuePublish(t) PROVE ValueInv'
  <2>1. DirtyInv'
    <3> SUFFICES ASSUME NEW m \in Machines, NEW s \in Slots, <<m, s>> \in dirty'
                 PROVE \E u \in Threads : /\ pc'[u] = "e_clwb" /\ MachineOf[u] = m
                                          /\ idx(pos'[u]) = s /\ cache'[m][s] = pos'[u]
      BY Zenon DEF DirtyInv
    <3>1. <<m, s>> \in dirty
      BY <1>5, Zenon DEF EnqueuePublish
    <3>2. PICK u \in Threads : /\ pc[u] = "e_clwb" /\ MachineOf[u] = m
                              /\ idx(pos[u]) = s /\ cache[m][s] = pos[u]
      BY <1>c, <3>1 DEF ValueInv, DirtyInv
    <3>3. pc'[u] = "e_clwb" /\ pos'[u] = pos[u] /\ cache'[m][s] = cache[m][s]
      BY <1>0, <1>5, <3>1, <3>2, Zenon DEF EnqueuePublish
    <3> QED
      BY <3>2, <3>3, Zenon
  <2>2. PublishedInv'
    <3> SUFFICES ASSUME NEW p \in Nat, turns'[idx(p)] = turn(p) * 2 + 1
                 PROVE memory'[idx(p)] = p
      BY DEF PublishedInv
    <3>1. CASE idx(p) = idx(pos[t])
      <4>1. turns'[idx(p)] = turn(pos[t]) * 2 + 1 /\ memory[idx(pos[t])] = pos[t]
        BY <1>0, <1>c, <1>5, <3>1, Zenon DEF EnqueuePublish, ValueInv, ItemInv
      <4>2. turn(p) = turn(pos[t])
        <5>1. turn(p) \in Nat /\ turn(pos[t]) \in Nat
          BY <1>0, <1>a, Zenon
        <5>2. turn(p) * 2 + 1 = turn(pos[t]) * 2 + 1
          BY <4>1
        <5> QED
          BY <5>1, <5>2
      <4> QED
        BY <1>0, <1>5, <3>1, <4>1, <4>2, SlotAndRound, Zenon DEF EnqueuePublish
    <3>2. CASE idx(p) # idx(pos[t])
      BY <1>0, <1>a, <1>c, <1>5, <3>2, Zenon DEF EnqueuePublish, ValueInv, PublishedInv
    <3> QED
      BY <3>1, <3>2
  <2>3. ASSUME NEW u \in Threads PROVE ItemInv(u)'
    <3>1. CASE u = t
      BY <1>0, <1>a, <1>b, <1>c, <1>e, <1>g, <1>5, <3>1, Zenon DEF EnqueuePublish, ValueInv, PublishedInv, ItemInv
    <3>2. CASE u # t
      BY <1>0, <1>c, <1>d, <1>e, <1>g, <1>5, <3>2, Zenon DEF EnqueuePublish, ValueInv, ItemInv, Accessing
    <3> QED
      BY <3>1, <3>2
  <2> QED
    BY <2>1, <2>2, <2>3 DEF ValueInv
<1>6. ASSUME NEW t \in Threads, DequeueClaim(t) PROVE ValueInv'
  BY <1>0, <1>h, <1>6, Zenon DEF DequeueClaim, Untouched, Holding
<1>7. ASSUME NEW t \in Threads, DequeueWait(t) PROVE ValueInv'
  BY <1>0, <1>h, <1>7, Zenon DEF DequeueWait, Untouched, Holding
<1>8. ASSUME NEW t \in Threads, DequeueFlush(t) PROVE ValueInv'
  <2>1. DirtyInv'
    <3> SUFFICES ASSUME NEW m \in Machines, NEW s \in Slots, <<m, s>> \in dirty'
                 PROVE \E u \in Threads : /\ pc'[u] = "e_clwb" /\ MachineOf[u] = m
                                          /\ idx(pos'[u]) = s /\ cache'[m][s] = pos'[u]
      BY Zenon DEF DirtyInv
    <3>1. <<m, s>> \in dirty
      BY <1>8, Zenon DEF DequeueFlush, Flush
    <3>2. PICK u \in Threads : /\ pc[u] = "e_clwb" /\ MachineOf[u] = m
                              /\ idx(pos[u]) = s /\ cache[m][s] = pos[u]
      BY <1>c, <3>1 DEF ValueInv, DirtyInv
    <3>3. pc'[u] = "e_clwb" /\ pos'[u] = pos[u] /\ cache'[m][s] = cache[m][s]
      BY <1>0, <1>8, <3>1, <3>2, Zenon DEF DequeueFlush, Flush
    <3> QED
      BY <3>2, <3>3, Zenon
  <2>2. PublishedInv'
    BY <1>0, <1>a, <1>c, <1>f, <1>g, <1>8, Zenon DEF DequeueFlush, ValueInv, PublishedInv, ItemInv, Flush
  <2>3. ASSUME NEW u \in Threads PROVE ItemInv(u)'
    <3>1. CASE u = t
      BY <1>0, <1>a, <1>b, <1>c, <1>e, <1>g, <1>8, <3>1, Zenon DEF DequeueFlush, ValueInv, PublishedInv, ItemInv, Flush
    <3>2. CASE u # t
      <4>1. pc'[u] = pc[u] /\ pos'[u] = pos[u] /\ item'[u] = item[u]
        BY <1>0, <1>8, <3>2, Zenon DEF DequeueFlush
      <4>2. Accessing(u) => idx(pos[u]) # idx(pos[t])
        BY <1>8, <1>d, <3>2, Zenon DEF DequeueFlush, Accessing
      <4>3. Accessing(u) =>
              /\ cache'[MachineOf[u]][idx(pos[u])] = cache[MachineOf[u]][idx(pos[u])]
              /\ memory'[idx(pos[u])] = memory[idx(pos[u])]
              /\ <<MachineOf[u], idx(pos[u])>> \in dirty =>
                    <<MachineOf[u], idx(pos[u])>> \in dirty'
        BY <1>0, <1>8, <4>2, Zenon DEF DequeueFlush, Flush
      <4>4. ItemInv(u)
        BY <1>c DEF ValueInv
      <4> QED
        BY <4>1, <4>3, <4>4, Zenon DEF ItemInv, Accessing
    <3> QED
      BY <3>1, <3>2
  <2> QED
    BY <2>1, <2>2, <2>3 DEF ValueInv
<1>9. ASSUME NEW t \in Threads, DequeueRead(t) PROVE ValueInv'
  <2>1. DirtyInv'
    <3> SUFFICES ASSUME NEW m \in Machines, NEW s \in Slots, <<m, s>> \in dirty'
                 PROVE \E u \in Threads : /\ pc'[u] = "e_clwb" /\ MachineOf[u] = m
                                          /\ idx(pos'[u]) = s /\ cache'[m][s] = pos'[u]
      BY Zenon DEF DirtyInv
    <3>1. <<m, s>> \in dirty
      BY <1>9, Zenon DEF DequeueRead
    <3>2. PICK u \in Threads : /\ pc[u] = "e_clwb" /\ MachineOf[u] = m
                              /\ idx(pos[u]) = s /\ cache[m][s] = pos[u]
      BY <1>c, <3>1 DEF ValueInv, DirtyInv
    <3>3. pc'[u] = "e_clwb" /\ pos'[u] = pos[u] /\ cache'[m][s] = cache[m][s]
      BY <1>0, <1>9, <3>1, <3>2, <1>e, <1>g, Zenon DEF DequeueRead
    <3> QED
      BY <3>2, <3>3, Zenon
  <2>2. PublishedInv'
    BY <1>0, <1>a, <1>c, <1>f, <1>g, <1>9, Zenon DEF DequeueRead, ValueInv, PublishedInv, ItemInv, CachedValue
  <2>3. ASSUME NEW u \in Threads PROVE ItemInv(u)'
    <3>1. CASE u = t
      BY <1>0, <1>a, <1>b, <1>c, <1>e, <1>g, <1>9, <3>1, Zenon DEF DequeueRead, ValueInv, PublishedInv, ItemInv, CachedValue
    <3>2. CASE u # t
      <4>1. /\ pc'[u] = pc[u] /\ pos'[u] = pos[u] /\ item'[u] = item[u]
            /\ memory' = memory /\ dirty' = dirty
        BY <1>0, <1>9, <3>2, Zenon DEF DequeueRead
      <4>2. Accessing(u) => idx(pos[u]) # idx(pos[t])
        BY <1>9, <1>d, <3>2, Zenon DEF DequeueRead, Accessing
      <4>3. Accessing(u) => cache'[MachineOf[u]][idx(pos[u])] = cache[MachineOf[u]][idx(pos[u])]
        BY <1>0, <1>9, <4>2, Zenon DEF DequeueRead
      <4> QED
        BY <1>c, <4>1, <4>3, Zenon DEF ValueInv, ItemInv, Accessing
    <3> QED
      BY <3>1, <3>2
  <2> QED
    BY <2>1, <2>2, <2>3 DEF ValueInv
<1>10. ASSUME NEW t \in Threads, DequeueRelease(t) PROVE ValueInv'
  <2>1. DirtyInv'
    <3> SUFFICES ASSUME NEW m \in Machines, NEW s \in Slots, <<m, s>> \in dirty'
                 PROVE \E u \in Threads : /\ pc'[u] = "e_clwb" /\ MachineOf[u] = m
                                          /\ idx(pos'[u]) = s /\ cache'[m][s] = pos'[u]
      BY Zenon DEF DirtyInv
    <3>1. <<m, s>> \in dirty
      BY <1>10 DEF DequeueRelease
    <3>2. PICK u \in Threads : /\ pc[u] = "e_clwb" /\ MachineOf[u] = m
                              /\ idx(pos[u]) = s /\ cache[m][s] = pos[u]
      BY <1>c, <3>1 DEF ValueInv, DirtyInv
    <3>3. pc'[u] = "e_clwb" /\ pos'[u] = pos[u] /\ cache'[m][s] = cache[m][s]
      BY <1>0, <1>10, <3>1, <3>2, Zenon DEF DequeueRelease
    <3> QED
      BY <3>2, <3>3, Zenon
  <2>2. PublishedInv'
    <3> SUFFICES ASSUME NEW p \in Nat, turns'[idx(p)] = turn(p) * 2 + 1
                 PROVE memory'[idx(p)] = p
      BY DEF PublishedInv
    <3>1. idx(p) # idx(pos[t])
      <4> SUFFICES ASSUME idx(p) = idx(pos[t]) PROVE FALSE
        OBVIOUS
      <4>1. turns'[idx(p)] = turn(pos[t]) * 2 + 2
        BY <1>0, <1>10, Zenon DEF DequeueRelease
      <4>2. turn(p) \in Nat /\ turn(pos[t]) \in Nat
        BY <1>0, <1>a, Zenon
      <4>3. turn(p) * 2 + 1 = turn(pos[t]) * 2 + 2
        BY <4>1, Zenon
      <4> QED
        BY <4>2, <4>3
    <3> QED
      BY <1>0, <1>a, <1>c, <1>10, <3>1, Zenon DEF DequeueRelease, ValueInv, PublishedInv
  <2>3. ASSUME NEW u \in Threads PROVE ItemInv(u)'
    <3>1. CASE u = t
      BY <1>0, <1>a, <1>b, <1>c, <1>e, <1>g, <1>10, <3>1, Zenon DEF DequeueRelease, ValueInv, PublishedInv, ItemInv
    <3>2. CASE u # t
      BY <1>0, <1>c, <1>d, <1>e, <1>g, <1>10, <3>2, Zenon DEF DequeueRelease, ValueInv, ItemInv, Accessing
    <3> QED
      BY <3>1, <3>2
  <2> QED
    BY <2>1, <2>2, <2>3 DEF ValueInv
<1>11. ASSUME NEW t \in Threads, TryLoadHead(t) PROVE ValueInv'
  BY <1>0, <1>h, <1>11, Zenon DEF TryLoadHead, Untouched, Holding
<1>12. ASSUME NEW t \in Threads, TryCheckTurn(t) PROVE ValueInv'
  BY <1>0, <1>h, <1>12, Zenon DEF TryCheckTurn, Untouched, Holding
<1>13. ASSUME NEW t \in Threads, TryCas(t) PROVE ValueInv'
  BY <1>0, <1>h, <1>13 DEF TryCas, Untouched, Holding
<1>14. ASSUME NEW t \in Threads, TryReload(t) PROVE ValueInv'
  BY <1>0, <1>h, <1>14 DEF TryReload, Untouched, Holding
<1>15. ASSUME NEW m \in Machines, NEW s \in Slots, Evict(m, s) PROVE ValueInv'
  <2>1. DirtyInv'
    <3> SUFFICES ASSUME NEW n \in Machines, NEW x \in Slots, <<n, x>> \in dirty'
                 PROVE \E u \in Threads : /\ pc'[u] = "e_clwb" /\ MachineOf[u] = n
                                          /\ idx(pos'[u]) = x /\ cache'[n][x] = pos'[u]
      BY Zenon DEF DirtyInv
    <3>1. <<n, x>> \in dirty /\ cache'[n][x] = cache[n][x] /\ pc' = pc /\ pos' = pos
      BY <1>0, <1>15, Zenon DEF Evict, Flush
    <3> QED
      BY <1>c, <3>1 DEF ValueInv, DirtyInv
  <2>2. PublishedInv'
    BY <1>0, <1>a, <1>c, <1>g, <1>15, Zenon DEF Evict, Flush, ValueInv, PublishedInv
  <2>3. ASSUME NEW u \in Threads PROVE ItemInv(u)'
    <3>1. /\ pc' = pc /\ pos' = pos /\ item' = item
          /\ dirty' = dirty \ {<<m, s>>} /\ cache' = [cache EXCEPT ![m][s] = NotCached]
      BY <1>15, Zenon DEF Evict, Flush
    <3>2. ASSUME pc[u] = "e_clwb", idx(pos[u]) = s, MachineOf[u] = m
          PROVE cache'[m][s] = NotCached /\ memory'[s] = pos[u]
      BY <1>0, <1>c, <1>15, <3>2, Zenon DEF Evict, Flush, ValueInv, ItemInv
    <3>3. ASSUME Accessing(u), ~(idx(pos[u]) = s /\ MachineOf[u] = m /\ pc[u] = "e_clwb")
          PROVE memory'[idx(pos[u])] = memory[idx(pos[u])]
      <4>1. CASE <<m, s>> \in dirty /\ s = idx(pos[u])
        <5>1. PICK v \in Threads : pc[v] = "e_clwb" /\ MachineOf[v] = m /\ idx(pos[v]) = s
          BY <1>c, <4>1 DEF ValueInv, DirtyInv
        <5> QED
          BY <1>d, <3>3, <4>1, <5>1, Zenon DEF Accessing
      <4>2. CASE ~(<<m, s>> \in dirty /\ s = idx(pos[u]))
        BY <1>0, <1>15, <4>2, Zenon DEF Evict, Flush
      <4> QED
        BY <4>1, <4>2, Zenon
    <3>4. pc[u] = "e_clwb" =>
            \/ /\ cache'[MachineOf[u]][idx(pos[u])] = pos[u]
               /\ <<MachineOf[u], idx(pos[u])>> \in dirty'
            \/ /\ cache'[MachineOf[u]][idx(pos[u])] \in {NotCached, pos[u]}
               /\ memory'[idx(pos[u])] = pos[u]
      BY <1>0, <1>c, <3>1, <3>2, <3>3, Zenon DEF ValueInv, ItemInv, Accessing
    <3>5. pc[u] = "e_publish" => memory'[idx(pos[u])] = pos[u]
      BY <1>c, <3>3, Zenon DEF ValueInv, ItemInv, Accessing
    <3>6. pc[u] = "d_read" => cache'[MachineOf[u]][idx(pos[u])] \in {NotCached, pos[u]}
      BY <1>0, <1>c, <3>1, Zenon DEF ValueInv, ItemInv
    <3> QED
      BY <1>c, <3>1, <3>4, <3>5, <3>6, Zenon DEF ValueInv, ItemInv
  <2> QED
    BY <2>1, <2>2, <2>3 DEF ValueInv
<1>17. ASSUME NEW m \in Machines, NEW s \in Slots, Fetch(m, s) PROVE ValueInv'
  <2>1. DirtyInv'
    BY <1>0, <1>b, <1>c, <1>17 DEF Fetch, ValueInv, DirtyInv
  <2>2. PublishedInv'
    BY <1>c, <1>17, Zenon DEF Fetch, ValueInv, PublishedInv
  <2>3. ASSUME NEW u \in Threads PROVE ItemInv(u)'
    <3>1. /\ UNCHANGED <<pc, pos, item, memory, dirty>>
          /\ \A n \in Machines, x \in Slots :
                cache'[n][x] = IF n = m /\ x = s THEN memory[s] ELSE cache[n][x]
      BY <1>0, <1>17, Zenon DEF Fetch
    <3>2. pc[u] = "d_read" => memory[idx(pos[u])] = pos[u]
      BY <1>0, <1>c, <1>e, Zenon DEF ValueInv, PublishedInv
    <3>3. pc[u] = "e_clwb" /\ MachineOf[u] = m /\ idx(pos[u]) = s => memory[s] = pos[u]
      BY <1>0, <1>b, <1>c, <1>17, Zenon DEF Fetch, ValueInv, ItemInv
    <3>4. \/ cache'[MachineOf[u]][idx(pos[u])] = cache[MachineOf[u]][idx(pos[u])]
          \/ /\ MachineOf[u] = m /\ idx(pos[u]) = s
             /\ cache'[MachineOf[u]][idx(pos[u])] = memory[idx(pos[u])]
      BY <1>0, <3>1
    <3>5. ItemInv(u)
      BY <1>c DEF ValueInv
    <3> QED
      BY <3>1, <3>2, <3>3, <3>4, <3>5, Zenon DEF ItemInv
  <2> QED
    BY <2>1, <2>2, <2>3 DEF ValueInv
<1>16. CASE UNCHANGED vars
  BY <1>h, <1>16 DEF vars
<1> QED
  BY <1>1, <1>2, <1>3, <1>4, <1>5, <1>6, <1>7, <1>8, <1>9, <1>10, <1>11, <1>12, <1>13, <1>14, <1>15, <1>16, <1>17, Zenon
     DEF Next, Continue, Try

\* The inductive invariant holds in every reachable state.
THEOREM Invariance == Spec => []IInv
<1>1. IInv /\ [Next]_vars => IInv'
  BY TypeStep, ClaimStep, TurnStep, ValueStep DEF IInv
<1> QED
  BY InitIInv, <1>1, PTL DEF Spec

\* Every variable keeps its type; in particular head never passes the bound,
\* also when try_dequeue moves it.
THEOREM TypeCorrect == Spec => []TypeOK
<1>1. IInv => TypeOK
  BY DEF IInv
<1> QED
  BY <1>1, Invariance, PTL

\* No two threads access the value of one slot at the same time, whatever the
\* capacity and the number of threads (mpmc_queue.h:70, 103, 133).
THEOREM Exclusion == Spec => []SlotExclusive
BY Exclusive, Invariance, PTL

\* Every dequeue returns the item enqueued at its position, on machines whose
\* caches are not coherent (mpmc_queue.h:73, 111, 138).
THEOREM FifoItems == Spec => []DequeuesItsItem
<1>1. IInv => DequeuesItsItem
  BY Zenon DEF IInv, ValueInv, ItemInv, DequeuesItsItem
<1> QED
  BY <1>1, Invariance, PTL
=============================================================================
