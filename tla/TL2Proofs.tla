------------------------------ MODULE TL2Proofs -----------------------------
(***************************************************************************)
(* Proofs about TL2 for any number of threads, words and lock words, any   *)
(* mapping of words to lock words and any values.  A program may free      *)
(* memory if the lock words that txSterilize then resets cover words of    *)
(* the freeing thread only (FreesApart).                                   *)
(***************************************************************************)
EXTENDS TL2, TLAPS

\* A transaction stays with the words and the lock words of its program.
UseInv(t) ==
    /\ freePtr[t] \subseteq Blocks[t] /\ Writes(t) \subseteq Uses(t)
    /\ pc[t] \in {"ldlock", "ldword"} => acc[t].addr \in Uses(t)
    /\ pc[t] = "wipe" => todo[t] \subseteq Swept(t)

\* A thread's lock words and versions: what it holds is what it owns, covers
\* its write log, has kept its version, and wv is above it.  What it is about to
\* reset nobody holds.
ThreadInv(t) ==
    /\ pc[t] = "wipe" => Held[t] = {} /\ \A l \in todo[t] : owner[l] = NoThread
    /\ \A l \in Lock : l \in Held[t] <=> owner[l] = t
    /\ Held[t] \subseteq WriteLocks(t)
    /\ pc[t] \in {"idle", "txn", "ldlock", "ldword"} => Held[t] = {}
    /\ pc[t] \in {"cas", "check", "write"} => WriteLocks(t) \subseteq Held[t]
    /\ pc[t] = "check" => todo[t] \subseteq rdSet[t]
    /\ pc[t] = "write" => todo[t] \subseteq Writes(t)
    /\ pc[t] = "drop" => todo[t] = {}
    /\ rv[t] <= clock
    /\ pc[t] = "cas" => gv[t] <= clock /\ rv[t] <= gv[t]
    /\ pc[t] \in {"check", "write", "drop"} =>
         wv[t] <= clock /\ rv[t] < wv[t]
    /\ \A l \in Held[t] :
         /\ rdv[t][l] = ver[l]
         /\ l \in rdSet[t] => ver[l] <= rv[t]
         /\ pc[t] = "cas" => ver[l] <= gv[t]
         /\ pc[t] \in {"check", "write", "drop"} => ver[l] < wv[t]
    /\ pc[t] = "idle" => Writes(t) = {} /\ seen[t] = {}
    /\ pc[t] \in {"lock", "cas", "check"} => Writes(t) # {}
    /\ acc[t].valu # NoValue /\ pc[t] = "ldword" => ~IsRO[t]
    /\ acc[t].valu # NoValue /\ pc[t] = "ldlock" => ~IsRO[t]
    /\ IsRO[t] => Writes(t) = {}
    /\ ~IsRO[t] => \A r \in seen[t] : PSLOCK[r[1]] \in rdSet[t]

\* t is storing its log over a.
Updating(t, a) == pc[t] \in {"write", "drop"} /\ owner[PSLOCK[a]] = t /\ a \in Writes(t)

\* h is the newest committed write of a.
Newest(h, a) == h \in hist /\ h[1] = a /\ \A g \in hist : g[1] = a => g = h \/ g[2] < h[2]

\* The word a has the value w, unless it may be of a freed block.
Is(a, w) == a \notin Freeable => w = mem[a]

\* A word holds its newest committed value and its lock word a version no
\* older, except while a committed transaction is storing it.
WordInv(a) ==
    \/ \E h \in hist : /\ Newest(h, a) /\ Is(a, h[3]) /\ h[2] <= ver[PSLOCK[a]]
                       /\ \A t \in Thread : ~Updating(t, a)
    \/ \E t \in Thread : /\ Updating(t, a)
                         /\ Newest(<<a, wv[t], wrSet[t][a]>>, a)
                         /\ a \notin todo[t] => Is(a, wrSet[t][a])

\* A load between its two reads of the lock word: while the version is the one
\* it saw and nobody is storing the word, it has the word's value.
LoadInv(t) ==
    LET a == acc[t].addr
    IN  /\ pc[t] \in {"ldlock", "ldword"} /\ acc[t].by = NoThread =>
              acc[t].cv <= ver[PSLOCK[a]]
        /\ /\ pc[t] = "ldword" /\ acc[t].by = NoThread
           /\ acc[t].cv = ver[PSLOCK[a]]
           /\ \A u \in Thread : ~Updating(u, a)
           => Is(a, acc[t].word)

\* Whoever holds lock word l will commit with a version above n.
After(l, n) ==
    \A u \in Thread : owner[l] = u =>
        /\ pc[u] = "cas" => n <= gv[u]
        /\ pc[u] = "check" => n < wv[u]

\* What t has loaded stays the value at rv.
SeenInv(t) == Running(t) => \A r \in seen[t] : After(PSLOCK[r[1]], rv[t])

\* A stripe t has validated was not written between rv and wv and will not be.
CheckedInv(t) ==
    pc[t] = "check" => \A l \in rdSet[t] \ todo[t] :
        /\ owner[l] = t \/ After(l, wv[t])
        /\ \A h \in hist : PSLOCK[h[1]] = l => h[2] <= rv[t] \/ h[2] > wv[t]

\* Nor will what a finished transaction read.
DoneInv == \A d \in done : d.wv <= clock /\ \A a \in d.reads : After(PSLOCK[a], d.wv)

ClockInv == \A l \in Lock : ver[l] <= clock

IInv ==
    /\ TypeOK /\ ClockInv
    /\ \A t \in Thread : UseInv(t) /\ ThreadInv(t) /\ LoadInv(t) /\ SeenInv(t) /\ CheckedInv(t)
    /\ \A a \in Addr : WordInv(a)
    /\ DoneInv
    /\ Snapshot /\ Serializable

\* IInv holds initially.
LEMMA InitIInv == Init => IInv
<1> SUFFICES ASSUME Init PROVE IInv
  BY Zenon
<1>1. TypeOK
  BY TL2Assumption DEF Init, TypeOK, Access, NoAccess, NoWrites, Words
<1>2. ASSUME NEW t \in Thread PROVE UseInv(t) /\ ThreadInv(t) /\ LoadInv(t) /\ SeenInv(t) /\ CheckedInv(t)
  <2>1. Writes(t) = {} /\ WriteLocks(t) = {}
    BY Zenon DEF Init, Writes, WriteLocks, NoWrites
  <2>2. /\ pc[t] = "idle" /\ rv[t] = 0 /\ clock = 0 /\ Held[t] = {} /\ freePtr[t] = {}
        /\ seen[t] = {} /\ IsRO[t] = FALSE /\ \A l \in Lock : owner[l] = NoThread
    BY Zenon DEF Init
  <2>3. t # NoThread
    BY TL2Assumption, Zenon
  <2>4. rv[t] <= clock
    BY <2>2, SMT
  <2>5. ThreadInv(t)
    BY <2>1, <2>2, <2>3, <2>4, Zenon DEF ThreadInv
  <2> QED BY <2>1, <2>2, <2>5, Zenon DEF UseInv, LoadInv, SeenInv, CheckedInv, Running
<1>3. ASSUME NEW a \in Addr PROVE WordInv(a)
  <2> DEFINE h == <<a, 0, 0>>
  <2>1. Newest(h, a) /\ h \in hist /\ h[3] = mem[a]
    <3>1. mem[a] = 0 /\ hist = {<<b, 0, 0>> : b \in Addr}
      BY Zenon DEF Init
    <3>2. h[1] = a /\ h[3] = 0
      BY Zenon
    <3>3. ASSUME NEW g \in hist, g[1] = a PROVE g = h
      <4>1. PICK b \in Addr : g = <<b, 0, 0>>
        BY <3>1, Zenon
      <4>2. g[1] = b
        BY <4>1, Zenon
      <4> QED BY <3>3, <4>1, <4>2, Zenon
    <3>4. h \in hist
      BY <3>1, Zenon
    <3> QED BY <3>1, <3>2, <3>3, <3>4, Zenon DEF Newest
  <2>2. h[2] <= ver[PSLOCK[a]]
    BY TL2Assumption DEF Init
  <2>3. \A t \in Thread : ~Updating(t, a)
    BY Zenon DEF Init, Updating
  <2> QED BY <2>1, <2>2, <2>3, Zenon DEF WordInv, Is
<1>4. ClockInv /\ DoneInv /\ Snapshot /\ Serializable
  BY DEF Init, ClockInv, DoneInv, Snapshot, Serializable, Running
<1> QED
  BY <1>1, <1>2, <1>3, <1>4, Zenon DEF IInv

\* The order of versions, for steps that need nothing else of arithmetic.
LEMMA Least == \A i \in Nat : 0 <= i /\ i <= i
BY SMT

LEMMA AtMost ==
  ASSUME NEW i \in Nat, NEW j \in Nat, NEW k \in Nat
  PROVE  /\ i <= i
         /\ i <= j /\ j <= k => i <= k
         /\ i <= j /\ k >= j => i <= k
         /\ i <= j /\ i >= j => i = j
BY SMT

LEMMA Below ==
  ASSUME NEW i \in Nat, NEW j \in Nat, NEW k \in Nat
  PROVE  /\ ~(i < i)
         /\ i < j => i <= j
         /\ i <= j /\ j < k => i < k
         /\ i < j /\ j < k => i < k
BY SMT

\* One step of a thread, its operands named in the disjuncts.
Step(t) == Begin(t) \/ Advance(t)

\* Filling in the word read.
LEMMA AccessWord ==
  ASSUME NEW c \in Access, NEW w \in Words
  PROVE  [c EXCEPT !.word = w] \in Access
BY Zenon DEF Access

\* Blocks are words, and txSterilize visits lock words.
LEMMA SweptLocks ==
  /\ Freeable \subseteq Addr
  /\ \A F \in SUBSET Freeable : UNION {Sweep[a] : a \in F} \subseteq Lock
  /\ \A t \in Thread : Swept(t) \subseteq Lock /\ Blocks[t] \subseteq Freeable
<1>1. Freeable \subseteq Addr /\ \A t \in Thread : Blocks[t] \subseteq Freeable
  BY TL2Assumption, SMT DEF Freeable
<1>2. \A a \in Addr : Sweep[a] \subseteq Lock
  BY TL2Assumption, SMT
<1>3. ASSUME NEW F \in SUBSET Freeable PROVE UNION {Sweep[a] : a \in F} \subseteq Lock
  BY <1>1, <1>2, <1>3, Zenon
<1> QED BY <1>1, <1>3, Zenon DEF Swept

\* Every step keeps the types.
LEMMA TypeStep ==
  ASSUME TypeOK, NEW t \in Thread, ThreadInv(t), Step(t)
  PROVE  TypeOK'
<1> USE TL2Assumption DEF TypeOK, Move, shared, txn, commit, ghosts
<1>a. NoAccess \in Access
  BY Zenon DEF NoAccess, Access, Words
<1>b. NoWrites \in [Addr -> Value \cup {NoValue}]
  BY Zenon DEF NoWrites
<1>c. ASSUME Finish(t), mem' \in [Addr -> Words], UNCHANGED <<owner, ver, clock>> PROVE TypeOK'
  BY <1>b, <1>c, Zenon DEF Finish
<1>d. ASSUME Track(t) PROVE /\ seen' \in [Thread -> SUBSET (Addr \X Words)]
                            /\ rdSet' \in [Thread -> SUBSET Lock]
                            /\ wrSet' = wrSet
  <2>1. <<acc[t].addr, acc[t].word>> \in Addr \X Words /\ PSLOCK[acc[t].addr] \in Lock
    BY Zenon DEF Access
  <2> QED BY <1>d, <2>1, Zenon DEF Track
<1>1. ASSUME NEW isRO \in BOOLEAN, TxStart(t, isRO) PROVE TypeOK'
  BY <1>1, Zenon DEF TxStart
<1>2. ASSUME NEW a \in Addr, NEW v \in Value \cup {NoValue}, BeginAccess(t, a, v) PROVE TypeOK'
  BY <1>2, SMTT(30) DEF BeginAccess, Access, Words
<1>3. ASSUME StoreInReadOnly(t) PROVE TypeOK'
  BY <1>3, Zenon DEF StoreInReadOnly
<1>4. ASSUME LoadWord(t) PROVE TypeOK'
  <2>1. mem[acc[t].addr] \in Words
    BY Zenon DEF Access
  <2>2. acc' \in [Thread -> Access]
    <3>1. [acc[t] EXCEPT !.word = mem[acc[t].addr]] \in Access
      BY <2>1, AccessWord, Zenon
    <3>2. acc' = [acc EXCEPT ![t] = [acc[t] EXCEPT !.word = mem[acc[t].addr]]]
      BY <1>4, Zenon DEF LoadWord
    <3> QED BY <3>1, <3>2, Zenon
  <2> QED BY <1>4, <2>2, Zenon DEF LoadWord
<1>5. ASSUME EndLoad(t) PROVE TypeOK'
  BY <1>5, <1>a, <1>d, Zenon DEF EndLoad
<1>6. ASSUME EndStore(t) PROVE TypeOK'
  <2>1. CASE Track(t)
    BY <1>6, <1>a, <1>d, <2>1, Zenon DEF EndStore
  <2>2. CASE Record(t, acc[t].addr, acc[t].valu)
    BY <1>6, <1>a, <2>2, Zenon DEF EndStore, Record, Access
  <2> QED BY <1>6, <2>1, <2>2, Zenon DEF EndStore
<1>7. ASSUME NEW a \in Addr, TxFree(t, a) PROVE TypeOK'
  BY <1>7 DEF TxFree, Record, Freeable
<1>8. ASSUME TxCommit(t) PROVE TypeOK'
  BY <1>8, <1>c, Zenon DEF TxCommit
<1>9. ASSUME NEW l \in Lock, LockStripe(t, l) PROVE TypeOK'
  BY <1>9, Zenon DEF LockStripe
<1>10. ASSUME NEW l \in Lock, LockFails(t, l) PROVE TypeOK'
  BY <1>10, Zenon DEF LockFails
<1>11. ASSUME ReadClock(t) PROVE TypeOK'
  BY <1>11, Zenon DEF ReadClock
<1>12. ASSUME GenerateWV(t) PROVE TypeOK'
  BY <1>12 DEF GenerateWV
<1>13. ASSUME NEW l \in Lock, CheckStripe(t, l) PROVE TypeOK'
  <2>1. todo[t] \ {l} \subseteq Lock \cup Addr
    BY Zenon
  <2>2. todo' \in [Thread -> SUBSET (Lock \cup Addr)]
    BY <1>13, <2>1, ZenonT(30) DEF CheckStripe
  <2> QED BY <1>13, <2>2, Zenon DEF CheckStripe
<1>14. ASSUME Decide(t) PROVE TypeOK'
  BY <1>14, SMTT(30) DEF Decide, Writes
<1>15. ASSUME NEW a \in Addr, WriteBack(t, a) PROVE TypeOK'
  <2>1. wrSet[t][a] \in Words
    BY <1>15 DEF WriteBack, ThreadInv, Writes, Words
  <2>2. todo[t] \ {a} \subseteq Lock \cup Addr
    BY Zenon
  <2> QED BY <1>15, <2>1, <2>2, Zenon DEF WriteBack
<1>16. ASSUME NEW l \in Lock, DropLock(t, l) PROVE TypeOK'
  BY <1>16, Zenon DEF DropLock, Release
<1>17. ASSUME AfterCommit(t) PROVE TypeOK'
  <2> DEFINE S == UNION {Sweep[a] : a \in freePtr[t]}
  <2>1. S \subseteq Lock \cup Addr
    <3>1. freePtr[t] \in SUBSET Freeable
      BY Zenon
    <3> HIDE DEF TypeOK
    <3> QED BY <3>1, SweptLocks, Zenon
  <2>2. CASE freePtr[t] # {}
    <3>1. todo' \in [Thread -> SUBSET (Lock \cup Addr)]
      <4>1. todo' = [todo EXCEPT ![t] = S] /\ todo \in [Thread -> SUBSET (Lock \cup Addr)]
        BY <1>17, <2>2, Zenon DEF AfterCommit
      <4> HIDE DEF TypeOK, S
      <4> QED BY <2>1, <4>1, Zenon
    <3> QED BY <1>17, <2>2, <3>1, Zenon DEF AfterCommit
  <2> QED BY <1>17, <1>c, <2>2, Zenon DEF AfterCommit
<1>18. ASSUME NEW l \in Lock, SterilizeLock(t, l) PROVE TypeOK'
  <2>1. todo[t] \ {l} \subseteq Lock \cup Addr
    BY Zenon
  <2>2. todo' \in [Thread -> SUBSET (Lock \cup Addr)]
    BY <1>18, <2>1, Zenon DEF SterilizeLock
  <2>3. owner' \in [Lock -> Thread \cup {NoThread}] /\ ver' \in [Lock -> Nat]
    <3>1. /\ owner \in [Lock -> Thread \cup {NoThread}] /\ ver \in [Lock -> Nat] /\ clock \in Nat
          /\ \/ owner' = [owner EXCEPT ![l] = NoThread] /\ ver' = [ver EXCEPT ![l] = clock]
             \/ owner' = owner /\ ver' = ver
      BY <1>18, Zenon DEF SterilizeLock
    <3> HIDE DEF TypeOK
    <3> QED BY <3>1, SMT
  <2> QED BY <1>18, <2>2, <2>3, Zenon DEF SterilizeLock
<1>19. ASSUME SterilizeWord(t) PROVE TypeOK'
  BY <1>19, <1>c, Zenon DEF SterilizeWord, Words
<1>20. ASSUME NEW l \in Lock, RestoreLock(t, l) PROVE TypeOK'
  BY <1>20 DEF RestoreLock, Release
<1>21. ASSUME Restart(t) PROVE TypeOK'
  BY <1>21, <1>c, Zenon DEF Restart
<1> QED
  BY <1>1, <1>2, <1>3, <1>4, <1>5, <1>6, <1>7, <1>8, <1>9, <1>10, <1>11, <1>12, <1>13,
     <1>14, <1>15, <1>16, <1>17, <1>18, <1>19, <1>20, <1>21, Zenon DEF Step, Begin, Advance

\* The fields of a thread.
Same(u) ==
    /\ pc'[u] = pc[u] /\ IsRO'[u] = IsRO[u] /\ rv'[u] = rv[u]
    /\ rdSet'[u] = rdSet[u] /\ wrSet'[u] = wrSet[u] /\ freePtr'[u] = freePtr[u]
    /\ seen'[u] = seen[u] /\ acc'[u] = acc[u] /\ gv'[u] = gv[u] /\ wv'[u] = wv[u]
    /\ Held'[u] = Held[u] /\ rdv'[u] = rdv[u] /\ todo'[u] = todo[u]

\* A step changes the fields of its own thread only.
LEMMA Frame ==
  ASSUME TypeOK, NEW t \in Thread, Step(t), NEW u \in Thread, u # t
  PROVE  Same(u)
<1> USE DEF TypeOK, Move, shared, txn, commit, ghosts, Same
<1>1. ASSUME Finish(t) PROVE Same(u)
  BY <1>1, Zenon DEF Finish
<1>2. CASE \E isRO \in BOOLEAN : TxStart(t, isRO)
  BY <1>2, Zenon DEF TxStart
<1>3. CASE \E a \in Addr, v \in Value \cup {NoValue} : BeginAccess(t, a, v)
  BY <1>3, SMT DEF BeginAccess
<1>4. CASE StoreInReadOnly(t) \/ LoadWord(t)
  BY <1>4, Zenon DEF StoreInReadOnly, LoadWord
<1>5. CASE EndLoad(t) \/ EndStore(t)
  BY <1>5, SMTT(30) DEF EndLoad, EndStore, Track, Record
<1>6. CASE \E a \in Addr : TxFree(t, a)
  BY <1>6, Zenon DEF TxFree, Record
<1>7. CASE TxCommit(t) \/ AfterCommit(t) \/ SterilizeWord(t) \/ Restart(t)
  BY <1>1, <1>7, Zenon DEF TxCommit, AfterCommit, SterilizeWord, Restart
<1>8. CASE \E l \in Lock : LockStripe(t, l) \/ LockFails(t, l) \/ CheckStripe(t, l)
  BY <1>8 DEF LockStripe, LockFails, CheckStripe
<1>9. CASE ReadClock(t) \/ GenerateWV(t) \/ Decide(t)
  BY <1>9, Zenon DEF ReadClock, GenerateWV, Decide
<1>10. CASE \E a \in Addr : WriteBack(t, a)
  BY <1>10, Zenon DEF WriteBack
<1>11. CASE \E l \in Lock : DropLock(t, l) \/ RestoreLock(t, l) \/ SterilizeLock(t, l)
  BY <1>11 DEF DropLock, RestoreLock, SterilizeLock, Release
<1> QED
  BY <1>2, <1>3, <1>4, <1>5, <1>6, <1>7, <1>8, <1>9, <1>10, <1>11, Zenon DEF Step, Begin, Advance

\* What a step of t does to a lock word: nothing, acquire it, release it with
\* the commit's version, restore it, or give it the clock's version.
Word(t, l) ==
    \/ owner'[l] = owner[l] /\ ver'[l] = ver[l]
    \/ /\ owner[l] = NoThread /\ owner'[l] = t /\ ver'[l] = ver[l]
       /\ pc[t] = "lock" /\ pc'[t] = "lock" /\ l \in WriteLocks(t)
    \/ /\ owner[l] = t /\ owner'[l] = NoThread /\ ver'[l] = wv[t]
       /\ pc[t] \in {"write", "drop"} /\ pc'[t] = "drop" /\ todo[t] = {}
    \/ /\ owner[l] = t /\ owner'[l] = NoThread /\ ver'[l] = ver[l]
       /\ pc[t] = "abort" /\ pc'[t] = "abort"
    \/ /\ owner[l] = NoThread /\ owner'[l] = NoThread /\ ver'[l] = clock
       /\ pc[t] = "wipe" /\ pc'[t] = "wipe"

\* The clock never goes back and lock words change only in those ways.
LEMMA LockWords ==
  ASSUME TypeOK, NEW t \in Thread, ThreadInv(t), Step(t)
  PROVE  clock' >= clock /\ \A l \in Lock : Word(t, l)
<1> USE DEF TypeOK, Move, shared, txn, commit, ghosts
<1>1. CASE UNCHANGED <<owner, ver, clock>>
  BY <1>1 DEF Word
<1>2. CASE \E l \in Lock : LockStripe(t, l)
  BY <1>2 DEF LockStripe, Word
<1>3. CASE GenerateWV(t)
  BY <1>3 DEF GenerateWV, Word
<1>4. CASE \E l \in Lock : DropLock(t, l)
  BY <1>4 DEF DropLock, Release, Word, ThreadInv
<1>5. CASE \E l \in Lock : RestoreLock(t, l)
  BY <1>5 DEF RestoreLock, Release, Word, ThreadInv
<1>6. ASSUME NEW l \in Lock, SterilizeLock(t, l) PROVE clock' >= clock /\ \A m \in Lock : Word(t, m)
  <2>1. /\ pc[t] = "wipe" /\ pc' = pc /\ clock' = clock /\ owner[l] = NoThread
        /\ \/ owner' = [owner EXCEPT ![l] = NoThread] /\ ver' = [ver EXCEPT ![l] = clock]
           \/ owner' = owner /\ ver' = ver
    BY <1>6, Zenon DEF SterilizeLock, ThreadInv
  <2>2. clock' >= clock
    BY <2>1, SMT
  <2> QED BY <2>1, <2>2, Zenon DEF Word
<1>7. ASSUME ~\E l \in Lock : \/ LockStripe(t, l) \/ DropLock(t, l) \/ RestoreLock(t, l)
                              \/ SterilizeLock(t, l),
             ~GenerateWV(t)
      PROVE  UNCHANGED <<owner, ver, clock>>
  BY <1>7, Zenon DEF Step, Begin, Advance, TxStart, BeginAccess, StoreInReadOnly, LoadWord,
     EndLoad, EndStore, TxFree, TxCommit, LockFails, ReadClock, CheckStripe, Decide,
     WriteBack, AfterCommit, SterilizeWord, Restart
<1> QED
  BY <1>1, <1>2, <1>3, <1>4, <1>5, <1>6, <1>7, Zenon

\* Nobody else uses a word of a lock word that t may reset, so nobody else holds it.
LEMMA SweptApart ==
  ASSUME FreesApart, NEW t \in Thread, NEW u \in Thread, u # t, UseInv(u), NEW l \in Swept(t)
  PROVE  l \notin WriteLocks(u)
BY Zenon DEF FreesApart, UseInv, WriteLocks

LEMMA SweptFree ==
  ASSUME FreesApart, NEW t \in Thread, \A u \in Thread : ThreadInv(u) /\ UseInv(u), TypeOK,
         NEW l \in Swept(t)
  PROVE  owner[l] \in {t, NoThread}
<1>1. l \in Lock
  BY SweptLocks, Zenon
<1>2. owner[l] \in Thread \cup {NoThread}
  BY <1>1, Zenon DEF TypeOK
<1>3. ASSUME NEW u \in Thread, u # t PROVE owner[l] # u
  <2>1. UseInv(u) /\ ThreadInv(u)
    OBVIOUS
  <2>2. l \notin WriteLocks(u)
    BY <1>3, <2>1, SweptApart, Zenon
  <2> QED BY <1>1, <2>1, <2>2, Zenon DEF ThreadInv
<1> QED BY <1>2, <1>3, Zenon

\* Another thread's lock words and versions are kept.
LEMMA OtherThread ==
  ASSUME FreesApart, TypeOK, NEW t \in Thread, ThreadInv(t), UseInv(t), Step(t),
         NEW u \in Thread, u # t, ThreadInv(u), UseInv(u)
  PROVE  ThreadInv(u)'
<1>1. Same(u)
  BY Frame, Zenon
<1>2. clock' >= clock /\ \A l \in Lock : Word(t, l)
  BY LockWords, Zenon
<1>3. Writes(u)' = Writes(u) /\ WriteLocks(u)' = WriteLocks(u)
  BY <1>1, Zenon DEF Same, Writes, WriteLocks
<1>4. clock' \in Nat
  BY TypeStep, Zenon DEF TypeOK
<1>5. \A l \in Lock : /\ l \in Held'[u] <=> owner'[l] = u
                      /\ l \in Held[u] => ver'[l] = ver[l]
  BY <1>1, <1>2, TL2Assumption, SMTT(30) DEF Same, Word, ThreadInv, TypeOK
<1>6. rv[u] <= clock' /\ (gv[u] <= clock => gv[u] <= clock') /\ (wv[u] <= clock => wv[u] <= clock')
  BY <1>2, <1>4, SMTT(30) DEF ThreadInv, TypeOK
<1>7. Held[u] \subseteq Lock
  BY Zenon DEF TypeOK
<1>8. ASSUME pc[u] = "wipe", NEW l \in todo[u] PROVE owner'[l] = NoThread
  <2>1. l \in Swept(u) /\ owner[l] = NoThread
    BY <1>8, Zenon DEF UseInv, ThreadInv
  <2>2. l \in Lock
    BY <2>1, SweptLocks, Zenon
  <2>3. l \notin WriteLocks(t)
    BY <2>1, SweptApart, Zenon
  <2> QED BY <1>2, <2>1, <2>2, <2>3, Zenon DEF Word
<1> QED
  BY <1>1, <1>3, <1>5, <1>6, <1>7, <1>8, SMTT(30) DEF Same, ThreadInv

\* Transactions stay with their words.
LEMMA UseStep ==
  ASSUME TypeOK, NEW t \in Thread, Step(t), NEW u \in Thread, UseInv(u)
  PROVE  UseInv(u)'
<1>1. CASE u # t
  BY <1>1, Frame, Zenon DEF Same, UseInv, Writes
<1>2. ASSUME UseInv(t) PROVE UseInv(t)'
  <2> USE DEF Move, shared, txn, commit, ghosts
  <2>0. UseInv(t)
    BY <1>2, Zenon
  <2>w. ASSUME wrSet'[t] = wrSet[t] PROVE Writes(t)' \subseteq Uses(t)
    BY <2>0, <2>w, Zenon DEF Writes, UseInv
  <2>f. ASSUME Finish(t) PROVE UseInv(t)'
    <3>1. freePtr'[t] = {} /\ wrSet'[t] = NoWrites /\ pc'[t] = "idle"
      BY <2>f, Zenon DEF Finish, TypeOK
    <3>2. Writes(t)' = {}
      BY <3>1, Zenon DEF Writes, NoWrites
    <3> QED BY <3>1, <3>2, Zenon DEF UseInv
  <2>r. ASSUME NEW a \in Uses(t), NEW x, Record(t, a, x) PROVE Writes(t)' \subseteq Uses(t)
    <3>1. \A b \in Addr : b # a => wrSet'[t][b] = wrSet[t][b]
      BY <2>r, Zenon DEF Record, TypeOK
    <3> QED BY <2>0, <3>1, Zenon DEF Writes, UseInv
  <2>1. ASSUME NEW a \in Addr, NEW x \in Value \cup {NoValue}, BeginAccess(t, a, x) PROVE UseInv(t)'
    <3>1. /\ acc'[t].addr = a /\ a \in Uses(t) /\ freePtr' = freePtr /\ wrSet' = wrSet
          /\ pc'[t] = "ldlock"
      BY <2>1, Zenon DEF BeginAccess, TypeOK, Uses
    <3> QED BY <2>0, <2>w, <3>1, Zenon DEF UseInv
  <2>2. CASE LoadWord(t)
    <3>1. /\ acc'[t].addr = acc[t].addr /\ pc[t] = "ldlock" /\ pc'[t] = "ldword"
          /\ freePtr' = freePtr /\ wrSet' = wrSet
      BY <2>2, SMT DEF LoadWord, Access, TypeOK
    <3> QED BY <2>0, <2>w, <3>1, Zenon DEF UseInv
  <2>3. CASE EndLoad(t) \/ EndStore(t)
    <3>1. acc[t].addr \in Uses(t) /\ pc'[t] \in {"txn", "abort"} /\ freePtr' = freePtr
      BY <2>0, <2>3, Zenon DEF EndLoad, EndStore, UseInv, TypeOK
    <3>2. wrSet' = wrSet \/ \E x : Record(t, acc[t].addr, x)
      BY <2>3, Zenon DEF EndLoad, EndStore, Track
    <3>3. Writes(t)' \subseteq Uses(t)
      BY <2>w, <2>r, <3>1, <3>2, Zenon
    <3> QED BY <2>0, <3>1, <3>3, Zenon DEF UseInv
  <2>4. ASSUME NEW a \in Addr, TxFree(t, a) PROVE UseInv(t)'
    <3>1. /\ a \in Uses(t) /\ Record(t, a, 0) /\ pc' = pc /\ pc[t] = "txn"
          /\ freePtr'[t] \subseteq Blocks[t]
      BY <2>0, <2>4, Zenon DEF TxFree, Uses, UseInv, TypeOK
    <3> QED BY <2>r, <3>1, Zenon DEF UseInv
  <2>5. ASSUME AfterCommit(t), freePtr[t] # {} PROVE UseInv(t)'
    <3>1. /\ freePtr' = freePtr /\ wrSet' = wrSet /\ pc'[t] = "wipe"
          /\ todo'[t] = UNION {Sweep[a] : a \in freePtr[t]}
      BY <2>5, Zenon DEF AfterCommit, TypeOK
    <3>2. todo'[t] \subseteq Swept(t)
      BY <2>0, <3>1, Zenon DEF UseInv, Swept
    <3> QED BY <2>0, <2>w, <3>1, <3>2, Zenon DEF UseInv
  <2>6. ASSUME NEW l \in Lock, SterilizeLock(t, l) PROVE UseInv(t)'
    <3>1. /\ freePtr' = freePtr /\ wrSet' = wrSet /\ pc' = pc /\ pc[t] = "wipe"
          /\ todo'[t] \subseteq todo[t]
      BY <2>6, Zenon DEF SterilizeLock, TypeOK
    <3> QED BY <2>0, <2>w, <3>1, Zenon DEF UseInv
  <2>7. CASE freePtr' = freePtr /\ wrSet' = wrSet /\ pc'[t] \notin {"ldlock", "ldword", "wipe"}
    BY <2>0, <2>7, <2>w, Zenon DEF UseInv
  <2>8. CASE /\ ~LoadWord(t) /\ ~EndLoad(t) /\ ~EndStore(t)
             /\ ~\E a \in Addr : TxFree(t, a) \/ \E x \in Value \cup {NoValue} : BeginAccess(t, a, x)
             /\ ~\E l \in Lock : SterilizeLock(t, l)
    <3>0. pc \in [Thread -> {"idle", "txn", "ldlock", "ldword", "lock", "cas",
                             "check", "write", "drop", "wipe", "abort"}]
      BY Zenon DEF TypeOK
    <3>1. CASE SterilizeWord(t) \/ Restart(t)
      BY <2>f, <3>1, Zenon DEF SterilizeWord, Restart
    <3>2. CASE AfterCommit(t)
      BY <2>5, <2>f, <3>2, Zenon DEF AfterCommit
    <3>3. CASE TxCommit(t)
      BY <2>7, <2>f, <3>0, <3>3, Zenon DEF TxCommit
    <3>4. CASE ReadClock(t) \/ GenerateWV(t) \/ Decide(t) \/ StoreInReadOnly(t)
      BY <2>7, <3>0, <3>4, Zenon DEF ReadClock, GenerateWV, Decide, StoreInReadOnly
    <3>5. CASE \E l \in Lock : LockStripe(t, l) \/ LockFails(t, l) \/ CheckStripe(t, l)
      BY <2>7, <3>0, <3>5, Zenon DEF LockStripe, LockFails, CheckStripe
    <3>6. CASE \E l \in Lock : DropLock(t, l) \/ RestoreLock(t, l)
      BY <2>7, <3>0, <3>6, Zenon DEF DropLock, RestoreLock, Release
    <3>7. CASE (\E a \in Addr : WriteBack(t, a)) \/ \E isRO \in BOOLEAN : TxStart(t, isRO)
      BY <2>7, <3>0, <3>7, Zenon DEF WriteBack, TxStart
    <3> QED BY <2>8, <3>1, <3>2, <3>3, <3>4, <3>5, <3>6, <3>7, Zenon DEF Step, Begin, Advance
  <2> QED
    BY <2>1, <2>2, <2>3, <2>4, <2>6, <2>8, Zenon
<1> QED BY <1>1, <1>2, Zenon

\* GVGenerateWV_GV4 returns a version above the one it read, whoever wins.
LEMMA NextVersion ==
  ASSUME NEW c \in Nat, NEW g \in Nat, g <= c
  PROVE  LET d == IF c = g THEN g + 2 ELSE c IN d \in Nat /\ g < d /\ c <= d
OBVIOUS

\* The stepping thread's lock words and versions are kept.
LEMMA OwnThread ==
  ASSUME TypeOK, ClockInv, NEW t \in Thread, ThreadInv(t), UseInv(t), Step(t),
         \A l \in Swept(t) : owner[l] \in {t, NoThread}
  PROVE  ThreadInv(t)'
<1> USE TL2Assumption DEF TypeOK, Move, shared, txn, commit, ghosts
<1>w. ASSUME wrSet'[t] = wrSet[t] PROVE Writes(t)' = Writes(t) /\ WriteLocks(t)' = WriteLocks(t)
  BY <1>w DEF Writes, WriteLocks
<1>t. ASSUME Track(t), IsRO'[t] = IsRO[t]
      PROVE  /\ Writes(t)' = Writes(t) /\ WriteLocks(t)' = WriteLocks(t)
             /\ (~IsRO[t] => \A r \in seen[t] : PSLOCK[r[1]] \in rdSet[t])
                   => (~IsRO'[t] => \A r \in seen'[t] : PSLOCK[r[1]] \in rdSet'[t])
  BY <1>t, <1>w DEF Track
<1>f. ASSUME Finish(t), Held[t] = {}, UNCHANGED <<owner, ver, clock>> PROVE ThreadInv(t)'
  <2>1. Writes(t)' = {} /\ WriteLocks(t)' = {}
    BY <1>f, SMTT(30) DEF Finish, Writes, WriteLocks, NoWrites
  <2>2. /\ pc'[t] = "idle" /\ rv'[t] = 0 /\ seen'[t] = {} /\ IsRO'[t] = FALSE
        /\ Held' = Held /\ 0 <= clock
    BY <1>f, Least, Zenon DEF Finish
  <2>3. t # NoThread
    BY Zenon
  <2> HIDE DEF TypeOK
  <2> QED BY <1>f, <2>1, <2>2, <2>3, Zenon DEF ThreadInv
<1>1. ASSUME NEW isRO \in BOOLEAN, TxStart(t, isRO) PROVE ThreadInv(t)'
  <2>1. Writes(t)' = {} /\ WriteLocks(t)' = {} /\ seen'[t] = {} /\ Held'[t] = {}
    BY <1>1, <1>w, SMTT(30) DEF TxStart, ThreadInv, WriteLocks
  <2>2. /\ pc[t] = "idle" /\ pc'[t] = "txn" /\ rv'[t] = clock /\ clock <= clock
        /\ UNCHANGED <<shared, Held>>
    BY <1>1, Least, Zenon DEF TxStart
  <2> HIDE DEF TypeOK
  <2> QED BY <2>1, <2>2, Zenon DEF ThreadInv
<1>2. ASSUME NEW a \in Addr, NEW v \in Value \cup {NoValue}, BeginAccess(t, a, v) PROVE ThreadInv(t)'
  BY <1>2, <1>w, Zenon DEF BeginAccess, ThreadInv
<1>3. ASSUME StoreInReadOnly(t) PROVE ThreadInv(t)'
  BY <1>3, <1>w, Zenon DEF StoreInReadOnly, ThreadInv
<1>4. ASSUME LoadWord(t) PROVE ThreadInv(t)'
  <2>1. /\ pc[t] = "ldlock" /\ pc'[t] = "ldword" /\ UNCHANGED <<shared, txn, commit>>
        /\ acc' = [acc EXCEPT ![t].word = mem[acc[t].addr]] /\ acc \in [Thread -> Access]
    BY <1>4, Zenon DEF LoadWord
  <2> HIDE DEF TypeOK
  <2>2. acc'[t].valu = acc[t].valu
    BY <2>1, SMT DEF Access
  <2> QED BY <1>w, <2>1, <2>2, Zenon DEF ThreadInv
<1>5. ASSUME EndLoad(t) PROVE ThreadInv(t)'
  <2>1. CASE ~Coherent(t)
    <3>1. /\ pc[t] = "ldword" /\ pc'[t] = "abort" /\ UNCHANGED <<shared, txn, commit>>
      BY <1>5, <2>1, Zenon DEF EndLoad
    <3> HIDE DEF TypeOK
    <3> QED BY <1>w, <3>1, Zenon DEF ThreadInv
  <2>2. CASE Coherent(t) /\ Track(t)
    <3>1. /\ pc[t] = "ldword" /\ pc'[t] = "txn"
          /\ UNCHANGED <<shared, IsRO, rv, freePtr, ops, commit>>
      BY <1>5, <2>2, Zenon DEF EndLoad
    <3> HIDE DEF TypeOK
    <3> QED BY <1>t, <2>2, <3>1, Zenon DEF ThreadInv
  <2> QED BY <1>5, <2>1, <2>2, Zenon DEF EndLoad
<1>6. ASSUME EndStore(t) PROVE ThreadInv(t)'
  <2>1. ~IsRO[t] /\ Held[t] = {}
    BY <1>6, Zenon DEF EndStore, ThreadInv
  <2>2. CASE Track(t)
    BY <1>6, <1>t, <2>2, Zenon DEF EndStore, ThreadInv
  <2>3. CASE Record(t, acc[t].addr, acc[t].valu)
    BY <1>6, <2>1, <2>3, Zenon DEF EndStore, Record, ThreadInv
  <2> QED BY <1>6, <2>2, <2>3, Zenon DEF EndStore
<1>7. ASSUME NEW a \in Addr, TxFree(t, a) PROVE ThreadInv(t)'
  BY <1>7, Zenon DEF TxFree, Record, ThreadInv
<1>8. ASSUME TxCommit(t) PROVE ThreadInv(t)'
  BY <1>8, <1>w, <1>f, Zenon DEF TxCommit, ThreadInv
<1>9. ASSUME NEW l \in Lock, LockStripe(t, l) PROVE ThreadInv(t)'
  <2>1. /\ pc[t] = "lock" /\ pc' = pc /\ l \in WriteLocks(t)
        /\ l \in rdSet[t] => ver[l] <= rv[t]
        /\ owner[l] = NoThread /\ owner'[l] = t /\ \A m \in Lock : m # l => owner'[m] = owner[m]
        /\ Held'[t] = Held[t] \cup {l} /\ Held[t] \subseteq Lock
        /\ rdv'[t][l] = ver[l] /\ \A m \in Lock : m # l => rdv'[t][m] = rdv[t][m]
        /\ UNCHANGED <<ver, clock, txn, acc, gv, wv, todo>>
    BY <1>9, Zenon DEF LockStripe
  <2> HIDE DEF TypeOK
  <2>2. \A m \in Held'[t] : /\ rdv'[t][m] = ver'[m]
                            /\ m \in rdSet'[t] => ver'[m] <= rv'[t]
    BY <2>1, Zenon DEF ThreadInv
  <2>3. \A m \in Lock : m \in Held'[t] <=> owner'[m] = t
    BY <2>1, Zenon DEF ThreadInv
  <2>4. Held'[t] \subseteq WriteLocks(t)' /\ Writes(t)' = Writes(t)
    BY <1>w, <2>1, Zenon DEF ThreadInv
  <2>5. /\ pc'[t] = "lock" /\ rv'[t] = rv[t] /\ clock' = clock /\ Writes(t)' # {}
        /\ IsRO' = IsRO /\ seen' = seen /\ rdSet' = rdSet
    BY <2>1, <2>4, Zenon DEF ThreadInv
  <2> QED BY <2>2, <2>3, <2>4, <2>5, Zenon DEF ThreadInv
<1>10. ASSUME NEW l \in Lock, LockFails(t, l) PROVE ThreadInv(t)'
  <2>1. /\ pc[t] = "lock" /\ pc'[t] = "abort" /\ UNCHANGED <<shared, txn, acc, commit>>
    BY <1>10, Zenon DEF LockFails
  <2> HIDE DEF TypeOK
  <2> QED BY <1>w, <2>1, Zenon DEF ThreadInv
<1>11. ASSUME ReadClock(t) PROVE ThreadInv(t)'
  <2>1. /\ pc[t] = "lock" /\ pc'[t] = "cas" /\ WriteLocks(t) \subseteq Held[t]
        /\ gv'[t] = clock /\ clock <= clock /\ \A l \in Held[t] : ver[l] <= clock
        /\ UNCHANGED <<shared, txn, acc, wv, Held, rdv, todo>>
    BY <1>11, Least, Zenon DEF ReadClock, ClockInv
  <2> HIDE DEF TypeOK
  <2> QED BY <1>w, <2>1, Zenon DEF ThreadInv
<1>12. ASSUME GenerateWV(t) PROVE ThreadInv(t)'
  <2>1. clock' \in Nat /\ gv[t] < clock' /\ clock <= clock' /\ wv'[t] = clock'
    <3>1. pc[t] = "cas" /\ gv[t] <= clock /\ gv[t] \in Nat /\ clock \in Nat
      BY <1>12, Zenon DEF GenerateWV, ThreadInv
    <3>2. clock' = IF clock = gv[t] THEN gv[t] + 2 ELSE clock
      BY <1>12, Zenon DEF GenerateWV
    <3>3. wv'[t] = clock'
      BY <1>12, Zenon DEF GenerateWV
    <3> HIDE DEF TypeOK
    <3> QED BY <3>1, <3>2, <3>3, SMT
  <2>2. \A l \in Held[t] : ver[l] < clock' /\ l \in Lock
    <3> TAKE l \in Held[t]
    <3>1. l \in Lock /\ ver[l] \in Nat /\ gv[t] \in Nat
      BY Zenon
    <3>2. ver[l] <= gv[t]
      BY <1>12, Zenon DEF GenerateWV, ThreadInv
    <3> QED BY <2>1, <3>1, <3>2, Below, Zenon
  <2>3. rv[t] < clock' /\ rv[t] <= clock'
    <3>1. rv[t] \in Nat /\ gv[t] \in Nat
      BY Zenon
    <3>2. rv[t] <= gv[t]
      BY <1>12, Zenon DEF GenerateWV, ThreadInv
    <3>3. rv[t] < clock'
      BY <2>1, <3>1, <3>2, Below, Zenon
    <3> QED BY <2>1, <3>1, <3>3, Below, Zenon
  <2>4. /\ pc[t] = "cas" /\ pc'[t] = "check" /\ todo'[t] = rdSet[t] /\ clock' <= clock'
        /\ UNCHANGED <<owner, ver, txn, acc, gv, Held, rdv>>
    BY <1>12, <2>1, Least, Zenon DEF GenerateWV
  <2> HIDE DEF TypeOK
  <2> QED BY <1>w, <2>1, <2>2, <2>3, <2>4, Zenon DEF ThreadInv
<1>13. ASSUME NEW l \in Lock, CheckStripe(t, l) PROVE ThreadInv(t)'
  <2>1. /\ pc[t] = "check" /\ pc'[t] \in {"check", "abort"} /\ todo'[t] \subseteq todo[t]
        /\ UNCHANGED <<shared, txn, acc, gv, wv, Held, rdv>>
    <3>1. CASE todo' = [todo EXCEPT ![t] = @ \ {l}] /\ pc' = pc
      BY <1>13, <3>1, Zenon DEF CheckStripe
    <3>2. CASE Move(t, "abort") /\ todo' = todo
      BY <1>13, <3>2, Zenon DEF CheckStripe
    <3> QED BY <1>13, <3>1, <3>2, Zenon DEF CheckStripe
  <2> HIDE DEF TypeOK
  <2> QED BY <1>w, <2>1, Zenon DEF ThreadInv
<1>14. ASSUME Decide(t) PROVE ThreadInv(t)'
  <2>1. /\ pc[t] = "check" /\ pc'[t] = "write" /\ todo'[t] = Writes(t)
        /\ UNCHANGED <<shared, txn, acc, gv, wv, Held, rdv>>
    BY <1>14, Zenon DEF Decide
  <2> HIDE DEF TypeOK
  <2> QED BY <1>w, <2>1, Zenon DEF ThreadInv
<1>15. ASSUME NEW a \in Addr, WriteBack(t, a) PROVE ThreadInv(t)'
  <2>1. /\ pc[t] = "write" /\ pc' = pc /\ todo'[t] \subseteq todo[t]
        /\ UNCHANGED <<owner, ver, clock, txn, acc, gv, wv, Held, rdv>>
    BY <1>15, Zenon DEF WriteBack
  <2> HIDE DEF TypeOK
  <2> QED BY <1>w, <2>1, Zenon DEF ThreadInv
<1>16. ASSUME NEW l \in Lock, DropLock(t, l) PROVE ThreadInv(t)'
  <2>1. /\ pc[t] \in {"write", "drop"} /\ pc'[t] = "drop" /\ todo[t] = {}
        /\ owner'[l] = NoThread
        /\ \A m \in Lock : m # l => owner'[m] = owner[m] /\ ver'[m] = ver[m]
        /\ Held'[t] = Held[t] \ {l} /\ Held[t] \subseteq Lock /\ t # NoThread
        /\ UNCHANGED <<clock, txn, acc, gv, wv, rdv, todo>>
    BY <1>16, Zenon DEF DropLock, Release
  <2> HIDE DEF TypeOK
  <2>2. \A m \in Lock : m \in Held'[t] <=> owner'[m] = t
    BY <2>1, Zenon DEF ThreadInv
  <2>3. \A m \in Held'[t] : m \in Held[t] /\ ver'[m] = ver[m]
    BY <2>1, Zenon
  <2> QED BY <1>w, <2>1, <2>2, <2>3, Zenon DEF ThreadInv
<1>17. ASSUME AfterCommit(t) PROVE ThreadInv(t)'
  <2>1. CASE freePtr[t] = {}
    BY <1>17, <1>f, <2>1, Zenon DEF AfterCommit
  <2>2. CASE freePtr[t] # {}
    <3>1. /\ pc[t] = "drop" /\ pc'[t] = "wipe" /\ Held[t] = {}
          /\ todo'[t] = UNION {Sweep[a] : a \in freePtr[t]}
          /\ UNCHANGED <<shared, txn, acc, gv, wv, Held, rdv>>
      BY <1>17, <2>2, Zenon DEF AfterCommit
    <3>2. ASSUME NEW l \in todo'[t] PROVE owner[l] = NoThread
      <4>1. l \in Swept(t) /\ l \in Lock
        <5> HIDE DEF TypeOK
        <5>1. l \in Swept(t)
          BY <3>1, <3>2, Zenon DEF UseInv, Swept
        <5> QED BY <5>1, SweptLocks, Zenon
      <4>2. owner[l] # t
        BY <3>1, <4>1, Zenon DEF ThreadInv
      <4> QED BY <4>1, <4>2, Zenon
    <3> QED BY <1>w, <3>1, <3>2, Zenon DEF ThreadInv
  <2> QED BY <2>1, <2>2, Zenon
<1>18. ASSUME NEW l \in Lock, RestoreLock(t, l) PROVE ThreadInv(t)'
  <2>1. /\ pc[t] = "abort" /\ pc'[t] = "abort"
        /\ owner'[l] = NoThread
        /\ \A m \in Lock : m # l => owner'[m] = owner[m] /\ ver'[m] = ver[m]
        /\ Held'[t] = Held[t] \ {l} /\ Held[t] \subseteq Lock /\ t # NoThread
        /\ UNCHANGED <<clock, txn, acc, gv, wv, rdv, todo>>
    BY <1>18, Zenon DEF RestoreLock, Release
  <2> HIDE DEF TypeOK
  <2>2. \A m \in Lock : m \in Held'[t] <=> owner'[m] = t
    BY <2>1, Zenon DEF ThreadInv
  <2>3. \A m \in Held'[t] : m \in Held[t] /\ ver'[m] = ver[m]
    BY <2>1, Zenon
  <2> QED BY <1>w, <2>1, <2>2, <2>3, Zenon DEF ThreadInv
<1>19. ASSUME Restart(t) PROVE ThreadInv(t)'
  BY <1>19, <1>f, Zenon DEF Restart
<1>20. ASSUME NEW l \in Lock, SterilizeLock(t, l) PROVE ThreadInv(t)'
  <2>1. /\ pc[t] = "wipe" /\ pc' = pc /\ clock' = clock /\ Held[t] = {}
        /\ todo'[t] = todo[t] \ {l} /\ \A m \in Lock : owner'[m] = owner[m]
        /\ UNCHANGED <<txn, acc, gv, wv, Held, rdv>>
    BY <1>20, Zenon DEF SterilizeLock, ThreadInv
  <2>2. ASSUME NEW m \in todo'[t] PROVE owner'[m] = NoThread
    <3>1. m \in Lock
      <4> HIDE DEF TypeOK
      <4>1. m \in Swept(t)
        BY <2>1, <2>2, Zenon DEF UseInv
      <4> QED BY <4>1, SweptLocks, Zenon
    <3> QED BY <2>1, <2>2, <3>1, Zenon DEF ThreadInv
  <2> QED BY <1>w, <2>1, <2>2, Zenon DEF ThreadInv
<1>21. ASSUME SterilizeWord(t) PROVE ThreadInv(t)'
  BY <1>21, <1>f, Zenon DEF SterilizeWord, ThreadInv
<1> QED
  BY <1>1, <1>2, <1>3, <1>4, <1>5, <1>6, <1>7, <1>8, <1>9, <1>10, <1>11, <1>12, <1>13,
     <1>14, <1>15, <1>16, <1>17, <1>18, <1>19, <1>20, <1>21, Zenon DEF Step, Begin, Advance

\* A committing thread's version is above that of every word it holds.
LEMMA Holding ==
  ASSUME NEW t \in Thread, NEW l \in Lock, ThreadInv(t), owner[l] = t,
         pc[t] \in {"check", "write", "drop"}
  PROVE  ver[l] < wv[t] /\ wv[t] <= clock /\ rv[t] < wv[t]
<1>1. l \in Held[t]
  BY Zenon DEF ThreadInv
<1> QED
  BY <1>1, Zenon DEF ThreadInv

\* Versions stay below the clock, and grow.
LEMMA Versions ==
  ASSUME TypeOK, ClockInv, NEW t \in Thread, ThreadInv(t), Step(t)
  PROVE  ClockInv' /\ \A l \in Lock : ver'[l] >= ver[l]
<1>1. clock' >= clock /\ \A l \in Lock : Word(t, l)
  BY LockWords, Zenon
<1>2. TypeOK'
  BY TypeStep, Zenon
<1>3. ASSUME NEW l \in Lock PROVE ver'[l] <= clock' /\ ver'[l] >= ver[l]
  <2>1. ver[l] \in Nat /\ clock \in Nat /\ clock' \in Nat /\ wv[t] \in Nat /\ ver[l] <= clock
    BY <1>2, Zenon DEF TypeOK, ClockInv
  <2>2. ver'[l] = ver[l] \/ (ver'[l] = wv[t] /\ ver[l] < wv[t] /\ wv[t] <= clock) \/ ver'[l] = clock
    BY <1>1, Holding, Zenon DEF Word
  <2> QED BY <1>1, <2>1, <2>2
<1> QED
  BY <1>3, Zenon DEF ClockInv

\* Only Decide, WriteBack and DropLock touch the words or their history, but for
\* freed blocks, and in any other step the stepping thread is not storing its log.
LEMMA Quiet ==
  ASSUME TypeOK, NEW t \in Thread, ThreadInv(t), ThreadInv(t)', Step(t), ~Decide(t),
         ~\E a \in Addr : WriteBack(t, a), ~\E l \in Lock : DropLock(t, l)
  PROVE  /\ \A a \in Addr \ Freeable : mem'[a] = mem[a]
         /\ hist' = hist /\ done' = done
         /\ \A a \in Addr : ~Updating(t, a) /\ ~Updating(t, a)'
<1> USE DEF Move, shared, txn, commit, ghosts, Step, Begin, Advance
<1>1. \A a \in Addr \ Freeable : mem'[a] = mem[a]
  <2>1. CASE SterilizeWord(t)
    BY <2>1, Zenon DEF SterilizeWord, TypeOK
  <2>2. CASE ~SterilizeWord(t)
    <3>1. mem' = mem
      BY <2>2, Zenon DEF TxStart, BeginAccess, StoreInReadOnly, LoadWord, EndLoad, EndStore, TxFree,
         TxCommit, LockStripe, LockFails, ReadClock, GenerateWV, CheckStripe, AfterCommit,
         SterilizeLock, RestoreLock, Release, Restart
    <3> QED BY <3>1, Zenon
  <2> QED BY <2>1, <2>2, Zenon
<1>2. hist' = hist /\ done' = done
  BY Zenon DEF TxStart, BeginAccess, StoreInReadOnly, LoadWord, EndLoad, EndStore, TxFree,
     TxCommit, LockStripe, LockFails, ReadClock, GenerateWV, CheckStripe, AfterCommit,
     SterilizeLock, SterilizeWord, RestoreLock, Release, Restart, Finish
<1>3. pc[t] \notin {"write", "drop"} \/ AfterCommit(t)
  BY Zenon DEF TxStart, BeginAccess, StoreInReadOnly, LoadWord, EndLoad, EndStore, TxFree,
     TxCommit, LockStripe, LockFails, ReadClock, GenerateWV, CheckStripe,
     SterilizeLock, SterilizeWord, RestoreLock, Restart
<1>4. pc'[t] \notin {"write", "drop"}
  BY ZenonT(30) DEF TypeOK, TxStart, BeginAccess, StoreInReadOnly, LoadWord, EndLoad,
     EndStore, TxFree,
     TxCommit, LockStripe, LockFails, ReadClock, GenerateWV, CheckStripe, AfterCommit,
     SterilizeLock, SterilizeWord, RestoreLock, Restart, Finish
<1> QED
  BY <1>1, <1>2, <1>3, <1>4, TL2Assumption, Zenon DEF Updating, AfterCommit, ThreadInv

\* Other threads go on storing their logs, or not.
LEMMA OthersUpdating ==
  ASSUME TypeOK, NEW t \in Thread, ThreadInv(t), Step(t), NEW u \in Thread, u # t, NEW a \in Addr
  PROVE  Updating(u, a)' <=> Updating(u, a)
<1>1. Same(u) /\ Word(t, PSLOCK[a])
  BY Frame, LockWords, TL2Assumption, Zenon
<1>2. Writes(u)' = Writes(u)
  BY <1>1, Zenon DEF Same, Writes
<1>3. owner'[PSLOCK[a]] = u <=> owner[PSLOCK[a]] = u
  <2>1. u # NoThread
    BY TL2Assumption, Zenon
  <2> QED BY <1>1, <2>1, Zenon DEF Word
<1> QED
  BY <1>1, <1>2, <1>3, Zenon DEF Same, Updating

\* Storing, t stays between Decide and the release of a word.
LEMMA Storing ==
  ASSUME TypeOK, NEW t \in Thread, ThreadInv(t), NEW a \in Addr,
         pc[t] \in {"check", "write"}, a \in Writes(t)
  PROVE  owner[PSLOCK[a]] = t /\ PSLOCK[a] \in Lock
<1>1. PSLOCK[a] \in WriteLocks(t) /\ PSLOCK[a] \in Lock
  BY TL2Assumption, Zenon DEF WriteLocks
<1> QED
  BY <1>1, Zenon DEF ThreadInv

\* The fields of a committed write.
LEMMA HistTypes ==
  ASSUME TypeOK, NEW h \in hist
  PROVE  h[1] \in Addr /\ h[2] \in Nat /\ h[3] \in Value
BY Zenon DEF TypeOK

\* At its decision a transaction's writes become the newest.
LEMMA WordsDecided ==
  ASSUME TypeOK, NEW t \in Thread, ThreadInv(t), Step(t), Decide(t), NEW a \in Addr, WordInv(a)
  PROVE  WordInv(a)'
<1> DEFINE l == PSLOCK[a]
           n == <<a, wv[t], wrSet[t][a]>>
<1>0. /\ pc[t] = "check" /\ pc'[t] = "write" /\ todo'[t] = Writes(t)
      /\ hist' = hist \cup {<<b, wv[t], wrSet[t][b]>> : b \in Writes(t)}
      /\ mem' = mem /\ owner' = owner /\ ver' = ver /\ wv' = wv /\ wrSet' = wrSet
  BY Zenon DEF Decide, Move, TypeOK, shared, txn
<1>1. \A u \in Thread : u # t => (Updating(u, a)' <=> Updating(u, a)) /\ todo'[u] = todo[u]
  BY OthersUpdating, Frame, Zenon DEF Same
<1>2. Writes(t)' = Writes(t)
  BY <1>0, Zenon DEF Writes
<1>3. CASE a \in Writes(t)
  <2>1. owner[l] = t /\ l \in Lock
    BY <1>0, <1>3, Storing, Zenon
  <2>2. PICK h \in hist : Newest(h, a) /\ h[2] <= ver[l]
    BY <1>0, <2>1, Zenon DEF WordInv, Updating
  <2>3. h[2] < wv[t]
    <3>1. ver[l] < wv[t]
      BY <1>0, <2>1, Holding, Zenon
    <3>2. h[2] \in Nat /\ ver[l] \in Nat /\ wv[t] \in Nat
      BY <2>1, HistTypes, Zenon DEF TypeOK
    <3> QED BY <2>2, <3>1, <3>2, Below, Zenon
  <2>4. n \in hist' /\ \A g \in hist' : g[1] = a => g = n \/ g[2] < n[2]
    <3>1. n \in hist'
      BY <1>0, <1>3, Zenon
    <3>2. ASSUME NEW g \in hist', g[1] = a PROVE g = n \/ g[2] < wv[t]
      <4>1. CASE g \in hist
        <5>1. g[2] \in Nat /\ h[2] \in Nat /\ wv[t] \in Nat
          BY <4>1, HistTypes, Zenon DEF TypeOK
        <5>2. g = h \/ g[2] < h[2]
          BY <2>2, <3>2, <4>1, Zenon DEF Newest
        <5> QED BY <2>3, <5>1, <5>2, Below, Zenon
      <4>2. CASE g \in {<<b, wv[t], wrSet[t][b]>> : b \in Writes(t)}
        <5>1. PICK b \in Writes(t) : g = <<b, wv[t], wrSet[t][b]>>
          BY <4>2, Zenon
        <5>2. g[1] = b
          BY <5>1, Zenon
        <5> QED BY <3>2, <5>1, <5>2, Zenon
      <4> QED BY <1>0, <4>1, <4>2, Zenon
    <3> QED BY <3>1, <3>2, Zenon
  <2>5. Updating(t, a)'
    BY <1>0, <1>2, <1>3, <2>1, Zenon DEF Updating
  <2>6. Newest(<<a, wv[t], wrSet[t][a]>>, a)'
    BY <1>0, <2>4, Zenon DEF Newest
  <2>7. a \in todo'[t]
    BY <1>0, <1>3, Zenon
  <2> QED BY <2>5, <2>6, <2>7, Zenon DEF WordInv
<1>4. CASE a \notin Writes(t)
  <2>1. \A g \in hist' : g[1] = a => g \in hist
    <3>1. ASSUME NEW g \in {<<b, wv[t], wrSet[t][b]>> : b \in Writes(t)}, g[1] = a PROVE FALSE
      <4>1. PICK b \in Writes(t) : g = <<b, wv[t], wrSet[t][b]>>
        BY <3>1, Zenon
      <4>2. g[1] = b
        BY <4>1, Zenon
      <4> QED BY <1>4, <3>1, <4>2, Zenon
    <3> QED BY <1>0, <3>1, Zenon
  <2>2. \A h : Newest(h, a) => Newest(h, a)' /\ h \in hist'
    BY <1>0, <2>1, Zenon DEF Newest
  <2>3. ~Updating(t, a)' /\ ~Updating(t, a)
    BY <1>0, <1>2, <1>4, Zenon DEF Updating
  <2>4. CASE \E h \in hist : /\ Newest(h, a) /\ Is(a, h[3]) /\ h[2] <= ver[PSLOCK[a]]
                             /\ \A u \in Thread : ~Updating(u, a)
    <3>1. PICK h \in hist : /\ Newest(h, a) /\ Is(a, h[3]) /\ h[2] <= ver[PSLOCK[a]]
                            /\ \A u \in Thread : ~Updating(u, a)
      BY <2>4, Zenon
    <3>2. \A u \in Thread : ~Updating(u, a)'
      BY <1>1, <2>3, <3>1, Zenon
    <3> QED BY <1>0, <2>2, <3>1, <3>2, Zenon DEF WordInv, Is
  <2>5. CASE \E u \in Thread : /\ Updating(u, a)
                               /\ Newest(<<a, wv[u], wrSet[u][a]>>, a)
                               /\ a \notin todo[u] => Is(a, wrSet[u][a])
    <3>1. PICK u \in Thread : /\ Updating(u, a)
                              /\ Newest(<<a, wv[u], wrSet[u][a]>>, a)
                              /\ a \notin todo[u] => Is(a, wrSet[u][a])
      BY <2>5, Zenon
    <3>2. u # t
      BY <2>3, <3>1, Zenon
    <3>3. /\ Updating(u, a)'
          /\ Newest(<<a, wv[u], wrSet[u][a]>>, a)'
          /\ a \notin todo'[u] => Is(a, wrSet[u][a])'
      BY <1>0, <1>1, <2>2, <3>1, <3>2, Zenon DEF Newest, Is
    <3> QED BY <3>3, Zenon DEF WordInv
  <2> QED BY <2>4, <2>5, Zenon DEF WordInv
<1> QED
  BY <1>3, <1>4, Zenon

\* A store of the log leaves its address and the others as they should be.
LEMMA WordsStored ==
  ASSUME TypeOK, NEW t \in Thread, ThreadInv(t), Step(t), NEW b \in Addr, WriteBack(t, b),
         NEW a \in Addr, WordInv(a)
  PROVE  WordInv(a)'
<1>0. /\ pc[t] = "write" /\ b \in todo[t] /\ pc' = pc /\ hist' = hist
      /\ mem' = [mem EXCEPT ![b] = wrSet[t][b]] /\ todo'[t] = todo[t] \ {b}
      /\ owner' = owner /\ ver' = ver /\ wv' = wv /\ wrSet' = wrSet
  BY Zenon DEF WriteBack, TypeOK, txn, ghosts
<1>1. \A u \in Thread : (Updating(u, a)' <=> Updating(u, a)) /\ (u # t => todo'[u] = todo[u])
  BY <1>0, Frame, Zenon DEF Same, Updating, Writes
<1>2. \A h : Newest(h, a)' <=> Newest(h, a)
  BY <1>0, Zenon DEF Newest
<1>3. b \in Writes(t) /\ owner[PSLOCK[b]] = t
  BY <1>0, Storing, Zenon DEF ThreadInv
<1>4. CASE \E h \in hist : /\ Newest(h, a) /\ Is(a, h[3]) /\ h[2] <= ver[PSLOCK[a]]
                           /\ \A u \in Thread : ~Updating(u, a)
  <2>1. a # b
    BY <1>0, <1>3, <1>4, Zenon DEF Updating
  <2>2. mem'[a] = mem[a]
    BY <1>0, <2>1, Zenon DEF TypeOK
  <2> QED BY <1>0, <1>1, <1>2, <1>4, <2>2, Zenon DEF WordInv, Is
<1>5. CASE \E u \in Thread : /\ Updating(u, a)
                             /\ Newest(<<a, wv[u], wrSet[u][a]>>, a)
                             /\ a \notin todo[u] => Is(a, wrSet[u][a])
  <2>1. PICK u \in Thread : /\ Updating(u, a)
                            /\ Newest(<<a, wv[u], wrSet[u][a]>>, a)
                            /\ a \notin todo[u] => Is(a, wrSet[u][a])
    BY <1>5, Zenon
  <2>2. a \notin todo'[u] => Is(a, wrSet[u][a])'
    <3>1. CASE a = b
      BY <1>0, <1>3, <2>1, <3>1, Zenon DEF Updating, TypeOK, Is
    <3>2. CASE a # b
      BY <1>0, <1>1, <2>1, <3>2, Zenon DEF TypeOK, Is
    <3> QED BY <3>1, <3>2, Zenon
  <2>3. Newest(<<a, wv[u], wrSet[u][a]>>, a)'
    BY <1>0, <1>2, <2>1, Zenon DEF Newest
  <2> QED BY <1>1, <2>1, <2>2, <2>3, Zenon DEF WordInv
<1> QED
  BY <1>4, <1>5, Zenon DEF WordInv

\* The release of a word publishes the version of what it covers.
LEMMA WordsDropped ==
  ASSUME TypeOK, NEW t \in Thread, ThreadInv(t), Step(t), NEW k \in Lock, DropLock(t, k),
         NEW a \in Addr, WordInv(a)
  PROVE  WordInv(a)'
<1> DEFINE l == PSLOCK[a]
<1>0. /\ pc[t] \in {"write", "drop"} /\ pc'[t] = "drop" /\ todo[t] = {} /\ todo' = todo
      /\ hist' = hist /\ mem' = mem /\ wv' = wv /\ wrSet' = wrSet /\ k \in Held[t]
      /\ owner' = [owner EXCEPT ![k] = NoThread] /\ ver' = [ver EXCEPT ![k] = wv[t]]
  BY Zenon DEF DropLock, Release, Move, TypeOK, txn, ghosts
<1>1. l \in Lock /\ owner[k] = t
  BY <1>0, TL2Assumption, Zenon DEF ThreadInv
<1>2. \A u \in Thread : u # t => (Updating(u, a)' <=> Updating(u, a))
  BY OthersUpdating, Zenon
<1>3. Updating(t, a)' <=> Updating(t, a) /\ l # k
  BY <1>0, <1>1, TL2Assumption, Zenon DEF Updating, Writes, TypeOK
<1>4. \A h : Newest(h, a)' <=> Newest(h, a)
  BY <1>0, Zenon DEF Newest
<1>5. CASE \E h \in hist : /\ Newest(h, a) /\ Is(a, h[3]) /\ h[2] <= ver[PSLOCK[a]]
                           /\ \A u \in Thread : ~Updating(u, a)
  <2>1. PICK h \in hist : /\ Newest(h, a) /\ Is(a, h[3]) /\ h[2] <= ver[PSLOCK[a]]
                          /\ \A u \in Thread : ~Updating(u, a)
    BY <1>5, Zenon
  <2>2. ver[l] \in Nat /\ wv[t] \in Nat /\ h[2] \in Nat
    BY <1>1, HistTypes, Zenon DEF TypeOK
  <2>3. ver'[l] = ver[l] \/ (ver'[l] = wv[t] /\ ver[l] < wv[t])
    BY <1>0, <1>1, Holding, Zenon DEF TypeOK
  <2>4. h[2] <= ver'[l]
    BY <2>1, <2>2, <2>3, Below, Zenon
  <2> QED BY <1>0, <1>2, <1>3, <1>4, <2>1, <2>4, Zenon DEF WordInv, Is
<1>6. CASE \E u \in Thread : /\ Updating(u, a)
                             /\ Newest(<<a, wv[u], wrSet[u][a]>>, a)
                             /\ a \notin todo[u] => Is(a, wrSet[u][a])
  <2>1. PICK u \in Thread : /\ Updating(u, a)
                            /\ Newest(<<a, wv[u], wrSet[u][a]>>, a)
                            /\ a \notin todo[u] => Is(a, wrSet[u][a])
    BY <1>6, Zenon
  <2>2. CASE l # k
    <3>1. Updating(u, a)'
      BY <1>2, <1>3, <2>1, <2>2, Zenon
    <3>2. Newest(<<a, wv[u], wrSet[u][a]>>, a)'
      BY <1>0, <1>4, <2>1, Zenon DEF Newest
    <3> QED BY <1>0, <2>1, <3>1, <3>2, Zenon DEF WordInv, Is
  <2>3. CASE l = k
    <3>1. u = t /\ \A w \in Thread : ~Updating(w, a)'
      BY <1>1, <1>2, <1>3, <2>1, <2>3, Zenon DEF Updating
    <3> DEFINE h == <<a, wv[t], wrSet[t][a]>>
    <3>2. h \in hist' /\ Newest(h, a)'
      BY <1>0, <1>4, <2>1, <3>1, Zenon DEF Newest
    <3>3. a \notin Freeable => h[3] = mem'[a]
      BY <1>0, <2>1, <3>1, Zenon DEF Is
    <3>4. h[2] <= ver'[l]
      BY <1>0, <1>1, <2>3, AtMost, Zenon DEF TypeOK
    <3>5. \E g \in hist' : Newest(g, a)' /\ Is(a, g[3])' /\ g[2] <= ver'[PSLOCK[a]]
      <4>1. \A g : g = h => (Newest(g, a)' /\ g \in hist' /\ Is(a, g[3])' /\ g[2] <= ver'[l])
        BY <1>0, <3>2, <3>3, <3>4, Zenon DEF Newest, Is
      <4> QED BY <4>1, Zenon
    <3> QED BY <3>1, <3>5, Zenon DEF WordInv
  <2> QED BY <2>2, <2>3, Zenon
<1> QED
  BY <1>5, <1>6, Zenon DEF WordInv

\* Every step keeps what the words hold.
LEMMA WordsStep ==
  ASSUME TypeOK, ClockInv, NEW t \in Thread, ThreadInv(t), ThreadInv(t)', Step(t),
         NEW a \in Addr, WordInv(a)
  PROVE  WordInv(a)'
<1>1. CASE Decide(t)
  BY <1>1, WordsDecided, Zenon
<1>2. CASE \E b \in Addr : WriteBack(t, b)
  BY <1>2, WordsStored, Zenon
<1>3. CASE \E k \in Lock : DropLock(t, k)
  BY <1>3, WordsDropped, Zenon
<1>4. CASE ~Decide(t) /\ (~\E b \in Addr : WriteBack(t, b)) /\ ~\E k \in Lock : DropLock(t, k)
  <2>1. /\ a \notin Freeable => mem'[a] = mem[a]
        /\ hist' = hist /\ ~Updating(t, a) /\ ~Updating(t, a)'
    BY <1>4, Quiet, Zenon
  <2>2. \A u \in Thread : u # t => (Updating(u, a)' <=> Updating(u, a))
    BY OthersUpdating, Zenon
  <2>3. \A u \in Thread : u # t => todo'[u] = todo[u] /\ wv'[u] = wv[u] /\ wrSet'[u] = wrSet[u]
    BY Frame, Zenon DEF Same
  <2>4. \A h : Newest(h, a)' <=> Newest(h, a)
    BY <2>1, Zenon DEF Newest
  <2>5. CASE \E h \in hist : /\ Newest(h, a) /\ Is(a, h[3]) /\ h[2] <= ver[PSLOCK[a]]
                             /\ \A u \in Thread : ~Updating(u, a)
    <3>1. PICK h \in hist : /\ Newest(h, a) /\ Is(a, h[3]) /\ h[2] <= ver[PSLOCK[a]]
                            /\ \A u \in Thread : ~Updating(u, a)
      BY <2>5, Zenon
    <3>2. h[2] <= ver'[PSLOCK[a]]
      <4>1. ver'[PSLOCK[a]] >= ver[PSLOCK[a]] /\ PSLOCK[a] \in Lock
        BY Versions, TL2Assumption, Zenon
      <4>2. ver'[PSLOCK[a]] \in Nat /\ ver[PSLOCK[a]] \in Nat /\ h[2] \in Nat
        BY <4>1, TypeStep, HistTypes, Zenon DEF TypeOK
      <4> QED BY <3>1, <4>1, <4>2, AtMost, Zenon
    <3> QED BY <2>1, <2>2, <2>4, <3>1, <3>2, Zenon DEF WordInv, Is
  <2>6. CASE \E u \in Thread : /\ Updating(u, a)
                               /\ Newest(<<a, wv[u], wrSet[u][a]>>, a)
                               /\ a \notin todo[u] => Is(a, wrSet[u][a])
    <3>1. PICK u \in Thread : /\ Updating(u, a)
                              /\ Newest(<<a, wv[u], wrSet[u][a]>>, a)
                              /\ a \notin todo[u] => Is(a, wrSet[u][a])
      BY <2>6, Zenon
    <3>2. u # t
      BY <2>1, <3>1, Zenon
    <3>3. Newest(<<a, wv[u], wrSet[u][a]>>, a)'
      BY <2>1, <2>3, <3>1, <3>2, Zenon DEF Newest
    <3> QED BY <2>1, <2>2, <2>3, <3>1, <3>2, <3>3, Zenon DEF WordInv, Is
  <2> QED BY <2>5, <2>6, Zenon DEF WordInv
<1> QED
  BY <1>1, <1>2, <1>3, <1>4, Zenon

\* A step by another thread keeps what a load in progress knows.
LEMMA LoadOther ==
  ASSUME TypeOK, NEW t \in Thread, ThreadInv(t), ThreadInv(t)', ClockInv, Step(t),
         NEW u \in Thread, u # t, LoadInv(u)
  PROVE  LoadInv(u)'
<1>a. PICK a \in Addr : a = acc[u].addr
  BY Zenon DEF TypeOK, Access
<1> DEFINE l == PSLOCK[a]
<1>0. Same(u) /\ a \in Addr /\ l \in Lock /\ acc[u].cv \in Nat /\ ver[l] \in Nat /\ ver'[l] \in Nat
  BY Frame, TypeStep, TL2Assumption, Zenon DEF TypeOK, Access
<1>1. ver'[l] >= ver[l]
  BY <1>0, Versions, Zenon
<1>2. (\A w \in Thread : ~Updating(w, a)') => \A w \in Thread : w # t => ~Updating(w, a)
  BY <1>0, OthersUpdating, Zenon
<1>3. acc[u].cv = ver'[l] /\ acc[u].cv <= ver[l] => ver'[l] = ver[l]
  BY <1>0, <1>1, AtMost, Zenon
<1>4. ASSUME \A w \in Thread : ~Updating(w, a)', ver'[l] = ver[l]
      PROVE  (a \notin Freeable => mem'[a] = mem[a]) /\ ~Updating(t, a)
  <2>1. CASE Decide(t)
    BY <2>1, Zenon DEF Decide, shared, Updating
  <2>2. CASE \E b \in Addr : WriteBack(t, b)
    <3>1. PICK b \in Addr : WriteBack(t, b)
      BY <2>2, Zenon
    <3>2. Updating(t, a)' <=> Updating(t, a)
      BY <3>1, Zenon DEF WriteBack, txn, Updating, Writes
    <3>3. b # a
      <4>1. pc[t] = "write" /\ b \in Writes(t)
        BY <3>1, Zenon DEF WriteBack, ThreadInv
      <4> QED BY <1>4, <3>2, <4>1, Storing, Zenon DEF Updating
    <3> QED BY <1>0, <1>4, <3>1, <3>2, <3>3, Zenon DEF WriteBack, TypeOK
  <2>3. CASE \E k \in Lock : DropLock(t, k)
    <3>1. PICK k \in Lock : DropLock(t, k)
      BY <2>3, Zenon
    <3>2. /\ pc[t] \in {"write", "drop"} /\ pc'[t] = "drop" /\ k \in Held[t] /\ wrSet' = wrSet /\ mem' = mem
          /\ owner' = [owner EXCEPT ![k] = NoThread] /\ ver' = [ver EXCEPT ![k] = wv[t]]
      BY <3>1, Zenon DEF DropLock, Release, Move, TypeOK, txn
    <3>3. owner[k] = t
      BY <3>2, Zenon DEF ThreadInv
    <3>4. l # k
      <4>1. SUFFICES ASSUME l = k PROVE FALSE
        BY Zenon
      <4>2. ver[l] < wv[t] /\ wv[t] \in Nat /\ ver'[l] = wv[t]
        BY <1>0, <3>2, <3>3, <4>1, Holding, Zenon DEF TypeOK
      <4> QED BY <1>0, <1>4, <4>2, Below, Zenon
    <3>5. owner'[l] = owner[l]
      BY <1>0, <3>2, <3>4, Zenon DEF TypeOK
    <3>6. Updating(t, a) => Updating(t, a)'
      BY <3>2, <3>5, Zenon DEF Updating, Writes
    <3> QED BY <1>4, <3>2, <3>6, Zenon
  <2>4. CASE ~Decide(t) /\ (~\E b \in Addr : WriteBack(t, b)) /\ ~\E k \in Lock : DropLock(t, k)
    BY <1>0, <2>4, Quiet, Zenon
  <2> QED BY <2>1, <2>2, <2>3, <2>4, Zenon
<1> QED
  <2>1. acc[u].cv <= ver[l] => acc[u].cv <= ver'[l]
    BY <1>0, <1>1, AtMost, Zenon
  <2>2. acc'[u] = acc[u] /\ pc'[u] = pc[u]
    BY <1>0, Zenon DEF Same
  <2>3. pc[u] \in {"ldlock", "ldword"} /\ acc[u].by = NoThread => acc[u].cv <= ver[l]
    BY <1>a, Zenon DEF LoadInv
  <2>4. ASSUME pc[u] = "ldword", acc[u].by = NoThread, acc[u].cv = ver'[l],
               \A w \in Thread : ~Updating(w, a)'
        PROVE  Is(a, acc[u].word)'
    <3>1. ver'[l] = ver[l]
      BY <1>3, <2>3, <2>4, Zenon
    <3>2. (a \notin Freeable => mem'[a] = mem[a]) /\ \A w \in Thread : ~Updating(w, a)
      BY <1>2, <1>4, <2>4, <3>1, Zenon
    <3>3. Is(a, acc[u].word)
      BY <1>a, <2>4, <3>1, <3>2, Zenon DEF LoadInv
    <3> QED BY <2>2, <3>2, <3>3, Zenon DEF Is
  <2> QED BY <1>a, <2>1, <2>2, <2>3, <2>4, Zenon DEF LoadInv

\* A load's own steps: the version it saw is the word's or an older one.
LEMMA LoadOwn ==
  ASSUME TypeOK, NEW t \in Thread, ThreadInv(t), Step(t), LoadInv(t)
  PROVE  LoadInv(t)'
<1> USE DEF Move, shared, txn, commit, ghosts, TypeOK
<1>1. CASE \E a \in Addr, v \in Value \cup {NoValue} : BeginAccess(t, a, v)
  <2>1. PICK a \in Addr, v \in Value \cup {NoValue} : BeginAccess(t, a, v)
    BY <1>1, Zenon
  <2>2. /\ acc'[t].addr = a /\ acc'[t].cv = ver[PSLOCK[a]] /\ ver' = ver /\ pc'[t] = "ldlock"
        /\ ver[PSLOCK[a]] \in Nat
    BY <2>1, TL2Assumption, Zenon DEF BeginAccess
  <2>3. acc'[t].cv <= ver'[PSLOCK[acc'[t].addr]]
    BY <2>2, AtMost, Zenon
  <2> QED BY <2>2, <2>3, Zenon DEF LoadInv
<1>2. CASE LoadWord(t)
  <2>1. /\ pc[t] = "ldlock" /\ ver' = ver /\ mem' = mem
        /\ acc'[t].addr = acc[t].addr /\ acc'[t].cv = acc[t].cv /\ acc'[t].by = acc[t].by
        /\ acc'[t].word = mem[acc[t].addr]
    BY <1>2 DEF LoadWord, Access
  <2> QED BY <2>1, Zenon DEF LoadInv, Is
<1>3. CASE pc'[t] \notin {"ldlock", "ldword"}
  BY <1>3, Zenon DEF LoadInv
<1> QED
  BY <1>1, <1>2, <1>3, Zenon DEF Step, Begin, Advance, TxStart, StoreInReadOnly, EndLoad, EndStore,
     TxFree, TxCommit, LockStripe, LockFails, ReadClock, GenerateWV, CheckStripe, Decide,
     WriteBack, DropLock, AfterCommit, SterilizeLock, SterilizeWord, RestoreLock, Restart, Finish

\* How a thread comes to hold a version: it reads the clock holding its stripes,
\* and takes a version above what it read.
LEMMA Stamps ==
  ASSUME TypeOK, NEW t \in Thread, ThreadInv(t), Step(t)
  PROVE  /\ pc'[t] = "cas" => gv'[t] = clock
         /\ pc'[t] = "check" => \/ pc[t] = "cas" /\ gv[t] < wv'[t]
                                \/ pc[t] = "check" /\ wv'[t] = wv[t]
<1> USE DEF Move, shared, txn, commit, ghosts, TypeOK
<1>1. CASE ReadClock(t)
  BY <1>1, Zenon DEF ReadClock
<1>2. CASE GenerateWV(t)
  <2>1. pc[t] = "cas" /\ pc'[t] = "check" /\ wv'[t] = clock' /\ gv[t] <= clock
        /\ clock' = IF clock = gv[t] THEN gv[t] + 2 ELSE clock
    BY <1>2, Zenon DEF GenerateWV, ThreadInv
  <2>2. gv[t] < clock'
    <3>1. clock \in Nat /\ gv[t] \in Nat
      BY Zenon
    <3> HIDE DEF TypeOK
    <3> QED BY <2>1, <3>1, NextVersion, Zenon
  <2> QED BY <2>1, <2>2, Zenon
<1>3. CASE \E l \in Lock : CheckStripe(t, l)
  BY <1>3, Zenon DEF CheckStripe
<1>4. CASE pc'[t] \notin {"cas", "check"}
  BY <1>4, Zenon
<1> QED
  BY <1>1, <1>2, <1>3, <1>4, ZenonT(30) DEF Step, Begin, Advance, TxStart, BeginAccess,
     StoreInReadOnly,
     LoadWord, EndLoad, EndStore, TxFree, TxCommit, LockStripe, LockFails, Decide,
     WriteBack, DropLock, AfterCommit, SterilizeLock, SterilizeWord, RestoreLock, Restart, Finish

\* Once no holder of a stripe can commit at or below n, none ever will.
LEMMA AfterStable ==
  ASSUME TypeOK, NEW t \in Thread, ThreadInv(t), Step(t),
         NEW l \in Lock, NEW n \in Nat, n <= clock, After(l, n)
  PROVE  After(l, n)'
<1>0. Word(t, l)
  BY LockWords, Zenon
<1>1. ASSUME NEW u \in Thread, u # t, owner'[l] = u
      PROVE  (pc'[u] = "cas" => n <= gv'[u]) /\ (pc'[u] = "check" => n < wv'[u])
  <2>1. Same(u) /\ owner[l] = u
    BY <1>0, <1>1, Frame, TL2Assumption, Zenon DEF Word
  <2> QED BY <2>1, Zenon DEF Same, After
<1>2. ASSUME owner'[l] = t
      PROVE  (pc'[t] = "cas" => n <= gv'[t]) /\ (pc'[t] = "check" => n < wv'[t])
  <2>1. owner[l] = t \/ pc'[t] = "lock"
    BY <1>0, <1>2, TL2Assumption, Zenon DEF Word
  <2>2. TypeOK'
    BY TypeStep, Zenon
  <2>3. gv[t] \in Nat /\ wv'[t] \in Nat /\ clock \in Nat
    BY <2>2, Zenon DEF TypeOK
  <2>4. owner[l] = t => (pc[t] = "cas" => n <= gv[t]) /\ (pc[t] = "check" => n < wv[t])
    BY Zenon DEF After
  <2>5. CASE pc'[t] = "cas"
    BY <2>1, <2>3, <2>4, <2>5, Stamps, Below, Zenon
  <2>6. CASE pc'[t] = "check"
    BY <2>1, <2>3, <2>4, <2>6, Stamps, Below, Zenon
  <2> QED BY <2>5, <2>6, Zenon
<1> QED
  BY <1>1, <1>2, Zenon DEF After

\* What a step adds to the history is what t, validated and holding the stripes,
\* is about to store.
LEMMA History ==
  ASSUME TypeOK, NEW t \in Thread, ThreadInv(t), ThreadInv(t)', Step(t), NEW h \in hist'
  PROVE  \/ h \in hist
         \/ /\ Decide(t) /\ pc[t] = "check" /\ h[1] \in Writes(t) /\ h[2] = wv[t]
            /\ PSLOCK[h[1]] \in Lock /\ owner[PSLOCK[h[1]]] = t
<1>1. CASE Decide(t)
  <2>1. CASE h \in {<<a, wv[t], wrSet[t][a]>> : a \in Writes(t)}
    <3>1. PICK a \in Writes(t) : h = <<a, wv[t], wrSet[t][a]>>
      BY <2>1, Zenon
    <3>2. pc[t] = "check" /\ a \in Addr
      BY <1>1, Zenon DEF Decide, Writes
    <3>3. PSLOCK[a] \in Lock /\ owner[PSLOCK[a]] = t
      BY <3>2, Storing, Zenon
    <3> QED BY <1>1, <3>1, <3>2, <3>3, Zenon
  <2> QED BY <1>1, <2>1, Zenon DEF Decide
<1>2. CASE \E b \in Addr : WriteBack(t, b)
  BY <1>2, Zenon DEF WriteBack, ghosts
<1>3. CASE \E k \in Lock : DropLock(t, k)
  BY <1>3, Zenon DEF DropLock, Release, ghosts
<1> QED
  BY <1>1, <1>2, <1>3, Quiet, Zenon

\* The history only grows.
LEMMA HistGrows ==
  ASSUME TypeOK, NEW t \in Thread, ThreadInv(t), ThreadInv(t)', Step(t)
  PROVE  hist \subseteq hist' /\ done \subseteq done'
<1>1. CASE Decide(t)
  BY <1>1, Zenon DEF Decide
<1>2. CASE \E b \in Addr : WriteBack(t, b)
  BY <1>2, Zenon DEF WriteBack, ghosts
<1>3. CASE \E k \in Lock : DropLock(t, k)
  BY <1>3, Zenon DEF DropLock, Release, ghosts
<1> QED
  BY <1>1, <1>2, <1>3, Quiet, Zenon

\* A committed write whose stripe cannot be committed at or below n is old or
\* is later than n.
LEMMA Later ==
  ASSUME TypeOK, NEW t \in Thread, ThreadInv(t), ThreadInv(t)', Step(t), NEW h \in hist',
         NEW n \in Nat, After(PSLOCK[h[1]], n)
  PROVE  h \in hist \/ h[2] > n
<1>1. h \in hist \/ (pc[t] = "check" /\ h[2] = wv[t] /\ owner[PSLOCK[h[1]]] = t)
  BY History, Zenon
<1>2. wv[t] \in Nat
  BY Zenon DEF TypeOK
<1> QED
  BY <1>1, <1>2, Zenon DEF After

\* A coherent word is its newest committed value, of a version up to rv.
LEMMA Coherence ==
  ASSUME TypeOK, NEW t \in Thread, LoadInv(t), WordInv(acc[t].addr), pc[t] = "ldword", Coherent(t)
  PROVE  /\ owner[PSLOCK[acc[t].addr]] = NoThread
         /\ acc[t].addr \notin Freeable =>
            \E h \in hist : /\ h[1] = acc[t].addr /\ h[2] <= rv[t] /\ h[3] = acc[t].word
                            /\ \A g \in hist : g[1] = acc[t].addr => g = h \/ g[2] < h[2]
<1> DEFINE a == acc[t].addr
           l == PSLOCK[a]
<1>0. a \in Addr /\ l \in Lock /\ ver[l] \in Nat /\ rv[t] \in Nat
  BY TL2Assumption, Zenon DEF TypeOK, Access
<1>1. owner[l] = NoThread /\ ver[l] = acc[t].cv /\ acc[t].cv <= rv[t] /\ acc[t].by = NoThread
  BY Zenon DEF Coherent
<1>2. \A u \in Thread : ~Updating(u, a)
  BY <1>1, TL2Assumption, Zenon DEF Updating
<1>3. Is(a, acc[t].word)
  BY <1>1, <1>2, Zenon DEF LoadInv
<1>4. PICK h \in hist : Newest(h, a) /\ Is(a, h[3]) /\ h[2] <= ver[l]
  BY <1>2, Zenon DEF WordInv
<1>5. h[2] <= rv[t] /\ h[2] \in Nat
  <2>1. h[2] \in Nat /\ ver[l] <= rv[t]
    BY <1>1, HistTypes, Zenon
  <2> QED BY <1>0, <1>4, <2>1, AtMost, Zenon
<1> QED
  BY <1>1, <1>3, <1>4, <1>5, Zenon DEF Newest, Is

\* A running transaction's loads: those it had, and the one its step completes.
LEMMA Loads ==
  ASSUME TypeOK, NEW t \in Thread, ThreadInv(t), Step(t), Running(t)', NEW r \in seen'[t]
  PROVE  \/ r \in seen[t] /\ Running(t) /\ rv'[t] = rv[t]
         \/ /\ pc[t] = "ldword" /\ Coherent(t) /\ r = <<acc[t].addr, acc[t].word>>
            /\ rv'[t] = rv[t] /\ owner' = owner /\ hist' = hist
<1> USE DEF Move, shared, txn, commit, ghosts, TypeOK
<1>1. CASE EndLoad(t) \/ EndStore(t)
  <2>1. rv' = rv /\ owner' = owner /\ hist' = hist /\ pc[t] = "ldword"
    BY <1>1, Zenon DEF EndLoad, EndStore
  <2>2. r \in seen[t] \/ (Coherent(t) /\ r = <<acc[t].addr, acc[t].word>>)
    BY <1>1, SMTT(30) DEF EndLoad, EndStore, Track, Record
  <2> QED BY <2>1, <2>2, Zenon DEF Running
<1>2. CASE \E isRO \in BOOLEAN : TxStart(t, isRO)
  BY <1>2, Zenon DEF TxStart, ThreadInv
<1>3. CASE UNCHANGED <<seen, rv>> /\ Running(t)
  BY <1>3, Zenon
<1>4. CASE pc'[t] \in {"idle", "wipe", "abort"}
  BY <1>4, Zenon DEF Running
<1> QED
  BY <1>1, <1>2, <1>3, <1>4, Zenon DEF Step, Begin, Advance, BeginAccess, StoreInReadOnly,
     LoadWord, TxFree, Record, TxCommit, LockStripe, LockFails, ReadClock, GenerateWV, CheckStripe,
     Decide, WriteBack, DropLock, Release, AfterCommit, SterilizeLock, SterilizeWord, RestoreLock,
     Restart, Finish, Running

\* What a transaction has loaded stays the value at its rv.
LEMMA SnapshotStep ==
  ASSUME IInv, NEW t \in Thread, ThreadInv(t)', Step(t),
         NEW u \in Thread, Running(u)', NEW r \in seen'[u]
  PROVE  /\ After(PSLOCK[r[1]], rv[u])'
         /\ r[1] \notin Freeable =>
            \E h \in hist' : /\ h[1] = r[1] /\ h[2] <= rv'[u] /\ h[3] = r[2]
                             /\ \A g \in hist' : g[1] = r[1] => g = h \/ g[2] < h[2] \/ g[2] > rv'[u]
<1>0. TypeOK /\ ThreadInv(t) /\ TypeOK' /\ ThreadInv(u)
  BY TypeStep, Zenon DEF IInv
<1>1. ASSUME r \in seen[u], Running(u), rv'[u] = rv[u] PROVE
         /\ After(PSLOCK[r[1]], rv[u])'
         /\ r[1] \notin Freeable =>
            \E h \in hist' : /\ h[1] = r[1] /\ h[2] <= rv'[u] /\ h[3] = r[2]
                             /\ \A g \in hist' : g[1] = r[1] => g = h \/ g[2] < h[2] \/ g[2] > rv'[u]
  <2>1. r[1] \in Addr /\ PSLOCK[r[1]] \in Lock /\ rv[u] \in Nat /\ rv[u] <= clock
    <3>1. r \in Addr \X Words
      BY <1>0, <1>1, Zenon DEF TypeOK
    <3>2. r[1] \in Addr
      BY <3>1, SMT
    <3> QED BY <1>0, <3>2, TL2Assumption, Zenon DEF TypeOK, ThreadInv
  <2>2. After(PSLOCK[r[1]], rv[u])
    BY <1>1, Zenon DEF IInv, SeenInv
  <2>3. \A n \in Nat : n = rv[u] => After(PSLOCK[r[1]], n)'
    BY <1>0, <2>1, <2>2, AfterStable, Zenon
  <2>4. SUFFICES ASSUME r[1] \notin Freeable
                 PROVE  \E h \in hist' :
                          /\ h[1] = r[1] /\ h[2] <= rv'[u] /\ h[3] = r[2]
                          /\ \A g \in hist' : g[1] = r[1] => g = h \/ g[2] < h[2] \/ g[2] > rv'[u]
    BY <1>1, <2>3, <2>1, Zenon DEF After
  <2>7. PICK h \in hist : /\ h[1] = r[1] /\ h[2] <= rv[u] /\ h[3] = r[2]
                          /\ \A g \in hist : g[1] = r[1] => g = h \/ g[2] < h[2] \/ g[2] > rv[u]
    BY <1>1, <2>4, Zenon DEF IInv, Snapshot
  <2>5. \A g \in hist' : g[1] = r[1] => g \in hist \/ g[2] > rv[u]
    BY <1>0, <2>1, <2>2, Later, Zenon
  <2>6. h \in hist'
    <3>1. hist \subseteq hist'
      BY <1>0, HistGrows, Zenon
    <3> QED BY <2>7, <3>1, Zenon
  <2> QED BY <1>1, <2>5, <2>6, <2>7, Zenon
<1>2. CASE u # t
  BY <1>1, <1>2, <1>0, Frame, Zenon DEF Same, Running
<1>3. CASE u = t /\ pc[t] = "ldword" /\ Coherent(t) /\ r = <<acc[t].addr, acc[t].word>>
            /\ rv'[t] = rv[t] /\ owner' = owner /\ hist' = hist
  <2>1. acc[t].addr \in Addr
    BY <1>0, Zenon DEF TypeOK, Access
  <2>2. /\ owner[PSLOCK[acc[t].addr]] = NoThread
        /\ acc[t].addr \notin Freeable =>
           \E h \in hist : /\ h[1] = acc[t].addr /\ h[2] <= rv[t] /\ h[3] = acc[t].word
                           /\ \A g \in hist : g[1] = acc[t].addr => g = h \/ g[2] < h[2]
    BY <1>0, <1>3, <2>1, Coherence, Zenon DEF IInv
  <2>3. After(PSLOCK[r[1]], rv[u])'
    BY <1>3, <2>2, TL2Assumption, Zenon DEF After
  <2>4. r[1] = acc[t].addr /\ r[2] = acc[t].word
    BY <1>3, Zenon
  <2> QED BY <1>3, <2>2, <2>3, <2>4, Zenon
<1>4. CASE u = t
  BY <1>0, <1>1, <1>3, <1>4, Loads, Zenon
<1> QED
  BY <1>2, <1>4, Zenon

\* The committed writes under a word its owner has not begun to store are no
\* newer than the word's version.
LEMMA Committed ==
  ASSUME TypeOK, NEW l \in Lock, NEW h \in hist, PSLOCK[h[1]] = l, WordInv(h[1]),
         \A u \in Thread : owner[l] = u => pc[u] \notin {"write", "drop"}
  PROVE  h[2] <= ver[l]
<1>1. PICK g \in hist : Newest(g, h[1]) /\ g[2] <= ver[l]
  BY Zenon DEF WordInv, Updating
<1>2. h[2] \in Nat /\ g[2] \in Nat /\ ver[l] \in Nat
  BY HistTypes, Zenon DEF TypeOK
<1> QED
  <2>1. h = g \/ h[2] < g[2]
    BY <1>1, Zenon DEF Newest
  <2>2. h[2] <= g[2]
    <3>1. CASE h = g
      BY <1>2, <3>1, AtMost, Zenon
    <3>2. CASE h[2] < g[2]
      BY <1>2, <3>2, Below, Zenon
    <3> QED BY <2>1, <3>1, <3>2, Zenon
  <2>3. \A i, j, k \in Nat : i <= j /\ j <= k => i <= k
    BY AtMost, Zenon
  <2>4. g[2] <= ver[l]
    BY <1>1, Zenon
  <2> QED BY <1>2, <2>2, <2>3, <2>4, Zenon

\* A validated stripe stays validated.
LEMMA CheckedStep ==
  ASSUME IInv, NEW t \in Thread, ThreadInv(t)', Step(t), NEW u \in Thread
  PROVE  CheckedInv(u)'
<1>0. TypeOK /\ ThreadInv(t) /\ TypeOK' /\ ThreadInv(u)
  BY TypeStep, Zenon DEF IInv
<1>1. SUFFICES ASSUME pc'[u] = "check", NEW l \in rdSet'[u] \ todo'[u]
               PROVE  /\ owner'[l] = u \/ After(l, wv[u])'
                      /\ \A h \in hist' : PSLOCK[h[1]] = l => h[2] <= rv'[u] \/ h[2] > wv'[u]
  BY Zenon DEF CheckedInv
<1>2. ASSUME pc[u] = "check", l \in rdSet[u] \ todo[u], l \in Lock, rv'[u] = rv[u], wv'[u] = wv[u],
             owner[l] = u => owner'[l] = u
      PROVE  /\ owner'[l] = u \/ After(l, wv[u])'
             /\ \A h \in hist' : PSLOCK[h[1]] = l => h[2] <= rv'[u] \/ h[2] > wv'[u]
  <2>1. /\ owner[l] = u \/ After(l, wv[u])
        /\ \A h \in hist : PSLOCK[h[1]] = l => h[2] <= rv[u] \/ h[2] > wv[u]
    BY <1>2, Zenon DEF IInv, CheckedInv
  <2>2. wv[u] \in Nat /\ wv[u] <= clock
    BY <1>0, <1>2, Zenon DEF TypeOK, ThreadInv
  <2>3. After(l, wv[u]) => \A n \in Nat : n = wv[u] => After(l, n)'
    BY <1>0, <1>2, <2>2, AfterStable, Zenon
  <2>4. ASSUME NEW h \in hist', PSLOCK[h[1]] = l PROVE h \in hist \/ h[2] > wv[u]
    <3>1. CASE After(l, wv[u])
      BY <1>0, <2>2, <2>4, <3>1, Later, Zenon
    <3>2. CASE owner[l] = u
      <4>1. h \in hist \/ (Decide(t) /\ owner[PSLOCK[h[1]]] = t)
        BY <1>0, History, Zenon
      <4>2. Decide(t) => pc'[t] = "write"
        BY <1>0, Zenon DEF Decide, Move, TypeOK
      <4> QED BY <1>1, <2>4, <3>2, <4>1, <4>2, Zenon
    <3> QED BY <2>1, <3>1, <3>2, Zenon
  <2> QED BY <1>2, <2>1, <2>2, <2>3, <2>4, Zenon DEF After
<1>3. CASE u # t
  <2>1. Same(u)
    BY <1>0, <1>3, Frame, Zenon
  <2>2. l \in Lock
    BY <1>0, <2>1, Zenon DEF Same, TypeOK
  <2>3. Word(t, l)
    BY <1>0, <2>2, LockWords, Zenon
  <2>4. owner[l] = u => owner'[l] = u
    BY <1>3, <2>3, TL2Assumption, Zenon DEF Word
  <2> QED BY <1>1, <1>2, <2>1, <2>2, <2>4, Zenon DEF Same
<1>4. CASE u = t /\ pc[t] = "check"
  <2>1. PICK k \in Lock : CheckStripe(t, k)
    BY <1>1, <1>4, <1>0, Zenon DEF Step, Begin, Advance, TxStart, BeginAccess, StoreInReadOnly,
       LoadWord, EndLoad, EndStore, TxFree, TxCommit, LockStripe, LockFails, ReadClock, GenerateWV,
       Decide, WriteBack, DropLock, AfterCommit, SterilizeLock, SterilizeWord, RestoreLock, Restart,
       Move, TypeOK
  <2>2. /\ rdSet' = rdSet /\ rv' = rv /\ wv' = wv /\ owner' = owner /\ ver' = ver /\ hist' = hist
        /\ todo'[t] = todo[t] \ {k} /\ k \in todo[t]
        /\ owner[k] = t \/ (owner[k] = NoThread /\ ver[k] <= rv[t])
    BY <1>0, <1>1, <1>4, <2>1, Zenon DEF CheckStripe, Move, TypeOK, shared, txn, ghosts
  <2>3. l \in Lock
    BY <1>0, <1>4, <2>2, Zenon DEF TypeOK
  <2>4. CASE l # k
    BY <1>2, <1>4, <2>2, <2>3, <2>4, Zenon
  <2>5. CASE l = k
    <3>1. owner'[l] = u \/ After(l, wv[u])'
      BY <1>4, <2>2, <2>5, TL2Assumption, Zenon DEF After
    <3>2. ver[l] <= rv[t]
      BY <1>0, <1>1, <1>4, <2>2, <2>3, <2>5, Zenon DEF ThreadInv
    <3>3. ASSUME NEW h \in hist', PSLOCK[h[1]] = l PROVE h[2] <= rv'[u]
      <4>1. h \in hist /\ h[1] \in Addr /\ h[2] \in Nat /\ ver[l] \in Nat /\ rv[t] \in Nat
        BY <1>0, <2>2, <2>3, <3>3, HistTypes, Zenon DEF TypeOK
      <4>2. \A w \in Thread : owner[l] = w => pc[w] \notin {"write", "drop"}
        BY <1>4, <2>2, <2>5, TL2Assumption, Zenon
      <4>3. h[2] <= ver[l]
        BY <1>0, <2>3, <3>3, <4>1, <4>2, Committed, Zenon DEF IInv
      <4> QED BY <1>4, <2>2, <3>2, <4>1, <4>3, AtMost, Zenon
    <3> QED BY <3>1, <3>3, Zenon
  <2> QED BY <2>4, <2>5, Zenon
<1>5. CASE u = t /\ pc[t] = "cas"
  <2>1. GenerateWV(t)
    BY <1>1, <1>5, <1>0, Zenon DEF Step, Begin, Advance, TxStart, BeginAccess, StoreInReadOnly,
       LoadWord, EndLoad, EndStore, TxFree, TxCommit, LockStripe, LockFails, ReadClock, CheckStripe,
       Decide, WriteBack, DropLock, AfterCommit, SterilizeLock, SterilizeWord, RestoreLock, Restart,
       Move, TypeOK
  <2>2. rdSet' = rdSet /\ todo'[t] = rdSet[t]
    BY <1>0, <2>1, Zenon DEF GenerateWV, TypeOK, txn
  <2> QED BY <1>1, <1>5, <2>2, Zenon
<1> QED
  BY <1>0, <1>1, <1>3, <1>4, <1>5, Stamps, Zenon

\* A new entry of done is the transaction that decides, its whole read set
\* validated.
LEMMA Finished ==
  ASSUME IInv, NEW t \in Thread, ThreadInv(t)', Step(t), NEW d \in done'
  PROVE  \/ d \in done
         \/ /\ Decide(t) /\ pc[t] = "check" /\ d.wv = wv[t] /\ d.rv = rv[t] /\ d.writes = Writes(t)
            /\ \A a \in d.reads :
                 /\ PSLOCK[a] \in Lock
                 /\ owner[PSLOCK[a]] = t \/ After(PSLOCK[a], wv[t])
                 /\ \A h \in hist : h[1] = a => h[2] <= rv[t] \/ h[2] > wv[t]
<1>0. TypeOK /\ ThreadInv(t) /\ CheckedInv(t)
  BY Zenon DEF IInv
<1>1. CASE Decide(t)
  <2>1. CASE d = [rv |-> rv[t], wv |-> wv[t], writes |-> Writes(t), reads |-> {r[1] : r \in seen[t]}]
    <3>1. pc[t] = "check" /\ todo[t] = {} /\ ~IsRO[t]
      BY <1>0, <1>1, Zenon DEF Decide, ThreadInv
    <3>2. ASSUME NEW a \in d.reads PROVE PSLOCK[a] \in rdSet[t] \ todo[t] /\ PSLOCK[a] \in Lock
      <4>1. PICK r \in seen[t] : a = r[1]
        BY <2>1, <3>2, Zenon
      <4>2. PSLOCK[r[1]] \in rdSet[t] /\ rdSet[t] \subseteq Lock
        BY <1>0, <3>1, Zenon DEF ThreadInv, TypeOK
      <4> QED BY <3>1, <4>1, <4>2, Zenon
    <3>3. \A a \in d.reads : /\ owner[PSLOCK[a]] = t \/ After(PSLOCK[a], wv[t])
                             /\ \A h \in hist : h[1] = a => h[2] <= rv[t] \/ h[2] > wv[t]
      BY <1>0, <3>1, <3>2, Zenon DEF CheckedInv
    <3>4. d.wv = wv[t] /\ d.rv = rv[t] /\ d.writes = Writes(t)
      BY <2>1, Zenon
    <3> QED BY <1>1, <3>1, <3>2, <3>3, <3>4, Zenon
  <2> QED BY <1>1, <2>1, Zenon DEF Decide
<1>2. CASE \E b \in Addr : WriteBack(t, b)
  BY <1>2, Zenon DEF WriteBack, ghosts
<1>3. CASE \E k \in Lock : DropLock(t, k)
  BY <1>3, Zenon DEF DropLock, Release, ghosts
<1> QED
  BY <1>0, <1>1, <1>2, <1>3, Quiet, Zenon

\* No write but its own lands between the rv and the wv of a finished transaction
\* that read its address, and none will.
LEMMA DoneStep ==
  ASSUME IInv, NEW t \in Thread, ThreadInv(t)', Step(t), NEW d \in done', d.wv \in Nat,
         NEW a \in d.reads
  PROVE  /\ d.wv <= clock' /\ After(PSLOCK[a], d.wv)'
         /\ \A h \in hist' : h[1] = a => \/ h[2] <= d.rv \/ h[2] > d.wv
                                         \/ (a \in d.writes /\ h[2] = d.wv)
<1>0. TypeOK /\ ThreadInv(t) /\ clock' >= clock /\ clock \in Nat /\ clock' \in Nat
  BY LockWords, TypeStep, Zenon DEF IInv, TypeOK
<1>1. CASE d \in done
  <2>1. PSLOCK[a] \in Lock /\ a \in Addr
    BY <1>0, <1>1, TL2Assumption, Zenon DEF TypeOK
  <2>2. d.wv <= clock /\ After(PSLOCK[a], d.wv)
    BY <1>1, Zenon DEF IInv, DoneInv
  <2>3. \A h \in hist' : h[1] = a => h \in hist \/ h[2] > d.wv
    BY <1>0, <2>2, Later, Zenon
  <2>4. After(PSLOCK[a], d.wv)'
    BY <1>0, <2>1, <2>2, AfterStable, Zenon
  <2>5. \A h \in hist : h[1] = a => \/ h[2] <= d.rv \/ h[2] > d.wv
                                    \/ (a \in d.writes /\ h[2] = d.wv)
    BY <1>1, Zenon DEF IInv, Serializable
  <2>6. d.wv <= clock'
    BY <1>0, <2>2, AtMost, Zenon
  <2> QED BY <2>3, <2>4, <2>5, <2>6, Zenon
<1>2. CASE d \notin done
  <2>1. /\ Decide(t) /\ pc[t] = "check" /\ d.wv = wv[t] /\ d.rv = rv[t] /\ d.writes = Writes(t)
        /\ PSLOCK[a] \in Lock
        /\ owner[PSLOCK[a]] = t \/ After(PSLOCK[a], d.wv)
        /\ \A h \in hist : h[1] = a => h[2] <= d.rv \/ h[2] > d.wv
    <3>1. /\ Decide(t) /\ pc[t] = "check" /\ d.wv = wv[t] /\ d.rv = rv[t] /\ d.writes = Writes(t)
          /\ \A b \in d.reads :
               /\ PSLOCK[b] \in Lock
               /\ owner[PSLOCK[b]] = t \/ After(PSLOCK[b], wv[t])
               /\ \A h \in hist : h[1] = b => h[2] <= rv[t] \/ h[2] > wv[t]
      BY <1>2, Finished, Zenon
    <3> QED BY <3>1, Zenon
  <2>2. d.wv <= clock
    BY <1>0, <2>1, Zenon DEF ThreadInv
  <2>3. After(PSLOCK[a], d.wv)'
    <3>1. CASE After(PSLOCK[a], d.wv)
      BY <1>0, <2>1, <2>2, <3>1, AfterStable, Zenon
    <3>2. CASE owner[PSLOCK[a]] = t
      BY <1>0, <2>1, <3>2, Zenon DEF Decide, Move, TypeOK, After, shared
    <3> QED BY <2>1, <3>1, <3>2, Zenon
  <2>4. \A h \in hist' : h[1] = a => h \in hist \/ (a \in d.writes /\ h[2] = d.wv)
    <3>1. ASSUME NEW h \in hist', h[1] = a, h \notin hist PROVE a \in d.writes /\ h[2] = d.wv
      <4>1. PICK b \in Writes(t) : h = <<b, wv[t], wrSet[t][b]>>
        BY <2>1, <3>1, Zenon DEF Decide
      <4>2. h[1] = b /\ h[2] = wv[t]
        BY <4>1, Zenon
      <4> QED BY <2>1, <3>1, <4>2, Zenon
    <3> QED BY <3>1, Zenon
  <2>5. d.wv <= clock'
    BY <1>0, <2>2, AtMost, Zenon
  <2> QED BY <2>1, <2>3, <2>4, <2>5, Zenon
<1> QED
  BY <1>1, <1>2, Zenon

\* Every step keeps IInv.
LEMMA StepIInv ==
  ASSUME FreesApart, IInv, NEW t \in Thread, Step(t)
  PROVE  IInv'
<1>0. TypeOK /\ ClockInv /\ ThreadInv(t)
  BY Zenon DEF IInv
<1>1. TypeOK' /\ ClockInv'
  BY <1>0, TypeStep, Versions, Zenon
<1>2. ThreadInv(t)'
  <2>1. \A l \in Swept(t) : owner[l] \in {t, NoThread}
    BY <1>0, SweptFree, Zenon DEF IInv
  <2> QED BY <1>0, <2>1, OwnThread, Zenon DEF IInv
<1>3. ASSUME NEW u \in Thread, u # t PROVE ThreadInv(u)'
  BY <1>0, <1>3, OtherThread, Zenon DEF IInv
<1>11. \A u \in Thread : UseInv(u)'
  BY <1>0, UseStep, Zenon DEF IInv
<1>4. ASSUME NEW u \in Thread PROVE LoadInv(u)'
  <2>1. CASE u = t
    BY <1>0, <2>1, LoadOwn, Zenon DEF IInv
  <2>2. CASE u # t
    BY <1>0, <1>2, <2>2, LoadOther, Zenon DEF IInv
  <2> QED BY <2>1, <2>2, Zenon
<1>5. \A u \in Thread : SeenInv(u)'
  BY <1>2, SnapshotStep, Zenon DEF SeenInv
<1>6. Snapshot'
  <2>1. ASSUME NEW u \in Thread, Running(u)', NEW r \in seen'[u], r[1] \notin Freeable
        PROVE  \E h \in hist' :
                  /\ h[1] = r[1] /\ h[2] <= rv'[u] /\ h[3] = r[2]
                  /\ \A g \in hist' : g[1] = r[1] => g = h \/ g[2] < h[2] \/ g[2] > rv'[u]
    BY <1>2, <2>1, SnapshotStep, Zenon
  <2> QED BY <2>1, Zenon DEF Snapshot
<1>7. \A u \in Thread : CheckedInv(u)'
  BY <1>2, CheckedStep, Zenon
<1>8. \A a \in Addr : WordInv(a)'
  BY <1>0, <1>2, WordsStep, Zenon DEF IInv
<1>9. \A d \in done' : d.wv \in Nat /\ d.wv <= clock'
  <2>1. TAKE d \in done'
  <2>2. d.wv \in Nat /\ clock' >= clock /\ clock \in Nat /\ clock' \in Nat
    BY <1>0, <1>1, LockWords, Zenon DEF TypeOK
  <2>3. d \in done \/ (d.wv = wv[t] /\ pc[t] = "check")
    BY <1>2, Finished, Zenon
  <2>4. d.wv <= clock
    BY <1>0, <2>3, Zenon DEF IInv, DoneInv, ThreadInv
  <2> QED BY <2>2, <2>4, AtMost, Zenon
<1>10. DoneInv' /\ Serializable'
  BY <1>2, <1>9, DoneStep, Zenon DEF DoneInv, Serializable
<1> QED
  BY <1>1, <1>2, <1>3, <1>4, <1>5, <1>6, <1>7, <1>8, <1>10, <1>11, Zenon DEF IInv

\* A step that leaves every variable leaves IInv.
LEMMA StutterIInv == IInv /\ UNCHANGED vars => IInv'
<1> SUFFICES ASSUME IInv, UNCHANGED vars PROVE IInv'
  OBVIOUS
<1> USE DEF vars, shared, txn, commit, ghosts
<1>1. TypeOK' /\ ClockInv'
  BY Zenon DEF IInv, TypeOK, ClockInv
<1>2. ASSUME NEW t \in Thread PROVE Writes(t)' = Writes(t) /\ WriteLocks(t)' = WriteLocks(t)
  BY Zenon DEF Writes, WriteLocks
<1>3. ASSUME NEW t \in Thread PROVE UseInv(t)' /\ ThreadInv(t)'
  <2>1. UseInv(t) /\ ThreadInv(t)
    BY Zenon DEF IInv
  <2>2. UseInv(t)'
    BY <1>2, <2>1, Zenon DEF UseInv
  <2>3. ThreadInv(t)'
    BY <1>2, <2>1, Zenon DEF ThreadInv
  <2> QED BY <2>2, <2>3, Zenon
<1>4. \A t \in Thread, a \in Addr : Updating(t, a)' <=> Updating(t, a)
  BY <1>2, Zenon DEF Updating
<1>5. \A l, n : After(l, n)' <=> After(l, n)
  BY Zenon DEF After
<1>6. ASSUME NEW t \in Thread PROVE LoadInv(t)'
  <2>1. LoadInv(t)
    BY Zenon DEF IInv
  <2>2. \A u \in Thread : Updating(u, acc[t].addr)' <=> Updating(u, acc[t].addr)
    BY <1>2, Zenon DEF Updating
  <2>3. acc' = acc /\ pc' = pc /\ ver' = ver /\ mem' = mem
    BY Zenon
  <2> QED BY <2>1, <2>2, <2>3, Zenon DEF LoadInv, Is
<1>7. ASSUME NEW t \in Thread PROVE SeenInv(t)' /\ CheckedInv(t)'
  <2>1. SeenInv(t) /\ CheckedInv(t)
    BY Zenon DEF IInv
  <2> QED BY <2>1, Zenon DEF SeenInv, CheckedInv, Running, After
<1>8. ASSUME NEW a \in Addr PROVE WordInv(a)'
  <2>1. WordInv(a)
    BY Zenon DEF IInv
  <2>2. hist' = hist /\ mem' = mem /\ ver' = ver /\ wv' = wv /\ wrSet' = wrSet /\ todo' = todo
    BY Zenon
  <2>3. CASE \E h \in hist : /\ Newest(h, a) /\ Is(a, h[3]) /\ h[2] <= ver[PSLOCK[a]]
                             /\ \A t \in Thread : ~Updating(t, a)
    BY <1>4, <2>2, <2>3, Zenon DEF WordInv, Newest, Is
  <2>4. CASE \E t \in Thread : /\ Updating(t, a)
                               /\ Newest(<<a, wv[t], wrSet[t][a]>>, a)
                               /\ a \notin todo[t] => Is(a, wrSet[t][a])
    <3>1. PICK t \in Thread : /\ Updating(t, a)
                              /\ Newest(<<a, wv[t], wrSet[t][a]>>, a)
                              /\ a \notin todo[t] => Is(a, wrSet[t][a])
      BY <2>4, Zenon
    <3>2. Newest(<<a, wv[t], wrSet[t][a]>>, a)'
      BY <3>1, <2>2, Zenon DEF Newest
    <3> QED BY <1>4, <2>2, <3>1, <3>2, Zenon DEF WordInv, Is
  <2> QED BY <2>1, <2>3, <2>4, Zenon DEF WordInv
<1>9. DoneInv' /\ Snapshot' /\ Serializable'
  <2>1. DoneInv /\ Snapshot /\ Serializable
    BY Zenon DEF IInv
  <2>2. hist' = hist /\ done' = done /\ clock' = clock /\ seen' = seen /\ rv' = rv /\ pc' = pc
    BY Zenon
  <2>3. DoneInv'
    BY <1>5, <2>1, <2>2, Zenon DEF DoneInv, After
  <2>4. Snapshot'
    <3>1. ASSUME NEW t \in Thread, Running(t)', NEW r \in seen'[t], r[1] \notin Freeable
          PROVE  \E h \in hist' :
                    /\ h[1] = r[1] /\ h[2] <= rv'[t] /\ h[3] = r[2]
                    /\ \A g \in hist' : g[1] = r[1] => g = h \/ g[2] < h[2] \/ g[2] > rv'[t]
      <4>1. Running(t) /\ r \in seen[t]
        BY <2>2, <3>1, Zenon DEF Running
      <4>2. PICK h \in hist :
                    /\ h[1] = r[1] /\ h[2] <= rv[t] /\ h[3] = r[2]
                    /\ \A g \in hist : g[1] = r[1] => g = h \/ g[2] < h[2] \/ g[2] > rv[t]
        BY <2>1, <3>1, <4>1, Zenon DEF Snapshot
      <4> QED BY <2>2, <4>2, Zenon
    <3> QED BY <3>1, Zenon DEF Snapshot
  <2>5. Serializable'
    BY <2>1, <2>2, Zenon DEF Serializable
  <2> QED BY <2>3, <2>4, <2>5, Zenon
<1> QED
  BY <1>1, <1>3, <1>6, <1>7, <1>8, <1>9, Zenon DEF IInv

\* The inductive invariant of programs that free memory of their own only.
THEOREM Invariance == ASSUME FreesApart PROVE Spec => []IInv
<1>1. IInv /\ [Next]_vars => IInv'
  BY StepIInv, StutterIInv, Zenon DEF Next, Step
<1> QED
  BY <1>1, InitIInv, PTL DEF Spec

\* Types are correct, for any threads, words and lock table: the loops of commit and
\* abort run over lock-table entries and words, and versions are numbers.
THEOREM TypeCorrect == ASSUME FreesApart PROVE Spec => []TypeOK
BY Invariance, PTL DEF IInv

\* No transaction, committed, running or doomed, sees anything but the state of
\* memory at its rv, for any number of threads, words and stripes: what TxLoad's
\* two reads of the lock word and DropLocks after the write-back guarantee.
THEOREM SnapshotHolds == ASSUME FreesApart PROVE Spec => []Snapshot
BY Invariance, PTL DEF IInv

\* Update transactions are serializable in the order of their versions, although
\* GV4 lets racing committers share one; in particular no update is lost between
\* a transaction's read of a word and its own write of it.
THEOREM SerializableHolds == ASSUME FreesApart PROVE Spec => []Serializable
BY Invariance, PTL DEF IInv

\* The assertions of DropLocks and RestoreLocks: a lock word is released by the
\* transaction that owns it.
THEOREM OwnerReleasesHolds == ASSUME FreesApart PROVE Spec => []OwnerReleases
<1>1. IInv => OwnerReleases
  BY Zenon DEF IInv, TypeOK, ThreadInv, OwnerReleases
<1> QED
  BY <1>1, Invariance, PTL

\* The clock and every version only grow, and a commit's version is above every
\* version it replaces.
THEOREM VersionsGrowHolds == ASSUME FreesApart PROVE Spec => VersionsGrow
<1>1. ASSUME IInv, IInv', NEW t \in Thread, Step(t) PROVE Grows
  <2>0. TypeOK /\ ClockInv /\ ThreadInv(t) /\ ThreadInv(t)' /\ clock' >= clock
    BY <1>1, LockWords, Zenon DEF IInv
  <2>1. \A l \in Lock : ver'[l] >= ver[l] /\ Word(t, l)
    BY <1>1, <2>0, Versions, LockWords, Zenon
  <2>2. ASSUME NEW u \in Thread, NEW l \in Held[u] \ Held'[u], pc[u] # "abort"
        PROVE  ver'[l] > rdv[u][l]
    <3>1. u = t
      BY <1>1, <2>0, <2>2, Frame, Zenon DEF Same
    <3>2. l \in Lock /\ owner[l] = t /\ owner'[l] # t /\ rdv[t][l] = ver[l] /\ Word(t, l)
      BY <2>0, <2>1, <2>2, <3>1, Zenon DEF TypeOK, ThreadInv
    <3>3. ver'[l] = wv[t] /\ pc[t] \in {"write", "drop"}
      BY <2>2, <3>1, <3>2, Zenon DEF Word
    <3>4. ver[l] < wv[t] /\ ver[l] \in Nat /\ wv[t] \in Nat
      BY <2>0, <3>2, <3>3, Holding, Zenon DEF TypeOK
    <3> QED BY <3>1, <3>2, <3>3, <3>4, Zenon
  <2> QED BY <2>0, <2>1, <2>2, Zenon DEF Grows
<1>2. IInv /\ IInv' /\ [Next]_vars => [Grows]_vars
  BY <1>1, Zenon DEF Next, Step
<1> QED
  BY <1>2, Invariance, PTL DEF Spec, VersionsGrow
=============================================================================
