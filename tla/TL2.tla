-------------------------------- MODULE TL2 --------------------------------
(***************************************************************************)
(* The TL2 software transactional memory (stm/tl2/tl2.c), lazy versioning, *)
(* global version clock GV4 (the default of tl2.h), plain write log.       *)
(*                                                                         *)
(* A lock word LockTab[l] is owner[l]/ver[l]: NoThread and the version     *)
(* when LOCKBIT is clear; when it is set, the transaction whose log entry  *)
(* it points to (ver then keeps the last version).  The variables indexed  *)
(* by threads are fields of struct _Thread.  The write log is kept as a    *)
(* function from addresses to the last value stored, the read log as the   *)
(* set of stripes read.  seen, hist and done are history variables: what   *)
(* the running transaction's loads returned, every committed write         *)
(* <<address, version, value>>, and the finished update transactions.      *)
(***************************************************************************)
EXTENDS Integers

CONSTANTS Thread,    \* threads, each with one transaction at a time
          Addr,      \* words accessed through the STM
          Lock,      \* entries of LockTab
          PSLOCK,    \* the entry covering an address; collisions are allowed
          Value,     \* values stored; the words start as one of them
          Reach,     \* the addresses a thread's transactions use
          Blocks,    \* the heap blocks a thread's transactions may free
          Sweep,     \* the LockTab entries txSterilize visits for a block
          MaxOps,    \* bound: loads and stores per transaction
          MaxClock,  \* bound: update transactions start below this version
          NoThread, NoValue

ASSUME TL2Assumption ==
    /\ PSLOCK \in [Addr -> Lock]
    /\ Addr # {}
    /\ NoThread \notin Thread
    /\ NoValue \notin Value
    /\ 0 \in Value
    /\ Reach \in [Thread -> SUBSET Addr]
    /\ Blocks \in [Thread -> SUBSET Addr]
    /\ Sweep \in [Addr -> SUBSET Lock]
    /\ MaxOps \in Nat
    /\ MaxClock \in Nat

VARIABLES mem,        \* the words
          owner, ver, \* LockTab
          clock,      \* _GCLOCK
          pc,         \* where a thread is in a transaction
          IsRO, rv, rdSet, wrSet, freePtr, seen, ops,
          acc,        \* the locals of TxLoad and TxStore
          gv, wv, Held, rdv, todo, \* TryFastUpdate; todo is left of a loop
          hist, done

shared == <<mem, owner, ver, clock>>
txn    == <<IsRO, rv, rdSet, wrSet, freePtr, seen, ops>>
commit == <<gv, wv, Held, rdv, todo>>
ghosts == <<hist, done>>
vars   == <<shared, pc, txn, acc, commit, ghosts>>

\* What memset leaves in a freed block: TL2_USE_AFTER_FREE_MARKER.
Freed == -1

Freeable == UNION {Blocks[t] : t \in Thread}

\* Programs whose sweeps stay apart: a lock word that txSterilize may reset for t
\* (Swept) covers no word that another thread accesses or frees (Uses).
Uses(t) == Reach[t] \cup Blocks[t]

Swept(t) == UNION {Sweep[a] : a \in Blocks[t]}

FreesApart ==
    \A t \in Thread : \A u \in Thread \ {t} : \A a \in Uses(u) : PSLOCK[a] \notin Swept(t)

Words == Value \cup {Freed}

NoWrites == [a \in Addr |-> NoValue]

Access == [addr: Addr, valu: Value \cup {NoValue},
           by: Thread \cup {NoThread}, cv: Nat, word: Words]

NoAccess == [addr |-> CHOOSE a \in Addr : TRUE, valu |-> NoValue,
             by |-> NoThread, cv |-> 0, word |-> 0]

Writes(t) == {a \in Addr : wrSet[t][a] # NoValue}

WriteLocks(t) == {PSLOCK[a] : a \in Writes(t)}

Move(t, phase) == pc' = [pc EXCEPT ![t] = phase]

\* TxOnce, GVInit and TxInitThread.
Init ==
    /\ mem = [a \in Addr |-> 0]
    /\ owner = [l \in Lock |-> NoThread]
    /\ ver = [l \in Lock |-> 0]
    /\ clock = 0
    /\ pc = [t \in Thread |-> "idle"]
    /\ IsRO = [t \in Thread |-> FALSE]
    /\ rv = [t \in Thread |-> 0]
    /\ rdSet = [t \in Thread |-> {}]
    /\ wrSet = [t \in Thread |-> NoWrites]
    /\ freePtr = [t \in Thread |-> {}]
    /\ seen = [t \in Thread |-> {}]
    /\ ops = [t \in Thread |-> 0]
    /\ acc = [t \in Thread |-> NoAccess]
    /\ gv = [t \in Thread |-> 0]
    /\ wv = [t \in Thread |-> 0]
    /\ Held = [t \in Thread |-> {}]
    /\ rdv = [t \in Thread |-> [l \in Lock |-> 0]]
    /\ todo = [t \in Thread |-> {}]
    /\ hist = {<<a, 0, 0>> : a \in Addr}
    /\ done = {}

\* The end of a transaction, committed or aborted.  The logs are emptied by the
\* txReset of the next TxStart; what only means something inside a transaction
\* is set to fixed values here.
Finish(t) ==
    /\ Move(t, "idle")
    /\ IsRO' = [IsRO EXCEPT ![t] = FALSE]
    /\ rv' = [rv EXCEPT ![t] = 0]
    /\ rdSet' = [rdSet EXCEPT ![t] = {}]
    /\ wrSet' = [wrSet EXCEPT ![t] = NoWrites]
    /\ freePtr' = [freePtr EXCEPT ![t] = {}]
    /\ seen' = [seen EXCEPT ![t] = {}]
    /\ ops' = [ops EXCEPT ![t] = 0]
    /\ gv' = [gv EXCEPT ![t] = 0]
    /\ wv' = [wv EXCEPT ![t] = 0]
    /\ rdv' = [rdv EXCEPT ![t] = [l \in Lock |-> 0]]
    /\ todo' = [todo EXCEPT ![t] = {}]
    /\ UNCHANGED <<acc, Held, ghosts>>

\* TxStart; sigsetjmp brings a restarted transaction back here.
TxStart(t, isRO) ==
    /\ pc[t] = "idle"
    /\ isRO \/ clock < MaxClock
    /\ Move(t, "txn")
    /\ IsRO' = [IsRO EXCEPT ![t] = isRO]
    /\ rv' = [rv EXCEPT ![t] = clock]
    /\ UNCHANGED <<shared, rdSet, wrSet, freePtr, seen, ops, acc, commit, ghosts>>

\* TxLoad (v = NoValue) or TxStore of v, as far as the first LDLOCK.  A load of
\* an address in the write log returns the logged value and changes nothing.
BeginAccess(t, a, v) ==
    /\ pc[t] = "txn"
    /\ ops[t] < MaxOps
    /\ a \in Reach[t] \ freePtr[t]
    /\ IF v = NoValue THEN a \notin Writes(t) ELSE ~IsRO[t]
    /\ Move(t, "ldlock")
    /\ ops' = [ops EXCEPT ![t] = @ + 1]
    /\ acc' = [acc EXCEPT ![t] = [addr |-> a, valu |-> v, by |-> owner[PSLOCK[a]],
                                  cv |-> ver[PSLOCK[a]], word |-> 0]]
    /\ UNCHANGED <<shared, IsRO, rv, rdSet, wrSet, freePtr, seen, commit, ghosts>>

\* TxStore in a transaction begun read-only: clear the flag and abort.
StoreInReadOnly(t) ==
    /\ pc[t] = "txn"
    /\ IsRO[t]
    /\ Move(t, "abort")
    /\ UNCHANGED <<shared, txn, acc, commit, ghosts>>

\* LDNF(Addr), between the two reads of the lock word.
LoadWord(t) ==
    /\ pc[t] = "ldlock"
    /\ Move(t, "ldword")
    /\ acc' = [acc EXCEPT ![t].word = mem[acc[t].addr]]
    /\ UNCHANGED <<shared, txn, commit, ghosts>>

\* Mutant: the lock word is not read again after the value.
CoherentOnce(t) == acc[t].by = NoThread /\ acc[t].cv <= rv[t]

\* The word was read under one unlocked version no newer than rv.
Coherent(t) ==
    LET l == PSLOCK[acc[t].addr]
    IN  /\ acc[t].by = NoThread
        /\ acc[t].cv <= rv[t]
        /\ owner[l] = NoThread
        /\ ver[l] = acc[t].cv

\* TrackLoad, and the value handed to the program.
Track(t) ==
    /\ seen' = [seen EXCEPT ![t] = @ \cup {<<acc[t].addr, acc[t].word>>}]
    /\ rdSet' = IF IsRO[t] THEN rdSet
                ELSE [rdSet EXCEPT ![t] = @ \cup {PSLOCK[acc[t].addr]}]
    /\ UNCHANGED wrSet

\* The second LDLOCK of TxLoad.
EndLoad(t) ==
    /\ pc[t] = "ldword"
    /\ acc[t].valu = NoValue
    /\ \/ Coherent(t) /\ Move(t, "txn") /\ Track(t)
       \/ ~Coherent(t) /\ Move(t, "abort") /\ UNCHANGED <<seen, rdSet, wrSet>>
    /\ acc' = [acc EXCEPT ![t] = NoAccess]
    /\ UNCHANGED <<shared, IsRO, rv, freePtr, ops, commit, ghosts>>

\* RecordStore.
Record(t, a, v) ==
    /\ wrSet' = [wrSet EXCEPT ![t][a] = v]
    /\ UNCHANGED <<rdSet, seen>>

\* The rest of TxStore: a store of the value already there becomes a tracked
\* load unless the address is in the write log.
EndStore(t) ==
    LET idempotent == /\ acc[t].word = acc[t].valu
                      /\ acc[t].addr \notin Writes(t)
                      /\ Coherent(t)
    IN  /\ pc[t] = "ldword"
        /\ acc[t].valu # NoValue
        /\ Move(t, "txn")
        /\ \/ idempotent /\ Track(t)
           \/ ~idempotent /\ Record(t, acc[t].addr, acc[t].valu)
        /\ acc' = [acc EXCEPT ![t] = NoAccess]
        /\ UNCHANGED <<shared, IsRO, rv, freePtr, ops, commit, ghosts>>

\* TxFree: the first word goes to the write log, the block to freePtr.
TxFree(t, a) ==
    /\ pc[t] = "txn"
    /\ ~IsRO[t]
    /\ ops[t] < MaxOps
    /\ a \in Blocks[t] \ freePtr[t]
    /\ freePtr' = [freePtr EXCEPT ![t] = @ \cup {a}]
    /\ ops' = [ops EXCEPT ![t] = @ + 1]
    /\ Record(t, a, 0)
    /\ UNCHANGED <<shared, pc, IsRO, rv, acc, commit, ghosts>>

\* TxCommit: a transaction with an empty write log is done.
TxCommit(t) ==
    /\ pc[t] = "txn"
    /\ \/ Writes(t) = {} /\ Finish(t)
       \/ Writes(t) # {} /\ Move(t, "lock") /\ UNCHANGED <<txn, acc, commit, ghosts>>
    /\ UNCHANGED shared

\* Mutant: the lock is taken whoever holds it.
LockStripeBlind(t, l) ==
    /\ pc[t] = "lock"
    /\ l \in WriteLocks(t) \ Held[t]
    /\ l \in rdSet[t] => ver[l] <= rv[t]
    /\ owner' = [owner EXCEPT ![l] = t]
    /\ Held' = [Held EXCEPT ![t] = @ \cup {l}]
    /\ rdv' = [rdv EXCEPT ![t][l] = ver[l]]
    /\ UNCHANGED <<mem, ver, clock, pc, txn, acc, gv, wv, todo, ghosts>>

\* Mutant: a stripe that was read and is written is locked however new it is.
LockStripeStale(t, l) ==
    /\ pc[t] = "lock"
    /\ l \in WriteLocks(t) \ Held[t]
    /\ owner[l] = NoThread
    /\ owner' = [owner EXCEPT ![l] = t]
    /\ Held' = [Held EXCEPT ![t] = @ \cup {l}]
    /\ rdv' = [rdv EXCEPT ![t][l] = ver[l]]
    /\ UNCHANGED <<mem, ver, clock, pc, txn, acc, gv, wv, todo, ghosts>>

\* TryFastUpdate, acquisition: CAS of one stripe's lock word; one that was also
\* read must not be newer than rv.
LockStripe(t, l) ==
    /\ pc[t] = "lock"
    /\ l \in WriteLocks(t) \ Held[t]
    /\ owner[l] = NoThread
    /\ l \in rdSet[t] => ver[l] <= rv[t]
    /\ owner' = [owner EXCEPT ![l] = t]
    /\ Held' = [Held EXCEPT ![t] = @ \cup {l}]
    /\ rdv' = [rdv EXCEPT ![t][l] = ver[l]]
    /\ UNCHANGED <<mem, ver, clock, pc, txn, acc, gv, wv, todo, ghosts>>

\* A read-write stripe that is locked or newer than rv, or a write-only stripe
\* locked until the spin budget is spent: give up.
LockFails(t, l) ==
    /\ pc[t] = "lock"
    /\ l \in WriteLocks(t) \ Held[t]
    /\ \/ owner[l] # NoThread
       \/ l \in rdSet[t] /\ ver[l] > rv[t]
    /\ Move(t, "abort")
    /\ UNCHANGED <<shared, txn, acc, commit, ghosts>>

\* GVGenerateWV_GV4: read the clock once every stripe is held ...
ReadClock(t) ==
    /\ pc[t] = "lock"
    /\ WriteLocks(t) \subseteq Held[t]
    /\ Move(t, "cas")
    /\ gv' = [gv EXCEPT ![t] = clock]
    /\ UNCHANGED <<shared, txn, acc, wv, Held, rdv, todo, ghosts>>

\* Mutant: the write version is the clock's old value.
GenerateWVOld(t) ==
    /\ pc[t] = "cas"
    /\ clock' = IF clock = gv[t] THEN gv[t] + 2 ELSE clock
    /\ wv' = [wv EXCEPT ![t] = gv[t]]
    /\ todo' = [todo EXCEPT ![t] = rdSet[t]]
    /\ Move(t, "check")
    /\ UNCHANGED <<mem, owner, ver, txn, acc, gv, Held, rdv, ghosts>>

\* ... then one CAS; a thread that loses it borrows the version it finds.
GenerateWV(t) ==
    /\ pc[t] = "cas"
    /\ clock' = IF clock = gv[t] THEN gv[t] + 2 ELSE clock
    /\ wv' = [wv EXCEPT ![t] = clock']
    /\ todo' = [todo EXCEPT ![t] = rdSet[t]]
    /\ Move(t, "check")
    /\ UNCHANGED <<mem, owner, ver, txn, acc, gv, Held, rdv, ghosts>>

\* Mutant: an unlocked stripe is coherent, however new.
CheckStripeNoVersion(t, l) ==
    LET coherent == owner[l] \in {t, NoThread}
    IN  /\ pc[t] = "check"
        /\ l \in todo[t]
        /\ \/ coherent /\ todo' = [todo EXCEPT ![t] = @ \ {l}] /\ UNCHANGED pc
           \/ ~coherent /\ Move(t, "abort") /\ UNCHANGED todo
        /\ UNCHANGED <<shared, txn, acc, gv, wv, Held, rdv, ghosts>>

\* ReadSetCoherent, one entry: ours, or unlocked and no newer than rv.
CheckStripe(t, l) ==
    LET coherent == owner[l] = t \/ (owner[l] = NoThread /\ ver[l] <= rv[t])
    IN  /\ pc[t] = "check"
        /\ l \in todo[t]
        /\ \/ coherent /\ todo' = [todo EXCEPT ![t] = @ \ {l}] /\ UNCHANGED pc
           \/ ~coherent /\ Move(t, "abort") /\ UNCHANGED todo
        /\ UNCHANGED <<shared, txn, acc, gv, wv, Held, rdv, ghosts>>

\* Mutant: every word the transaction can reach is written back.
DecideWholeLog(t) ==
    /\ pc[t] = "check"
    /\ todo[t] = {}
    /\ Move(t, "write")
    /\ todo' = [todo EXCEPT ![t] = Reach[t]]
    /\ hist' = hist \cup {<<a, wv[t], wrSet[t][a]>> : a \in Writes(t)}
    /\ done' = done \cup {[rv |-> rv[t], wv |-> wv[t], writes |-> Writes(t),
                           reads |-> {r[1] : r \in seen[t]}]}
    /\ UNCHANGED <<shared, txn, acc, gv, wv, Held, rdv>>

\* "We are now committed": the read set was coherent.
Decide(t) ==
    /\ pc[t] = "check"
    /\ todo[t] = {}
    /\ Move(t, "write")
    /\ todo' = [todo EXCEPT ![t] = Writes(t)]
    /\ hist' = hist \cup {<<a, wv[t], wrSet[t][a]>> : a \in Writes(t)}
    /\ done' = done \cup {[rv |-> rv[t], wv |-> wv[t], writes |-> Writes(t),
                           reads |-> {r[1] : r \in seen[t]}]}
    /\ UNCHANGED <<shared, txn, acc, gv, wv, Held, rdv>>

\* WriteBackForward, one entry.
WriteBack(t, a) ==
    /\ pc[t] = "write"
    /\ a \in todo[t]
    /\ mem' = [mem EXCEPT ![a] = wrSet[t][a]]
    /\ todo' = [todo EXCEPT ![t] = @ \ {a}]
    /\ UNCHANGED <<owner, ver, clock, pc, txn, acc, gv, wv, Held, rdv, ghosts>>

\* Clearing LOCKBIT with version n in the word.
Release(t, l, n) ==
    /\ owner' = [owner EXCEPT ![l] = NoThread]
    /\ ver' = [ver EXCEPT ![l] = n]
    /\ Held' = [Held EXCEPT ![t] = @ \ {l}]
    /\ UNCHANGED <<mem, clock, txn, acc, gv, wv, rdv, todo, ghosts>>

\* DropLocks, one entry; the loop starts when every store is done (MEMBARSTST).
DropLock(t, l) ==
    /\ pc[t] \in {"write", "drop"}
    /\ todo[t] = {}
    /\ l \in Held[t]
    /\ Move(t, "drop")
    /\ Release(t, l, wv[t])

\* txCommitReset; the freed blocks are then sterilized and released.
AfterCommit(t) ==
    /\ pc[t] = "drop"
    /\ Held[t] = {}
    /\ \/ freePtr[t] = {} /\ Finish(t)
       \/ /\ freePtr[t] # {}
          /\ Move(t, "wipe")
          /\ todo' = [todo EXCEPT ![t] = UNION {Sweep[a] : a \in freePtr[t]}]
          /\ UNCHANGED <<txn, acc, gv, wv, Held, rdv, ghosts>>
    /\ UNCHANGED shared

\* txSterilize, one lock word: CAS it, locked or not, to the current clock.  The
\* CAS may lose to another thread, whose word then stays.
SterilizeLock(t, l) ==
    /\ pc[t] = "wipe"
    /\ l \in todo[t]
    /\ \/ /\ owner' = [owner EXCEPT ![l] = NoThread]
          /\ ver' = [ver EXCEPT ![l] = clock]
       \/ UNCHANGED <<owner, ver>>
    /\ todo' = [todo EXCEPT ![t] = @ \ {l}]
    /\ UNCHANGED <<mem, clock, pc, txn, acc, gv, wv, Held, rdv, ghosts>>

\* The memset at the end of txSterilize, and free().
SterilizeWord(t) ==
    /\ pc[t] = "wipe"
    /\ todo[t] = {}
    /\ mem' = [a \in Addr |-> IF a \in freePtr[t] THEN Freed ELSE mem[a]]
    /\ Finish(t)
    /\ UNCHANGED <<owner, ver, clock>>

\* TxAbort: RestoreLocks, one entry ...
RestoreLock(t, l) ==
    /\ pc[t] = "abort"
    /\ l \in Held[t]
    /\ Release(t, l, rdv[t][l])
    /\ UNCHANGED pc

\* ... then drop the deferred frees and SIGLONGJMP to the start.
Restart(t) ==
    /\ pc[t] = "abort"
    /\ Held[t] = {}
    /\ Finish(t)
    /\ UNCHANGED shared

\* STM_BEGIN: the program starts a transaction.
Begin(t) == \E isRO \in BOOLEAN : TxStart(t, isRO)

\* Everything a thread does once its transaction has begun.
Advance(t) ==
    \/ \E a \in Addr, v \in Value \cup {NoValue} : BeginAccess(t, a, v)
    \/ StoreInReadOnly(t)
    \/ LoadWord(t)
    \/ EndLoad(t)
    \/ EndStore(t)
    \/ \E a \in Addr : TxFree(t, a)
    \/ TxCommit(t)
    \/ \E l \in Lock : LockStripe(t, l) \/ LockFails(t, l)
    \/ ReadClock(t)
    \/ GenerateWV(t)
    \/ \E l \in Lock : CheckStripe(t, l)
    \/ Decide(t)
    \/ \E a \in Addr : WriteBack(t, a)
    \/ \E l \in Lock : DropLock(t, l)
    \/ AfterCommit(t)
    \/ \E l \in Lock : SterilizeLock(t, l)
    \/ SterilizeWord(t)
    \/ \E l \in Lock : RestoreLock(t, l)
    \/ Restart(t)

Next == \E t \in Thread : Begin(t) \/ Advance(t)

Spec == Init /\ [][Next]_vars

TypeOK ==
    /\ mem \in [Addr -> Words]
    /\ owner \in [Lock -> Thread \cup {NoThread}]
    /\ ver \in [Lock -> Nat]
    /\ clock \in Nat
    /\ pc \in [Thread -> {"idle", "txn", "ldlock", "ldword", "lock", "cas",
                          "check", "write", "drop", "wipe", "abort"}]
    /\ IsRO \in [Thread -> BOOLEAN]
    /\ rv \in [Thread -> Nat]
    /\ rdSet \in [Thread -> SUBSET Lock]
    /\ wrSet \in [Thread -> [Addr -> Value \cup {NoValue}]]
    /\ freePtr \in [Thread -> SUBSET Freeable]
    /\ seen \in [Thread -> SUBSET (Addr \X Words)]
    /\ ops \in [Thread -> Nat]
    /\ acc \in [Thread -> Access]
    /\ gv \in [Thread -> Nat]
    /\ wv \in [Thread -> Nat]
    /\ Held \in [Thread -> SUBSET Lock]
    /\ rdv \in [Thread -> [Lock -> Nat]]
    /\ todo \in [Thread -> SUBSET (Lock \cup Addr)]
    /\ hist \subseteq (Addr \X Nat \X Value)
    /\ done \subseteq [rv: Nat, wv: Nat, writes: SUBSET Addr, reads: SUBSET Addr]

Running(t) == pc[t] \notin {"idle", "abort", "wipe"}

\* Every value the running transaction has loaded is the value its address had
\* at version rv: no committed write with a version up to rv is newer.  This is
\* what lets read-only transactions commit without validation (TxCommit's fast
\* path) and keeps doomed transactions from seeing half an update.
Snapshot ==
    \A t \in Thread : Running(t) =>
        \A r \in seen[t] : r[1] \notin Freeable =>
            \E h \in hist :
                /\ h[1] = r[1] /\ h[2] <= rv[t] /\ h[3] = r[2]
                /\ \A g \in hist : g[1] = r[1] => g = h \/ g[2] < h[2] \/ g[2] > rv[t]

\* Commit order is version order: nothing an update transaction read, the words
\* it goes on to write included, was overwritten by another transaction between
\* its rv and its wv, although racing committers may share a wv
\* (GVGenerateWV_GV4).  The one write allowed there is its own, at wv: no update
\* that was computed from a value is lost under it.
Serializable ==
    \A d \in done : \A h \in hist :
        h[1] \in d.reads => \/ h[2] <= d.rv \/ h[2] > d.wv
                            \/ (h[1] \in d.writes /\ h[2] = d.wv)

\* A lock word is only ever released by its owner: the assertions of DropLocks
\* and RestoreLocks, OwnerOf(*(p->LockFor)) == Self.
OwnerReleases == \A t \in Thread : \A l \in Held[t] : owner[l] = t

\* What a step may do to the versions.
Grows ==
    /\ clock' >= clock
    /\ \A l \in Lock : ver'[l] >= ver[l]
    /\ \A t \in Thread : \A l \in Held[t] \ Held'[t] : pc[t] # "abort" => ver'[l] > rdv[t][l]

\* The clock and the versions never go back, and a commit's wv is above every
\* version it replaces (ASSERT(wv > p->rdv) in DropLocks).
VersionsGrow == [][Grows]_vars
=============================================================================
