---------------------------- MODULE CxlRefProofs ----------------------------
(***************************************************************************)
(* Proofs about CxlRef: the counts are the references there are, the eras  *)
(* decide which interrupted store the monitor has to repeat, and the       *)
(* monitor leaves nothing behind.                                          *)
(***************************************************************************)
EXTENDS CxlRef, TLAPS

\* The cell that a thread is changing: a RootRef of its own, the slot at end, or
\* the slot at start.
Own(t) == op[t].ref \in RootPage(t) /\ root[op[t].ref] = "used"

AtEnd(t) == t = Sender /\ op[t].ref = Slot(end) /\ ~Full

AtStart(t) == t = Receiver /\ op[t].ref = Slot(start) /\ start # end

\* A block that has no count yet.
BirthInv(t) ==
    /\ Own(t) /\ op[t].refed \in Obj /\ cell[op[t].ref] = op[t].refed
    /\ Home[op[t].refed] = t /\ info[op[t].refed] = NoInfo
    /\ pc[t] = "info" => blk[op[t].refed] = "taken"

\* A new reference to an object that the queue or a RootRef refers to meanwhile.
LinkInv(t) ==
    /\ op[t].refed \in Obj
    /\ cell[op[t].ref] = IF pc[t] = "bump" THEN op[t].refed ELSE None
    /\ \/ /\ op[t].then = "received" /\ Own(t)
          /\ t = Receiver /\ start # end /\ cell[Slot(start)] = op[t].refed
       \/ /\ op[t].then = "sent" /\ AtEnd(t)
          /\ \E r \in RootPage(t) : root[r] = "used" /\ cell[r] = op[t].refed

\* Whoever removes the last reference is the last to change the object.
UnlinkInv(t) ==
    /\ op[t].refed \in Obj
    /\ cell[op[t].ref] = IF pc[t] \in {"bump", "free"} THEN None ELSE op[t].refed
    /\ (op[t].then = "drop" /\ Own(t)) \/ (op[t].then = "advance" /\ AtStart(t))
    /\ pc[t] = "free" \/ (pc[t] \in {"set", "bump"} /\ op[t].saw.cnt = 1) =>
        info[op[t].refed].cnt = 0 /\ info[op[t].refed].by = t

ThreadInv(t) ==
    /\ pc[t] \in {"block", "drop"} => Own(t) /\ cell[op[t].ref] = None
    /\ pc[t] \in {"take", "info"} => BirthInv(t)
    /\ pc[t] \in {"log", "cas", "set", "bump"} => op[t].func_id \in {"link", "unlink"}
    /\ pc[t] = "free" => op[t].func_id = "unlink"
    /\ pc[t] \in {"log", "cas", "set", "bump"} /\ op[t].func_id = "link" => LinkInv(t)
    /\ pc[t] \in {"log", "cas", "set", "bump", "free"} /\ op[t].func_id = "unlink" => UnlinkInv(t)
    /\ pc[t] = "create" => t = Sender
    /\ pc[t] \in {"register", "unwrap"} => t = Receiver
    /\ pc[t] = "sent" => AtEnd(t)
    /\ pc[t] = "received" => t = Receiver /\ start # end /\ cell[Slot(start)] # None
    /\ pc[t] = "advance" => AtStart(t) /\ cell[op[t].ref] = None

\* A RootRef in use refers to an object unless its thread is at work on it.
Busy == {"block", "take", "info", "log", "cas", "set", "bump", "free", "drop"}

RootInv(t) ==
    \A r \in RootPage(t) :
        IF root[r] = "used" THEN cell[r] # None \/ (op[t].ref = r /\ pc[t] \in Busy)
        ELSE cell[r] = None

\* The slots outside the queue are empty, but for one that is being sent.
InRing(i) == IF start <= end THEN start <= i /\ i < end ELSE start <= i \/ i < end

SlotInv ==
    \A i \in 0 .. Slots - 1 : cell[Slot(i)] # None =>
        \/ InRing(i)
        \/ i = end /\ pc[Sender] \in {"bump", "sent"} /\ op[Sender].ref = Slot(end)

BlockInv == \A o \in Obj : blk[o] # "taken" => info[o] = NoInfo

\* The cells whose reference to o is counted.
Early(t) == pc[t] \in {"take", "info"} \/ (pc[t] = "set" /\ op[t].func_id = "unlink")

Late(t) == pc[t] = "set" /\ op[t].func_id = "link"

Has(c, o) ==
    \/ cell[c] = o /\ \A t \in Thread : op[t].ref = c => ~Early(t)
    \/ \E t \in Thread : Late(t) /\ op[t].ref = c /\ op[t].refed = o

Held(o) == {c \in Cell : Has(c, o)}

\* What the proofs need to know about the size of a set of cells (CellCounts, below).
Counting ==
    \A S \in SUBSET Cell :
        /\ Cardinality(S) \in Nat /\ (S # {} => Cardinality(S) # 0)
        /\ \A c \in Cell :
            /\ c \notin S => Cardinality(S \cup {c}) = Cardinality(S) + 1
            /\ c \in S => Cardinality(S \ {c}) = Cardinality(S) - 1

CountInv == \A o \in Obj : info[o].cnt = Cardinality(Held(o))

RefInv ==
    /\ \A t \in Thread : ThreadInv(t) /\ RootInv(t)
    /\ SlotInv /\ BlockInv /\ CountInv /\ Counting

\* The threads that the monitor has not recovered.
Pending(t) ==
    /\ mon[2] \in {"wait", "redo", "roots", "slots"}
    /\ mon[1] <= t /\ ~(mon[1] = t /\ mon[2] # "redo")

\* The exchange of t can be told from the object or from what another thread has
\* noted.
Noted(t) ==
    \/ info[op[t].refed].by = t /\ info[op[t].refed].era = era[t][t]
    \/ \E u \in Thread \ {t} : era[u][t] >= era[t][t]

\* The era of t is found outside its own only between its exchange and the next era.
Fresh(t, e) == e <= era[t][t] /\ (e = era[t][t] => pc[t] \in {"set", "bump"})

EraInv(t) ==
    /\ \A o \in Obj : info[o].by = t => Fresh(t, info[o].era)
    /\ \A u \in Thread \ {t} : Fresh(t, era[u][t])
    /\ log[t].func_id # "none" => log[t].refed \in Obj
    /\ pc[t] \in {"cas", "set", "bump"} =>
        /\ log[t].func_id = op[t].func_id /\ log[t].refed = op[t].refed
        /\ log[t].era = era[t][t] /\ op[t].refed \in Obj
        /\ op[t].func_id \in {"link", "unlink"}
    /\ pc[t] \in {"set", "bump"} => Noted(t)
    /\ pc[t] = "cas" /\ op[t].saw.by \in Thread => era[t][op[t].saw.by] >= op[t].saw.era

MonInv ==
    /\ mon[2] = "wait" => mon[1] = 0
    /\ mon[2] # "wait" => dead = Thread

IInv ==
    /\ TypeOK /\ MonInv
    /\ \A t \in Thread : era[t][t] >= 1 /\ (Pending(t) => EraInv(t))
    /\ mon[2] = "wait" => RefInv

-----------------------------------------------------------------------------
\* Zenon proves the steps that name no other prover.
USE Zenon

\* The numbers of the threads and of the slots.
LEMMA Numbers ==
  /\ Threads \in Nat /\ Roots \in Nat \ {0} /\ Slots \in Nat \ {0} /\ MAX_THREAD \in Nat
  /\ Threads < MAX_THREAD /\ MaxEra \in Nat
  /\ Home \in [Obj -> Thread] /\ Sender \in Thread /\ Receiver \in Thread /\ None \notin Obj
BY CxlRefAssumption

\* The monitor's place is a thread and a step.
LEMMA Pair ==
  ASSUME NEW x, NEW y
  PROVE  <<x, y>>[1] = x /\ <<x, y>>[2] = y
BY SMT

\* The head of a list is its first element.
LEMMA First ==
  ASSUME NEW S, NEW s \in Seq(S), s # <<>>
  PROVE  1 \in 1 .. Len(s) /\ Head(s) = s[1]
BY SMT

\* Threads count from 1.
LEMMA ThreadNat ==
  ASSUME NEW t \in Thread
  PROVE  t \in Nat /\ t # 0 /\ t \in 0 .. Threads /\ t < MAX_THREAD /\ t \in 1 .. MAX_THREAD - 1
BY Numbers, SMT DEF Thread

\* RootRefs and slots are different cells, and nobody else's RootRefs are one's own.
LEMMA Pages ==
  ASSUME NEW t \in Thread
  PROVE  /\ RootPage(t) \subseteq Root /\ RootPage(t) \subseteq Cell
         /\ \A i : Slot(i) \notin RootPage(t)
         /\ \A u \in Thread : u # t => RootPage(t) \cap RootPage(u) = {}
<1>1. RootPage(t) \subseteq Root
  BY SMT DEF RootPage, Root
<1>2. \A i : Slot(i) \notin RootPage(t)
  BY ThreadNat, SMT DEF RootPage, Slot
<1>3. \A u \in Thread : u # t => RootPage(t) \cap RootPage(u) = {}
  BY SMT DEF RootPage
<1> QED BY <1>1, <1>2, <1>3 DEF Cell

\* Slots with different indices are different cells.
LEMMA SlotCells ==
  /\ \A i \in 0 .. Slots - 1 : Slot(i) \in Cell
  /\ \A i, j : Slot(i) = Slot(j) => i = j
<1>1. \A i \in 0 .. Slots - 1 : Slot(i) \in {0} \X (0 .. Slots - 1)
  BY SMT DEF Slot
<1>2. \A i, j : Slot(i) = Slot(j) => i = j
  BY SMT DEF Slot
<1> QED BY <1>1, <1>2 DEF Cell

\* A cell is a RootRef of a thread or a slot.
LEMMA CellKinds ==
  ASSUME NEW c \in Cell
  PROVE  (\E t \in Thread : c \in RootPage(t)) \/ \E i \in 0 .. Slots - 1 : c = Slot(i)
<1>1. CASE c \in Root
  <2>1. PICK t \in Thread, k \in 1 .. Roots : c = <<t, k>>
    BY <1>1, SMT DEF Root
  <2>2. <<t, k>> \in RootPage(t)
    BY SMT DEF RootPage
  <2> QED BY <2>1, <2>2
<1>2. CASE c \in {0} \X (0 .. Slots - 1)
  BY <1>2, SMT DEF Slot
<1> QED BY <1>1, <1>2 DEF Cell

\* The next slot.
LEMMA NextSlot ==
  ASSUME NEW i \in 0 .. Slots - 1
  PROVE  (i + 1) % Slots = (IF i + 1 = Slots THEN 0 ELSE i + 1)
         /\ (i + 1) % Slots \in 0 .. Slots - 1
BY Numbers, SMT

\* A slot that has been taken out makes room.
LEMMA Advanced ==
  ASSUME TypeOK, start # end, start' = (start + 1) % Slots, end' = end
  PROVE  /\ start' \in 0 .. Slots - 1 /\ ~Full'
         /\ \A i \in 0 .. Slots - 1 : InRing(i) /\ i # start => InRing(i)'
<1> USE Numbers, NextSlot DEF TypeOK
<1>1. start' \in 0 .. Slots - 1 /\ start' = (IF start + 1 = Slots THEN 0 ELSE start + 1)
  BY SMT
<1>2. ~Full'
  BY <1>1, SMT DEF Full
<1>3. \A i \in 0 .. Slots - 1 : InRing(i) /\ i # start => InRing(i)'
  BY <1>1, SMT DEF InRing
<1> QED BY <1>1, <1>2, <1>3, SMT

\* A slot that has been filled is in the queue.
LEMMA Filled ==
  ASSUME TypeOK, ~Full, end' = (end + 1) % Slots, start' = start
  PROVE  /\ end' \in 0 .. Slots - 1 /\ start # end'
         /\ \A i \in 0 .. Slots - 1 : InRing(i) \/ i = end => InRing(i)'
<1> USE Numbers, NextSlot DEF TypeOK
<1>1. end' \in 0 .. Slots - 1 /\ end' = (IF end + 1 = Slots THEN 0 ELSE end + 1)
  BY SMT
<1>2. start # end'
  BY <1>1, SMT DEF Full
<1>3. \A i \in 0 .. Slots - 1 : InRing(i) \/ i = end => InRing(i)'
  BY <1>1, <1>2, SMT DEF InRing
<1> QED BY <1>1, <1>2, <1>3, SMT

-----------------------------------------------------------------------------
\* The records.
LEMMA Records ==
  /\ NoOp \in Op /\ NoLog \in Log /\ NoInfo \in Info /\ <<1, 1>> \in Cell
  /\ \A p \in Op : /\ \A c \in Cell : [p EXCEPT !.ref = c] \in Op
                   /\ \A o \in Obj : [p EXCEPT !.refed = o] \in Op
                   /\ \A i \in Info : [p EXCEPT !.saw = i] \in Op
                   /\ p.ref \in Cell /\ p.refed \in Obj \cup {None} /\ p.saw \in Info
                   /\ p.func_id \in {"none", "link", "unlink"}
                   /\ p.then \in {"idle", "drop", "sent", "received", "advance"}
  /\ \A i \in Info : i.by \in 0 .. Threads /\ i.cnt \in Nat /\ i.era \in Nat
<1>1. 1 \in Thread /\ 1 \in 1 .. Roots /\ 0 \in 0 .. Threads
  BY Numbers, SMT DEF Thread
<1>2. <<1, 1>> \in Cell
  BY <1>1, SMT DEF Cell, Root
<1>3. NoInfo \in Info
  BY <1>1, SMT DEF NoInfo, Info
<1>4. NoOp \in Op /\ NoLog \in Log
  BY <1>2, <1>3, SMT DEF NoOp, Op, NoLog, Log
<1>5. ASSUME NEW p \in Op
      PROVE  /\ p.ref \in Cell /\ p.refed \in Obj \cup {None} /\ p.saw \in Info
             /\ p.func_id \in {"none", "link", "unlink"}
             /\ p.then \in {"idle", "drop", "sent", "received", "advance"}
  BY SMT DEF Op
<1>6. ASSUME NEW p \in Op
      PROVE  /\ \A c \in Cell : [p EXCEPT !.ref = c] \in Op
             /\ \A o \in Obj : [p EXCEPT !.refed = o] \in Op
             /\ \A i \in Info : [p EXCEPT !.saw = i] \in Op
  BY SMT DEF Op
<1>7. \A i \in Info : i.by \in 0 .. Threads /\ i.cnt \in Nat /\ i.era \in Nat
  BY SMT DEF Info
<1> QED BY <1>2, <1>3, <1>4, <1>5, <1>6, <1>7

\* What the collection and the release of a block do to the lists of a page.
LEMMA Lists ==
  ASSUME NEW D, NEW V, NEW list \in [D -> V], "free" \in V, "local" \in V, NEW page \in SUBSET D
  PROVE  /\ Collected(list, page) \in [D -> V]
         /\ \A x \in D : \/ Collected(list, page)[x] = list[x]
                         \/ /\ x \in page /\ list[x] \in {"local", "remote"}
                            /\ Collected(list, page)[x] = "free"
         /\ \A b \in page, p \in V :
              /\ Release(list, b, page, p) \in [D -> V]
              /\ Release(list, b, page, p)[b] = p
              /\ \A x \in D \ {b} : \/ Release(list, b, page, p)[x] = list[x]
                                    \/ /\ x \in page /\ list[x] \in {"free", "local"}
                                       /\ Release(list, b, page, p)[x] = "local"
<1>1. DOMAIN list = D
  BY SMT
<1>2. /\ Collected(list, page) \in [D -> V]
      /\ \A x \in D : \/ Collected(list, page)[x] = list[x]
                      \/ /\ x \in page /\ list[x] \in {"local", "remote"}
                         /\ Collected(list, page)[x] = "free"
  BY <1>1 DEF Collected
<1>3. ASSUME NEW b \in page, NEW p \in V
      PROVE  /\ Release(list, b, page, p) \in [D -> V]
             /\ Release(list, b, page, p)[b] = p
             /\ \A x \in D \ {b} : \/ Release(list, b, page, p)[x] = list[x]
                                   \/ /\ x \in page /\ list[x] \in {"free", "local"}
                                      /\ Release(list, b, page, p)[x] = "local"
  <2>1. CASE p = "local" /\ \A x \in page \ {b} : list[x] \in {"free", "local"}
    BY <2>1, <1>1 DEF Release
  <2>2. CASE ~(p = "local" /\ \A x \in page \ {b} : list[x] \in {"free", "local"})
    BY <2>2, <1>1 DEF Release
  <2> QED BY <2>1, <2>2
<1> QED BY <1>2, <1>3

\* What is known of one thread's locals and of the pages.
LEMMA Locals ==
  ASSUME TypeOK, NEW t \in Thread
  PROVE  /\ op[t] \in Op /\ op[t].ref \in Cell /\ op[t].refed \in Obj \cup {None}
         /\ op[t].saw \in Info /\ op[t].func_id \in {"none", "link", "unlink"}
         /\ op[t].then \in {"idle", "drop", "sent", "received", "advance"}
         /\ era[t] \in [Thread -> Nat] /\ era[t][t] \in Nat /\ log[t] \in Log
         /\ \A c \in Cell : cell[c] \in Obj \cup {None}
         /\ \A o \in Obj : info[o] \in Info /\ info[o].by \in 0 .. Threads /\ info[o].cnt \in Nat
                           /\ info[o].era \in Nat /\ Home[o] \in Thread
<1>1. op[t] \in Op /\ era[t] \in [Thread -> Nat] /\ log[t] \in Log
  BY DEF TypeOK
<1>2. \A c \in Cell : cell[c] \in Obj \cup {None}
  BY DEF TypeOK
<1>3. \A o \in Obj : info[o] \in Info /\ Home[o] \in Thread
  BY Numbers DEF TypeOK
<1>4. era[t][t] \in Nat
  BY <1>1
<1> QED BY <1>1, <1>2, <1>3, <1>4, Records

\* The pages of a thread are pages.
LEMMA PageSets ==
  ASSUME NEW t \in Thread
  PROVE  RootPage(t) \in SUBSET Root /\ ObjPage(t) \in SUBSET Obj
         /\ \A o \in Obj : o \in ObjPage(Home[o])
BY Pages DEF ObjPage

\* The lists of the RootRefs ...
LEMMA RootLists ==
  ASSUME TypeOK, NEW t \in Thread
  PROVE  /\ Collected(root, RootPage(t)) \in [Root -> {"free", "used", "local"}]
         /\ \A r \in Root : \/ Collected(root, RootPage(t))[r] = root[r]
                            \/ /\ r \in RootPage(t) /\ root[r] = "local"
                               /\ Collected(root, RootPage(t))[r] = "free"
         /\ \A b \in RootPage(t) :
              /\ Release(root, b, RootPage(t), "local") \in [Root -> {"free", "used", "local"}]
              /\ Release(root, b, RootPage(t), "local")[b] = "local"
              /\ \A r \in Root \ {b} :
                   \/ Release(root, b, RootPage(t), "local")[r] = root[r]
                   \/ /\ r \in RootPage(t) /\ root[r] \in {"free", "local"}
                      /\ Release(root, b, RootPage(t), "local")[r] = "local"
<1> DEFINE V == {"free", "used", "local"}
<1>1. root \in [Root -> V] /\ "free" \in V /\ "local" \in V
  BY DEF TypeOK
<1>2. RootPage(t) \in SUBSET Root
  BY PageSets
<1>3. \A r \in Root : root[r] # "remote"
  BY <1>1, SMT
<1> HIDE DEF V
<1>4. /\ Collected(root, RootPage(t)) \in [Root -> V]
      /\ \A r \in Root : \/ Collected(root, RootPage(t))[r] = root[r]
                         \/ /\ r \in RootPage(t) /\ root[r] \in {"local", "remote"}
                            /\ Collected(root, RootPage(t))[r] = "free"
  BY <1>1, <1>2, Lists, SMTT(30)
<1>5. ASSUME NEW b \in RootPage(t)
      PROVE  /\ Release(root, b, RootPage(t), "local") \in [Root -> V]
             /\ Release(root, b, RootPage(t), "local")[b] = "local"
             /\ \A r \in Root \ {b} :
                  \/ Release(root, b, RootPage(t), "local")[r] = root[r]
                  \/ /\ r \in RootPage(t) /\ root[r] \in {"free", "local"}
                     /\ Release(root, b, RootPage(t), "local")[r] = "local"
  BY <1>1, <1>2, Lists, SMTT(30)
<1> QED BY <1>3, <1>4, <1>5 DEF V

\* ... and of the blocks.
LEMMA BlockLists ==
  ASSUME TypeOK, NEW t \in Thread
  PROVE  /\ Collected(blk, ObjPage(t)) \in [Obj -> {"free", "taken", "local", "remote"}]
         /\ \A o \in Obj : \/ Collected(blk, ObjPage(t))[o] = blk[o]
                           \/ /\ blk[o] \in {"local", "remote"}
                              /\ Collected(blk, ObjPage(t))[o] = "free"
         /\ \A b \in ObjPage(t), p \in {"local", "remote"} :
              /\ Release(blk, b, ObjPage(t), p) \in [Obj -> {"free", "taken", "local", "remote"}]
              /\ \A o \in Obj \ {b} : \/ Release(blk, b, ObjPage(t), p)[o] = blk[o]
                                      \/ /\ blk[o] \in {"free", "local"}
                                         /\ Release(blk, b, ObjPage(t), p)[o] = "local"
<1> DEFINE V == {"free", "taken", "local", "remote"}
<1>1. blk \in [Obj -> V] /\ "free" \in V /\ "local" \in V /\ "remote" \in V
  BY DEF TypeOK
<1>2. ObjPage(t) \in SUBSET Obj
  BY PageSets
<1> HIDE DEF V
<1>4. /\ Collected(blk, ObjPage(t)) \in [Obj -> V]
      /\ \A o \in Obj : \/ Collected(blk, ObjPage(t))[o] = blk[o]
                        \/ /\ o \in ObjPage(t) /\ blk[o] \in {"local", "remote"}
                           /\ Collected(blk, ObjPage(t))[o] = "free"
  BY <1>1, <1>2, Lists, SMTT(30)
<1>5. ASSUME NEW b \in ObjPage(t), NEW p \in V
      PROVE  /\ Release(blk, b, ObjPage(t), p) \in [Obj -> V]
             /\ \A o \in Obj \ {b} :
                  \/ Release(blk, b, ObjPage(t), p)[o] = blk[o]
                  \/ /\ o \in ObjPage(t) /\ blk[o] \in {"free", "local"}
                     /\ Release(blk, b, ObjPage(t), p)[o] = "local"
  BY <1>1, <1>2, Lists, SMTT(30)
<1>6. \A p \in {"local", "remote"} : p \in V
  BY <1>1
<1>7. ASSUME NEW b \in ObjPage(t), NEW p \in {"local", "remote"}
      PROVE  /\ Release(blk, b, ObjPage(t), p) \in [Obj -> V]
             /\ \A o \in Obj \ {b} :
                  \/ Release(blk, b, ObjPage(t), p)[o] = blk[o]
                  \/ /\ blk[o] \in {"free", "local"}
                     /\ Release(blk, b, ObjPage(t), p)[o] = "local"
  BY <1>5, <1>6
<1> QED BY <1>4, <1>7 DEF V

\* Nothing is counted at first.
LEMMA InitIInv ==
  ASSUME Init, Counting, Cardinality({}) = 0
  PROVE  IInv
<1>1. TypeOK
  <2>1. era \in [Thread -> [Thread -> Nat]]
    BY SMT DEF Init
  <2>2. start \in 0 .. Slots - 1 /\ end \in 0 .. Slots - 1
    BY Numbers, SMT DEF Init
  <2>3. mon \in (0 .. Threads + 1) \X {"wait", "redo", "roots", "slots", "sweep", "done"}
    BY Numbers, SMT DEF Init
  <2>4. todo \in Seq(Cell)
    BY SMT DEF Init
  <2> QED BY <2>1, <2>2, <2>3, <2>4, Records DEF Init, TypeOK
<1>2. mon[1] = 0 /\ mon[2] = "wait"
  BY SMT DEF Init
<1>3. MonInv
  BY <1>2 DEF MonInv
<1>4. \A t \in Thread : /\ era[t][t] = 1 /\ pc[t] = "idle" /\ log[t] = NoLog
                        /\ \A u \in Thread \ {t} : era[u][t] = 0
  BY DEF Init
<1>5. NoInfo.by = 0 /\ NoInfo.cnt = 0 /\ NoLog.func_id = "none"
  BY SMT DEF NoInfo, NoLog
<1>6. ASSUME NEW t \in Thread PROVE era[t][t] >= 1 /\ EraInv(t)
  <2>1. era[t][t] >= 1 /\ 0 <= era[t][t] /\ 0 # era[t][t]
    BY <1>4, SMT
  <2>2. \A o \in Obj : info[o].by # t
    BY <1>5, ThreadNat DEF Init
  <2>3. \A u \in Thread \ {t} : Fresh(t, era[u][t])
    BY <1>4, <2>1 DEF Fresh
  <2> QED BY <1>4, <1>5, <2>1, <2>2, <2>3 DEF EraInv
<1>7. ASSUME NEW t \in Thread PROVE ThreadInv(t) /\ RootInv(t)
  <2>1. ThreadInv(t)
    BY <1>4 DEF ThreadInv
  <2>2. \A r \in RootPage(t) : root[r] = "local" /\ cell[r] = None
    BY Pages DEF Init
  <2> QED BY <2>1, <2>2 DEF RootInv
<1>8. SlotInv
  BY SlotCells DEF Init, SlotInv
<1>9. BlockInv
  BY DEF Init, BlockInv
<1>10. CountInv
  <2>1. ASSUME NEW o \in Obj PROVE Held(o) = {}
    BY <1>4, Numbers DEF Held, Has, Late, Init
  <2>2. ASSUME NEW o \in Obj PROVE info[o].cnt = 0
    BY <1>5 DEF Init
  <2> QED BY <2>1, <2>2 DEF CountInv
<1>11. RefInv
  BY <1>7, <1>8, <1>9, <1>10 DEF RefInv
<1> QED BY <1>1, <1>3, <1>6, <1>11 DEF IInv

\* Every step of a thread keeps the types.
LEMMA TypeStep ==
  ASSUME TypeOK, NEW t \in Thread, ThreadInv(t), Step(t), era[t][t] >= 1,
         pc[t] = "cas" => info[op[t].refed].cnt # 0
  PROVE  TypeOK'
<1> USE DEF memory, redo, queue, local, monitor, Goto, At, Call, Begin, Unwrapping
<1>0. op[t].ref \in Cell /\ op[t].saw \in Info /\ NoOp \in Op /\ NoInfo \in Info /\ op[t] \in Op
      /\ \A c \in Cell : cell[c] \in Obj \cup {None}
  BY Locals, Records
<1>1. ASSUME NEW r \in RootPage(t), AllocRoot(t, r)
      PROVE  /\ root' \in [Root -> {"free", "used", "local"}]
             /\ cell' \in [Cell -> Obj \cup {None}] /\ log' \in [Thread -> Log] /\ r \in Cell
  <2>1. root \in [Root -> {"free", "used", "local"}] /\ cell \in [Cell -> Obj \cup {None}]
        /\ log \in [Thread -> Log]
    BY DEF TypeOK
  <2>2. Collected(root, RootPage(t)) \in [Root -> {"free", "used", "local"}]
    BY RootLists
  <2>3. r \in Root /\ r \in Cell
    BY Pages
  <2> QED BY <2>1, <2>2, <2>3, <1>1, Records DEF AllocRoot, Erased
<1>2. ASSUME NEW f \in {"link", "unlink"}, NEW c \in Cell, NEW o \in Obj \cup {None},
             NEW th \in {"drop", "sent", "received", "advance"}
      PROVE  [func_id |-> f, ref |-> c, refed |-> o, saw |-> NoInfo, then |-> th] \in Op
  BY <1>0, SMT DEF Op
<1>3. ASSUME NEW r \in RootPage(t), Malloc(t, r) PROVE TypeOK'
  <2>1. [op[t] EXCEPT !.ref = r] \in Op
    BY <1>0, Pages, Records
  <2> QED BY <1>1, <1>3, <2>1 DEF Malloc, TypeOK
<1>4. ASSUME NEW r \in RootPage(t), Drop(t, r) PROVE TypeOK'
  <2>1. r \in Cell
    BY Pages
  <2>2. op' \in [Thread -> Op]
    BY <1>0, <1>2, <1>4, <2>1 DEF Drop, TypeOK
  <2> QED BY <1>4, <2>2 DEF Drop, TypeOK
<1>5. ASSUME NEW r \in RootPage(t), Send(t, r) PROVE TypeOK'
  <2>1. r \in Cell /\ Slot(end) \in Cell
    BY Pages, SlotCells DEF TypeOK
  <2>2. op' \in [Thread -> Op]
    BY <1>0, <1>2, <1>5, <2>1 DEF Send, TypeOK
  <2> QED BY <1>5, <2>2 DEF Send, TypeOK
<1>6. ASSUME NEW r \in RootPage(t), Unwrap(t, r) PROVE TypeOK'
  <2>1. r \in Cell /\ Slot(start) \in Cell
    BY Pages, SlotCells DEF TypeOK
  <2>2. op' \in [Thread -> Op]
    BY <1>0, <1>2, <1>6, <2>1 DEF Unwrap, TypeOK
  <2> QED BY <1>1, <1>6, <2>2 DEF Unwrap, TypeOK
<1>7. ASSUME NEW o \in Obj, LinkBlock(t, o) PROVE TypeOK'
  <2>1. blk \in [Obj -> {"free", "taken", "local", "remote"}]
    BY DEF TypeOK
  <2>2. Collected(blk, ObjPage(t)) \in [Obj -> {"free", "taken", "local", "remote"}]
    BY BlockLists
  <2>3. op' \in [Thread -> Op] /\ cell' \in [Cell -> Obj \cup {None}]
    BY <1>0, <1>7, Records DEF LinkBlock, TypeOK
  <2> QED BY <1>7, <2>2, <2>3, Records DEF LinkBlock, TypeOK, Erased
<1>8. ASSUME TakeBlock(t) \/ BumpEra(t) PROVE TypeOK'
  <2>1. [era[t] EXCEPT ![t] = era[t][t] + 1] \in [Thread -> Nat]
    BY Locals, SMT
  <2>2. era' \in [Thread -> [Thread -> Nat]]
    <3>1. era' = [era EXCEPT ![t] = [era[t] EXCEPT ![t] = era[t][t] + 1]]
      BY <1>8 DEF TakeBlock, BumpEra
    <3> QED BY <2>1, <3>1 DEF TypeOK
  <2>3. CASE TakeBlock(t)
    BY <2>2, <2>3 DEF TakeBlock, TypeOK
  <2>4. CASE BumpEra(t)
    <3>1. op[t].then \in {"idle", "drop", "sent", "received", "advance"}
      BY Locals
    <3> QED BY <2>2, <2>4, <3>1 DEF BumpEra, TypeOK
  <2> QED BY <1>8, <2>3, <2>4
<1>9. ASSUME SetInfo(t) PROVE TypeOK'
  <2>1. [by |-> t, cnt |-> 1, era |-> era[t][t] - 1] \in Info
    BY Locals, ThreadNat, SMT DEF Info
  <2> QED BY <1>0, <1>9, <2>1 DEF SetInfo, TypeOK
<1>10. ASSUME WriteLog(t) PROVE TypeOK'
  <2>1. op[t].refed \in Obj /\ op[t].func_id \in {"link", "unlink"}
    BY <1>10 DEF WriteLog, ThreadInv, LinkInv, UnlinkInv
  <2>2. /\ info[op[t].refed] \in Info /\ info[op[t].refed].cnt \in Nat
        /\ info[op[t].refed].era \in Nat /\ era[t] \in [Thread -> Nat] /\ era[t][t] \in Nat
    BY <2>1, Locals
  <2>3. op' \in [Thread -> Op]
    BY <1>0, <1>10, <2>2, Records DEF WriteLog, TypeOK
  <2>4. era' \in [Thread -> [Thread -> Nat]]
    <3>1. \A u \in Thread : [era[t] EXCEPT ![u] = Newer(@, info[op[t].refed].era)] \in [Thread -> Nat]
      BY <2>2 DEF Newer
    <3> QED BY <1>10, <3>1 DEF WriteLog, TypeOK
  <2>5. [func_id |-> op[t].func_id, cnt |-> info[op[t].refed].cnt, era |-> era[t][t],
         ref |-> op[t].ref, refed |-> op[t].refed] \in Log
    BY <1>0, <2>1, <2>2, SMT DEF Log
  <2>6. log' \in [Thread -> Log]
    BY <1>10, <2>5 DEF WriteLog, TypeOK
  <2> QED BY <1>10, <2>3, <2>4, <2>6 DEF WriteLog, TypeOK
<1>11. ASSUME Exchange(t), info[op[t].refed].cnt # 0 PROVE TypeOK'
  <2>1. op[t].refed \in Obj
    BY <1>11 DEF Exchange, ThreadInv, LinkInv, UnlinkInv
  <2>2. info[op[t].refed].cnt \in Nat /\ era[t][t] \in Nat
    BY <2>1, Locals
  <2>3. \A s \in {1, -1} :
           [by |-> t, cnt |-> info[op[t].refed].cnt + s, era |-> era[t][t]] \in Info
    BY <1>11, <2>2, ThreadNat, SMT DEF Info
  <2>4. info' \in [Obj -> Info]
    <3>1. info \in [Obj -> Info]
      BY DEF TypeOK
    <3>2. info' = info \/ \E s \in {1, -1} : info' = [info EXCEPT ![op[t].refed] =
              [by |-> t, cnt |-> info[op[t].refed].cnt + s, era |-> era[t][t]]]
      BY <1>11 DEF Exchange
    <3> QED BY <2>1, <2>3, <3>1, <3>2
  <2> QED BY <1>11, <2>4 DEF Exchange, TypeOK
<1>12. ASSUME SetRef(t) PROVE TypeOK'
  <2>1. op[t].refed \in Obj
    BY <1>12 DEF SetRef, ThreadInv, LinkInv, UnlinkInv
  <2> QED BY <1>0, <1>12, <2>1 DEF SetRef, TypeOK
<1>13. ASSUME FreeObj(t) PROVE TypeOK'
  <2>1. op[t].refed \in Obj
    BY <1>13 DEF FreeObj, ThreadInv, UnlinkInv
  <2>2. op[t].then \in {"idle", "drop", "sent", "received", "advance"} /\ Home[op[t].refed] \in Thread
    BY <2>1, Locals
  <2>3. blk \in [Obj -> {"free", "taken", "local", "remote"}]
    BY DEF TypeOK
  <2>4. blk' \in [Obj -> {"free", "taken", "local", "remote"}]
    <3>1. \A b \in ObjPage(Home[op[t].refed]), p \in {"local", "remote"} :
             Release(blk, b, ObjPage(Home[op[t].refed]), p) \in [Obj -> {"free", "taken", "local", "remote"}]
      BY <2>2, BlockLists
    <3> QED BY <1>13, <2>1, <3>1, PageSets DEF FreeObj
  <2> QED BY <1>0, <1>13, <2>2, <2>4 DEF FreeObj, TypeOK
<1>14. ASSUME FreeRoot(t) PROVE TypeOK'
  <2>1. op[t].ref \in RootPage(t)
    BY <1>14 DEF FreeRoot, ThreadInv, Own
  <2>2. root \in [Root -> {"free", "used", "local"}]
    BY DEF TypeOK
  <2>3. root' \in [Root -> {"free", "used", "local"}]
    BY <1>14, <2>1, RootLists DEF FreeRoot
  <2> QED BY <1>0, <1>14, <2>3 DEF FreeRoot, TypeOK
<1>15. ASSUME CreateQueue(t) \/ ListQueue(t) \/ Register(t) \/ SetReceiver(t) \/ UnwrapEmpty(t)
       PROVE  TypeOK'
  <2>1. CASE CreateQueue(t)
    <3>1. log' \in [Thread -> Log]
      BY <2>1, Records DEF CreateQueue, TypeOK
    <3> QED BY <2>1, <3>1 DEF CreateQueue, TypeOK
  <2>2. CASE ListQueue(t)
    <3>1. t = Sender
      BY <2>2 DEF ListQueue, ThreadInv
    <3> QED BY <2>2, <3>1 DEF ListQueue, TypeOK
  <2>3. CASE Register(t)
    BY <2>3 DEF Register, TypeOK
  <2>4. CASE SetReceiver(t)
    <3>1. t = Receiver
      BY <2>4 DEF SetReceiver, ThreadInv
    <3> QED BY <2>4, <3>1 DEF SetReceiver, TypeOK
  <2>5. CASE UnwrapEmpty(t)
    BY <2>5 DEF UnwrapEmpty, TypeOK
  <2> QED BY <1>15, <2>1, <2>2, <2>3, <2>4, <2>5
<1>16. ASSUME Received(t) PROVE TypeOK'
  <2>1. Slot(start) \in Cell
    BY SlotCells DEF TypeOK
  <2>2. op' \in [Thread -> Op]
    BY <1>0, <1>2, <1>16, <2>1 DEF Received, TypeOK
  <2> QED BY <1>16, <2>2 DEF Received, TypeOK
<1>17. ASSUME Sent(t) PROVE TypeOK'
  <2>1. end' \in 0 .. Slots - 1
    BY <1>17, NextSlot DEF Sent, TypeOK
  <2> QED BY <1>0, <1>17, <2>1 DEF Sent, TypeOK
<1>18. ASSUME Advance(t) PROVE TypeOK'
  <2>1. start' \in 0 .. Slots - 1
    BY <1>18, NextSlot DEF Advance, TypeOK
  <2> QED BY <1>0, <1>18, <2>1 DEF Advance, TypeOK
<1> QED
  <2>1. ASSUME Exchange(t) PROVE TypeOK'
    BY <1>11, <2>1 DEF Exchange
  <2> QED BY <1>3, <1>4, <1>5, <1>6, <1>7, <1>8, <1>9, <1>10, <1>12, <1>13, <1>14, <1>15, <1>16,
             <1>17, <1>18, <2>1 DEF Step

-----------------------------------------------------------------------------
\* A thread at work on a cell has it to itself.
Placed(t) == Own(t) \/ AtEnd(t) \/ AtStart(t)

\* The reference that a busy thread works on is one of the three.
LEMMA Place ==
  ASSUME NEW t \in Thread, ThreadInv(t), pc[t] \in Busy
  PROVE  Placed(t)
<1>1. CASE pc[t] \in {"block", "drop", "take", "info"}
  BY <1>1 DEF ThreadInv, BirthInv, Placed
<1>2. CASE pc[t] \in {"log", "cas", "set", "bump", "free"}
  <2>1. CASE op[t].func_id = "link"
    <3>1. LinkInv(t)
      BY <1>2, <2>1 DEF ThreadInv
    <3> QED BY <3>1 DEF LinkInv, Placed
  <2>2. CASE op[t].func_id = "unlink"
    <3>1. UnlinkInv(t)
      BY <1>2, <2>2 DEF ThreadInv
    <3> QED BY <3>1 DEF UnlinkInv, Placed
  <2> QED BY <1>2, <2>1, <2>2 DEF ThreadInv
<1> QED BY <1>1, <1>2 DEF Busy

\* No two threads work on the same reference.
LEMMA Alone ==
  ASSUME NEW t \in Thread, NEW u \in Thread, u # t, Placed(t), Placed(u)
  PROVE  op[t].ref # op[u].ref
<1>1. CASE Own(t) /\ Own(u)
  BY <1>1, Pages DEF Own
<1>2. CASE Own(t) /\ ~Own(u)
  BY <1>2, Pages DEF Own, Placed, AtEnd, AtStart
<1>3. CASE ~Own(t) /\ Own(u)
  BY <1>3, Pages DEF Own, Placed, AtEnd, AtStart
<1>4. CASE ~Own(t) /\ ~Own(u)
  BY <1>4, SlotCells DEF Placed, AtEnd, AtStart
<1> QED BY <1>1, <1>2, <1>3, <1>4

\* The cells that refer to an object, the threads at work on one of them that does
\* not count, and the cells that threads are at work on.
Referring(o) == {c \in Cell : cell[c] = o}

Excess(o) == Unborn(o) \cup Ahead(o, "unlink")

RefsOf(S) == {op[t].ref : t \in S}

\* The cells that are counted: those that refer to the object, but for the stores
\* that are still to come.
LEMMA HeldCells ==
  ASSUME TypeOK, RefInv, NEW o \in Obj
  PROVE  /\ RefsOf(Excess(o)) \subseteq Referring(o)
         /\ RefsOf(Ahead(o, "link")) \cap Referring(o) = {}
         /\ Held(o) = (Referring(o) \ RefsOf(Excess(o))) \cup RefsOf(Ahead(o, "link"))
         /\ \A t \in Excess(o) \cup Ahead(o, "link") : Placed(t)
<1> DEFINE C == Referring(o)
           E == Excess(o)
           RE == RefsOf(E)
           RL == RefsOf(Ahead(o, "link"))
<1> USE DEF Referring, Excess, RefsOf
<1>1. ASSUME NEW t \in E
      PROVE  Early(t) /\ Placed(t) /\ cell[op[t].ref] = o /\ op[t].ref \in Cell
  <2>1. ThreadInv(t) /\ t \in Thread /\ op[t].ref \in Cell
    BY Locals DEF RefInv, Unborn, Ahead
  <2>2. CASE t \in Unborn(o)
    <3>1. BirthInv(t) /\ Early(t) /\ pc[t] \in Busy
      BY <2>1, <2>2 DEF Unborn, ThreadInv, Early, Busy
    <3> QED BY <2>1, <2>2, <3>1, Place DEF Unborn, BirthInv
  <2>3. CASE t \in Ahead(o, "unlink")
    <3>1. UnlinkInv(t) /\ Early(t) /\ pc[t] \in Busy /\ pc[t] = "set"
      BY <2>1, <2>3 DEF Ahead, ThreadInv, Early, Busy
    <3> QED BY <2>1, <2>3, <3>1, Place DEF Ahead, UnlinkInv
  <2> QED BY <2>2, <2>3
<1>2. ASSUME NEW t \in Ahead(o, "link")
      PROVE  Late(t) /\ Placed(t) /\ cell[op[t].ref] = None /\ op[t].ref \in Cell
  <2>1. ThreadInv(t) /\ t \in Thread /\ op[t].ref \in Cell
    BY Locals DEF RefInv, Ahead
  <2>2. LinkInv(t) /\ pc[t] \in Busy /\ pc[t] = "set" /\ Late(t)
    BY <2>1 DEF Ahead, ThreadInv, Late, Busy
  <2> QED BY <2>1, <2>2, Place DEF LinkInv
<1>3. ASSUME NEW t \in Thread, Early(t), cell[op[t].ref] = o PROVE t \in E
  <2>1. ThreadInv(t)
    BY DEF RefInv
  <2>2. CASE pc[t] \in {"take", "info"}
    BY <1>3, <2>1, <2>2 DEF ThreadInv, BirthInv, Unborn
  <2>3. CASE pc[t] = "set" /\ op[t].func_id = "unlink"
    BY <1>3, <2>1, <2>3 DEF ThreadInv, UnlinkInv, Ahead
  <2> QED BY <1>3, <2>2, <2>3 DEF Early
<1>4. RE \subseteq C /\ RL \cap C = {}
  <2>1. \A c \in RE : c \in C
    BY <1>1
  <2>2. \A c \in RL : c \notin C
    <3>1. o # None
      BY Numbers
    <3> QED BY <1>2, <3>1
  <2> HIDE DEF C, RE, RL
  <2> QED BY <2>1, <2>2
<1>5. Held(o) = (C \ RE) \cup RL
  <2>1. ASSUME NEW c \in Held(o) PROVE c \in (C \ RE) \cup RL
    <3>1. CASE cell[c] = o /\ \A t \in Thread : op[t].ref = c => ~Early(t)
      <4>1. c \in C /\ c \notin RE
        BY <1>1, <3>1 DEF Held, Unborn, Ahead
      <4> QED BY <4>1
    <3>2. CASE \E t \in Thread : Late(t) /\ op[t].ref = c /\ op[t].refed = o
      <4>1. PICK t \in Thread : Late(t) /\ op[t].ref = c /\ op[t].refed = o
        BY <3>2
      <4>2. t \in Ahead(o, "link")
        BY <4>1 DEF Late, Ahead
      <4> QED BY <4>1, <4>2
    <3> QED BY <3>1, <3>2 DEF Held, Has
  <2>2. ASSUME NEW c \in C \ RE PROVE c \in Held(o)
    BY <1>3 DEF Held, Has
  <2>3. ASSUME NEW c \in RL PROVE c \in Held(o)
    <3>1. PICK t \in Ahead(o, "link") : c = op[t].ref
      OBVIOUS
    <3>2. t \in Thread /\ op[t].refed = o /\ Late(t) /\ c \in Cell
      BY <1>2, <3>1 DEF Ahead
    <3> QED BY <3>1, <3>2 DEF Held, Has
  <2> QED BY <2>1, <2>2, <2>3
<1> HIDE DEF Referring, Excess, RefsOf
<1> QED BY <1>1, <1>2, <1>4, <1>5

\* A reference that no thread is about to count or to remove is counted.
LEMMA Counted ==
  ASSUME NEW o \in Obj, CountInv, Counting, NEW c \in Cell, cell[c] = o,
         \A u \in Thread : op[u].ref = c => ~Early(u)
  PROVE  info[o].cnt # 0
<1>1. c \in Held(o)
  BY DEF Held, Has
<1>2. Cardinality(Held(o)) # 0
  BY <1>1 DEF Counting, Held
<1> QED BY <1>2 DEF CountInv

\* An object whose count is about to change is counted.
LEMMA Alive ==
  ASSUME TypeOK, RefInv, NEW t \in Thread, pc[t] = "cas"
  PROVE  op[t].refed \in Obj /\ info[op[t].refed].cnt # 0
<1>0. ThreadInv(t) /\ CountInv /\ Counting /\ op[t].ref \in Cell /\ ~Early(t) /\ pc[t] \in Busy
  BY Locals DEF RefInv, Early, Busy
<1>1. ASSUME NEW u \in Thread, Early(u) PROVE Placed(u)
  BY <1>1, Place DEF Early, Busy, RefInv
<1>2. CASE op[t].func_id = "unlink"
  <2>1. op[t].refed \in Obj /\ cell[op[t].ref] = op[t].refed
    BY <1>0, <1>2 DEF ThreadInv, UnlinkInv
  <2>2. \A u \in Thread : op[u].ref = op[t].ref => ~Early(u)
    BY <1>0, <1>1, Place, Alone
  <2> QED BY <1>0, <2>1, <2>2, Counted
<1>3. CASE op[t].func_id = "link"
  <2>1. LinkInv(t)
    BY <1>0, <1>3 DEF ThreadInv
  <2>2. CASE op[t].then = "received"
    <3>1. t = Receiver /\ start # end /\ cell[Slot(start)] = op[t].refed /\ op[t].refed \in Obj
      BY <2>1, <2>2 DEF LinkInv
    <3>2. Slot(start) \in Cell
      BY SlotCells DEF TypeOK
    <3>3. ASSUME NEW u \in Thread, op[u].ref = Slot(start) PROVE ~Early(u)
      <4>1. ~Own(u) /\ ~AtEnd(u)
        <5>1. Slot(start) # Slot(end)
          BY <3>1, SlotCells
        <5>2. Slot(start) \notin RootPage(u)
          BY Pages
        <5> QED BY <3>3, <5>1, <5>2 DEF Own, AtEnd
      <4> QED BY <1>0, <1>1, <3>1, <4>1 DEF Placed, AtStart
    <3> QED BY <1>0, <3>1, <3>2, <3>3, Counted
  <2>3. CASE op[t].then # "received"
    <3>1. PICK r \in RootPage(t) : cell[r] = op[t].refed /\ op[t].refed \in Obj
      BY <2>1, <2>3 DEF LinkInv
    <3>2. r \in Cell
      BY Pages
    <3>3. ASSUME NEW u \in Thread, op[u].ref = r PROVE ~Early(u)
      <4>1. ~AtEnd(u) /\ ~AtStart(u)
        BY <3>1, <3>3, Pages DEF AtEnd, AtStart
      <4>2. Own(u) => u = t
        BY <3>3, Pages DEF Own
      <4> QED BY <1>0, <1>1, <4>1, <4>2 DEF Placed
    <3> QED BY <1>0, <3>1, <3>2, <3>3, Counted
  <2> QED BY <2>2, <2>3
<1> QED BY <1>0, <1>2, <1>3 DEF ThreadInv

-----------------------------------------------------------------------------
\* What a step of t leaves alone: the locals and the RootRefs of the others, all
\* slots but the one at its own end of the queue, and the objects that are not
\* counted and not its own.
Frame(t) ==
    /\ \A u \in Thread \ {t} : pc'[u] = pc[u] /\ op'[u] = op[u]
    /\ \A c \in Cell : \/ cell'[c] = cell[c] \/ c \in RootPage(t)
                       \/ AtEnd(t) /\ c = Slot(end)
                       \/ AtStart(t) /\ c = Slot(start)
    /\ \A r \in Root : root'[r] = root[r] \/ r \in RootPage(t)
    /\ \A o \in Obj : \/ info'[o] = info[o] \/ info[o].cnt # 0 \/ info[o].by = t
                      \/ info[o] = NoInfo /\ Home[o] = t
    /\ \A o \in Obj : blk[o] = "taken" => blk'[o] = "taken" \/ info[o].by = t
    /\ \/ start' = start /\ end' = end
       \/ AtEnd(t) /\ end' = (end + 1) % Slots /\ start' = start
       \/ AtStart(t) /\ start' = (start + 1) % Slots /\ end' = end

\* What another thread u finds as it was.
Kept(u) ==
    /\ pc'[u] = pc[u] /\ op'[u] = op[u]
    /\ \A r \in RootPage(u) : cell'[r] = cell[r] /\ root'[r] = root[r]
    /\ u = Sender /\ ~Full => end' = end /\ cell'[Slot(end)] = cell[Slot(end)] /\ ~Full'
    /\ u = Receiver /\ start # end =>
        start' = start /\ cell'[Slot(start)] = cell[Slot(start)] /\ start' # end'
    /\ \A o \in Obj : \/ info'[o] = info[o]
                      \/ info[o] # NoInfo /\ ~(info[o].cnt = 0 /\ info[o].by = u)
                      \/ info[o] = NoInfo /\ Home[o] # u
    /\ \A o \in Obj : info[o] = NoInfo /\ blk[o] = "taken" => blk'[o] = "taken"

\* What is known of a thread survives a step that leaves all it depends on.
LEMMA KeptInv ==
  ASSUME TypeOK, NEW u \in Thread, Kept(u), ThreadInv(u), RootInv(u)
  PROVE  ThreadInv(u)' /\ RootInv(u)'
<1>0. pc'[u] = pc[u] /\ op'[u] = op[u]
  BY DEF Kept
<1>1. Own(u) => Own(u)' /\ cell'[op[u].ref] = cell[op[u].ref]
  BY <1>0 DEF Kept, Own
<1>2. AtEnd(u) => AtEnd(u)' /\ cell'[op[u].ref] = cell[op[u].ref]
  BY <1>0 DEF Kept, AtEnd
<1>3. AtStart(u) => AtStart(u)' /\ cell'[op[u].ref] = cell[op[u].ref]
  BY <1>0 DEF Kept, AtStart
<1>4. ASSUME BirthInv(u) PROVE BirthInv(u)'
  <2>1. info'[op[u].refed] = NoInfo /\ (blk[op[u].refed] = "taken" => blk'[op[u].refed] = "taken")
    BY <1>4 DEF BirthInv, Kept
  <2> QED BY <1>0, <1>1, <1>4, <2>1 DEF BirthInv
<1>5. ASSUME LinkInv(u) PROVE LinkInv(u)'
  <2>1. CASE op[u].then = "received" /\ Own(u)
             /\ u = Receiver /\ start # end /\ cell[Slot(start)] = op[u].refed
    <3>1. start' # end' /\ cell'[Slot(start')] = op[u].refed
      BY <2>1 DEF Kept
    <3>2. cell'[op[u].ref] = cell[op[u].ref] /\ Own(u)'
      BY <1>1, <2>1
    <3>3. op[u].refed \in Obj /\ cell[op[u].ref] = IF pc[u] = "bump" THEN op[u].refed ELSE None
      BY <1>5 DEF LinkInv
    <3>4. (Slot(start))' = Slot(start')
      BY DEF Slot
    <3> QED BY <1>0, <2>1, <3>1, <3>2, <3>3, <3>4 DEF LinkInv
  <2>2. CASE op[u].then = "sent" /\ AtEnd(u)
             /\ \E r \in RootPage(u) : root[r] = "used" /\ cell[r] = op[u].refed
    <3>1. \E r \in RootPage(u) : root'[r] = "used" /\ cell'[r] = op[u].refed
      BY <2>2 DEF Kept
    <3>2. cell'[op[u].ref] = cell[op[u].ref] /\ AtEnd(u)'
      BY <1>2, <2>2
    <3>3. op[u].refed \in Obj /\ cell[op[u].ref] = IF pc[u] = "bump" THEN op[u].refed ELSE None
      BY <1>5 DEF LinkInv
    <3> QED BY <1>0, <2>2, <3>1, <3>2, <3>3 DEF LinkInv
  <2> QED BY <1>5, <2>1, <2>2 DEF LinkInv
<1>6. ASSUME UnlinkInv(u) PROVE UnlinkInv(u)'
  <2>1. u # NoInfo.by
    BY ThreadNat, SMT DEF NoInfo
  <2>2. info[op[u].refed].cnt = 0 /\ info[op[u].refed].by = u => info'[op[u].refed] = info[op[u].refed]
    BY <1>6, <2>1 DEF UnlinkInv, Kept
  <2>3. cell'[op[u].ref] = cell[op[u].ref]
    BY <1>1, <1>3, <1>6 DEF UnlinkInv
  <2> QED BY <1>0, <1>1, <1>3, <1>6, <2>2, <2>3 DEF UnlinkInv
<1>7. pc[u] = "received" => start' # end' /\ cell'[Slot(start)'] # None
  BY DEF ThreadInv, Kept, Slot
<1>8. ThreadInv(u)'
  <2>1. pc[u] \in {"block", "drop"} => Own(u)' /\ cell'[op[u].ref] = None
    BY <1>1 DEF ThreadInv
  <2>2. pc[u] \in {"take", "info"} => BirthInv(u)'
    BY <1>4 DEF ThreadInv
  <2>3. pc[u] \in {"log", "cas", "set", "bump"} /\ op[u].func_id = "link" => LinkInv(u)'
    BY <1>5 DEF ThreadInv
  <2>4. pc[u] \in {"log", "cas", "set", "bump", "free"} /\ op[u].func_id = "unlink" => UnlinkInv(u)'
    BY <1>6 DEF ThreadInv
  <2>5. (pc[u] = "sent" => AtEnd(u)') /\ (pc[u] = "advance" => AtStart(u)' /\ cell'[op[u].ref] = None)
    BY <1>2, <1>3 DEF ThreadInv
  <2>6. /\ pc[u] \in {"log", "cas", "set", "bump"} => op[u].func_id \in {"link", "unlink"}
        /\ pc[u] = "free" => op[u].func_id = "unlink"
        /\ pc[u] = "create" => u = Sender
        /\ pc[u] \in {"register", "unwrap", "received"} => u = Receiver
    BY DEF ThreadInv
  <2> QED BY <1>0, <1>7, <2>1, <2>2, <2>3, <2>4, <2>5, <2>6 DEF ThreadInv
<1>9. RootInv(u)'
  BY <1>0 DEF RootInv, Kept
<1> QED BY <1>8, <1>9

-----------------------------------------------------------------------------

\* A RootRef is taken from its page.
LEMMA AllocEffect ==
  ASSUME TypeOK, NEW t \in Thread, RootInv(t), NEW r \in RootPage(t), AllocRoot(t, r)
  PROVE  /\ cell[r] = None /\ \A c \in Cell : cell'[c] = cell[c]
         /\ root'[r] = "used"
         /\ \A x \in Root \ {r} : \/ root'[x] = root[x]
                                  \/ x \in RootPage(t) /\ root[x] = "local" /\ root'[x] = "free"
<1>1. r \in Root /\ r \in Cell
  BY Pages
<1>2. /\ Collected(root, RootPage(t)) \in [Root -> {"free", "used", "local"}]
      /\ \A x \in Root : \/ Collected(root, RootPage(t))[x] = root[x]
                         \/ /\ x \in RootPage(t) /\ root[x] = "local"
                            /\ Collected(root, RootPage(t))[x] = "free"
  BY RootLists
<1>3. root[r] # "used" /\ cell[r] = None
  BY <1>1, <1>2 DEF AllocRoot, RootInv
<1>4. \A c \in Cell : cell'[c] = cell[c]
  BY <1>1, <1>3 DEF AllocRoot, TypeOK
<1>5. root'[r] = "used" /\ \A x \in Root \ {r} : root'[x] = Collected(root, RootPage(t))[x]
  BY <1>1, <1>2 DEF AllocRoot
<1> QED BY <1>2, <1>3, <1>4, <1>5

\* What starting to link or unlink does to the locals.
LEMMA BeginEffect ==
  ASSUME TypeOK, NEW t \in Thread, NEW f, NEW c, NEW o, NEW th, Begin(t, f, c, o, th)
  PROVE  /\ \A u \in Thread \ {t} : pc'[u] = pc[u] /\ op'[u] = op[u]
         /\ op'[t].func_id = f /\ op'[t].ref = c /\ op'[t].refed = o /\ op'[t].then = th
         /\ pc'[t] = "log"
<1> DEFINE new == [func_id |-> f, ref |-> c, refed |-> o, saw |-> NoInfo, then |-> th]
<1>1. op \in [Thread -> Op] /\ DOMAIN pc = Thread
  BY DEF TypeOK
<1>2. new.func_id = f /\ new.ref = c /\ new.refed = o /\ new.then = th
  BY SMT
<1>3. op' = [op EXCEPT ![t] = new] /\ pc' = [pc EXCEPT ![t] = "log"]
  BY DEF Begin, Goto
<1> HIDE DEF new
<1>4. op'[t] = new /\ pc'[t] = "log" /\ \A u \in Thread \ {t} : pc'[u] = pc[u] /\ op'[u] = op[u]
  BY <1>1, <1>3
<1> QED BY <1>2, <1>4

\* Only the thread itself goes on.
LEMMA GotoEffect ==
  ASSUME TypeOK, NEW t \in Thread, NEW s, Goto(t, s)
  PROVE  pc'[t] = s /\ \A u \in Thread \ {t} : pc'[u] = pc[u]
BY DEF TypeOK, Goto

\* Every step of a thread keeps the counts.
LEMMA StepRef ==
  \A t \in Thread : TypeOK /\ RefInv /\ Step(t) => RefInv'
<1>FrameKept.
    ASSUME TypeOK, NEW t \in Thread, NEW u \in Thread \ {t}, Frame(t)
    PROVE  Kept(u)
  <2> USE <1>FrameKept
  <2>1. pc'[u] = pc[u] /\ op'[u] = op[u]
    BY DEF Frame
  <2>2. ASSUME NEW r \in RootPage(u)
        PROVE  cell'[r] = cell[r] /\ root'[r] = root[r]
    <3>1. r \in Cell /\ r \in Root /\ r \notin RootPage(t) /\ \A i : r # Slot(i)
      BY Pages
    <3> QED BY <3>1 DEF Frame
  <2>3. Slot(end) \in Cell /\ Slot(start) \in Cell /\ Slot(start) \notin RootPage(t)
        /\ Slot(end) \notin RootPage(t) /\ (start # end => Slot(start) # Slot(end))
    BY SlotCells, Pages DEF TypeOK
  <2>4. ASSUME u = Sender, ~Full
        PROVE  end' = end /\ cell'[Slot(end)] = cell[Slot(end)] /\ ~Full'
    <3>1. ~AtEnd(t)
      BY <2>4 DEF AtEnd
    <3>2. cell'[Slot(end)] = cell[Slot(end)]
      BY <2>3, <3>1 DEF Frame, AtStart
    <3>3. CASE start' = start /\ end' = end
      BY <2>4, <3>2, <3>3 DEF Full
    <3>4. CASE AtStart(t) /\ start' = (start + 1) % Slots /\ end' = end
      BY <3>2, <3>4, Advanced DEF AtStart
    <3> QED BY <3>1, <3>3, <3>4 DEF Frame
  <2>5. ASSUME u = Receiver, start # end
        PROVE  start' = start /\ cell'[Slot(start)] = cell[Slot(start)] /\ start' # end'
    <3>1. ~AtStart(t)
      BY <2>5 DEF AtStart
    <3>2. cell'[Slot(start)] = cell[Slot(start)]
      BY <2>3, <2>5, <3>1 DEF Frame
    <3>3. CASE start' = start /\ end' = end
      BY <2>5, <3>2, <3>3
    <3>4. CASE AtEnd(t) /\ end' = (end + 1) % Slots /\ start' = start
      BY <3>2, <3>4, Filled DEF AtEnd
    <3> QED BY <3>1, <3>3, <3>4 DEF Frame
  <2>6. NoInfo.cnt = 0 /\ NoInfo.by = 0 /\ t # 0
    BY ThreadNat, SMT DEF NoInfo
  <2>7. ASSUME NEW o \in Obj
        PROVE  /\ \/ info'[o] = info[o]
                  \/ info[o] # NoInfo /\ ~(info[o].cnt = 0 /\ info[o].by = u)
                  \/ info[o] = NoInfo /\ Home[o] # u
               /\ info[o] = NoInfo /\ blk[o] = "taken" => blk'[o] = "taken"
    BY <2>6 DEF Frame
  <2> QED BY <2>1, <2>2, <2>4, <2>5, <2>7 DEF Kept

\* The references that t is not at work on are counted as they were ...
<1>Elsewhere.
    ASSUME NEW t \in Thread, \A u \in Thread \ {t} : pc'[u] = pc[u] /\ op'[u] = op[u],
           NEW c \in Cell, cell'[c] = cell[c],
           op[t].ref # c \/ (~Early(t) /\ ~Late(t)),
           op'[t].ref # c \/ (~Early(t)' /\ ~Late(t)'),
           NEW o \in Obj
    PROVE  Has(c, o)' <=> Has(c, o)
  <2> USE <1>Elsewhere
  <2>1. ASSUME NEW u \in Thread
        PROVE  /\ (op'[u].ref = c => ~Early(u)') <=> (op[u].ref = c => ~Early(u))
               /\ (Late(u)' /\ op'[u].ref = c /\ op'[u].refed = o)
                    <=> (Late(u) /\ op[u].ref = c /\ op[u].refed = o)
    <3>1. CASE u = t
      BY <3>1
    <3>2. CASE u # t
      BY <3>2 DEF Early, Late
    <3> QED BY <3>1, <3>2
  <2> QED BY <2>1 DEF Has

\* ... so all are if t is nowhere between an exchange and its store.
<1>Quiet.
    ASSUME NEW t \in Thread, \A u \in Thread \ {t} : pc'[u] = pc[u] /\ op'[u] = op[u],
           \A c \in Cell : cell'[c] = cell[c],
           ~Early(t), ~Late(t), ~Early(t)', ~Late(t)'
    PROVE  \A o \in Obj : Held(o)' = Held(o)
  <2> USE <1>Quiet
  <2>1. ASSUME NEW c \in Cell, NEW o \in Obj
        PROVE  Has(c, o)' <=> Has(c, o)
    BY <1>Elsewhere
  <2>2. ASSUME NEW o \in Obj, NEW c
        PROVE  c \in Held(o)' <=> c \in Held(o)
    BY <2>1 DEF Held
  <2> QED BY <2>2

\* The reference that t is at work on counts as t's progress says.
<1>Mine.
    ASSUME NEW t \in Thread, Placed(t), \A u \in Thread : ThreadInv(u),
           \A u \in Thread \ {t} : pc'[u] = pc[u] /\ op'[u] = op[u],
           NEW c, c = op[t].ref, NEW o \in Obj
    PROVE  /\ Has(c, o) <=> (cell[c] = o /\ ~Early(t)) \/ (Late(t) /\ op[t].refed = o)
           /\ Has(c, o)' <=> \/ cell'[c] = o /\ (op'[t].ref = c => ~Early(t)')
                             \/ Late(t)' /\ op'[t].ref = c /\ op'[t].refed = o
  <2> USE <1>Mine
  <2>1. ASSUME NEW u \in Thread \ {t}, Early(u) \/ Late(u) PROVE op[u].ref # c
    <3>1. Placed(u)
      BY <2>1, Place DEF Early, Late, Busy
    <3> QED BY <3>1, Alone
  <2>2. ASSUME NEW u \in Thread \ {t}, Early(u)' \/ Late(u)' PROVE op'[u].ref # c
    BY <2>1, <2>2 DEF Early, Late
  <2>3. Has(c, o) <=> (cell[c] = o /\ ~Early(t)) \/ (Late(t) /\ op[t].refed = o)
    BY <2>1 DEF Has
  <2>4. Has(c, o)' <=> \/ cell'[c] = o /\ (op'[t].ref = c => ~Early(t)')
                       \/ Late(t)' /\ op'[t].ref = c /\ op'[t].refed = o
    BY <2>2 DEF Has
  <2> QED BY <2>3, <2>4

\* The number of counted cells when only the one that t is at work on may change.
<1>OneCell.
    ASSUME NEW t \in Thread, \A u \in Thread \ {t} : pc'[u] = pc[u] /\ op'[u] = op[u],
           NEW c \in Cell, c = op[t].ref, \A d \in Cell \ {c} : cell'[d] = cell[d],
           op'[t].ref = c \/ (~Early(t)' /\ ~Late(t)'),
           NEW o \in Obj, Counting
    PROVE  /\ (Has(c, o) <=> Has(c, o)') => Cardinality(Held(o))' = Cardinality(Held(o))
           /\ ~Has(c, o) /\ Has(c, o)' => Cardinality(Held(o))' = Cardinality(Held(o)) + 1
           /\ Has(c, o) /\ ~Has(c, o)' => Cardinality(Held(o))' = Cardinality(Held(o)) - 1
  <2> USE <1>OneCell
  <2>1. ASSUME NEW d \in Cell \ {c}
        PROVE  Has(d, o)' <=> Has(d, o)
    BY <1>Elsewhere
  <2>2. ASSUME NEW d
        PROVE  /\ d \in Held(o) <=> d \in Cell /\ Has(d, o)
               /\ d \in Held(o)' <=> d \in Cell /\ Has(d, o)'
    BY DEF Held
  <2>3. ASSUME Has(c, o) <=> Has(c, o)' PROVE Held(o)' = Held(o)
    <3>1. ASSUME NEW d PROVE d \in Held(o)' <=> d \in Held(o)
      BY <2>1, <2>2, <2>3
    <3> QED BY <3>1
  <2>4. ASSUME ~Has(c, o), Has(c, o)' PROVE Held(o)' = Held(o) \cup {c} /\ c \notin Held(o)
    <3>1. ASSUME NEW d PROVE d \in Held(o)' <=> d \in Held(o) \cup {c}
      BY <2>1, <2>2, <2>4
    <3> QED BY <2>2, <2>4, <3>1
  <2>5. ASSUME Has(c, o), ~Has(c, o)' PROVE Held(o)' = Held(o) \ {c} /\ c \in Held(o)
    <3>1. ASSUME NEW d PROVE d \in Held(o)' <=> d \in Held(o) \ {c}
      BY <2>1, <2>2, <2>5
    <3> QED BY <2>2, <2>5, <3>1
  <2>6. Held(o) \in SUBSET Cell
    BY DEF Held
  <2>7. /\ c \notin Held(o) => Cardinality(Held(o) \cup {c}) = Cardinality(Held(o)) + 1
        /\ c \in Held(o) => Cardinality(Held(o) \ {c}) = Cardinality(Held(o)) - 1
    BY <2>6 DEF Counting
  <2> QED BY <2>3, <2>4, <2>5, <2>7

\* What remains to be shown of a step of t.
<1>Combine.
    ASSUME TypeOK, NEW t \in Thread, RefInv, Frame(t),
           ThreadInv(t)', RootInv(t)', SlotInv', BlockInv', CountInv'
    PROVE  RefInv'
  <2> USE <1>Combine
  <2>1. ASSUME NEW u \in Thread \ {t} PROVE ThreadInv(u)' /\ RootInv(u)'
    <3>1. ThreadInv(u) /\ RootInv(u)
      BY DEF RefInv
    <3> QED BY <3>1, <1>FrameKept, KeptInv
  <2>2. ASSUME NEW u \in Thread PROVE ThreadInv(u)' /\ RootInv(u)'
    BY <2>1
  <2>3. Counting
    BY DEF RefInv
  <2>4. Counting'
    BY <2>3 DEF Counting
  <2> QED BY <2>2, <2>4 DEF RefInv

\* A step that changes neither the slots nor the indices.
<1>SlotsKept.
    ASSUME NEW t \in Thread, SlotInv, \A u \in Thread \ {t} : pc'[u] = pc[u] /\ op'[u] = op[u],
           \A i \in 0 .. Slots - 1 : cell'[Slot(i)] = cell[Slot(i)],
           start' = start, end' = end, t = Sender => pc[t] \notin {"bump", "sent"}
    PROVE  SlotInv'
  <2> USE <1>SlotsKept
  <2> SUFFICES ASSUME NEW i \in 0 .. Slots - 1, cell'[Slot(i)] # None
               PROVE  \/ InRing(i)'
                      \/ i = end' /\ pc'[Sender] \in {"bump", "sent"} /\ op'[Sender].ref = Slot(end')
    BY DEF SlotInv, Slot
  <2>1. InRing(i)' <=> InRing(i)
    BY DEF InRing
  <2>2. InRing(i) \/ (i = end /\ pc[Sender] \in {"bump", "sent"} /\ op[Sender].ref = Slot(end))
    BY DEF SlotInv
  <2>3. CASE i = end /\ pc[Sender] \in {"bump", "sent"} /\ op[Sender].ref = Slot(end)
    BY <2>3, Numbers
  <2> QED BY <2>1, <2>2, <2>3

\* A step that changes no count and does not come near the counts.
<1>QuietCounts.
    ASSUME NEW t \in Thread, CountInv, \A u \in Thread \ {t} : pc'[u] = pc[u] /\ op'[u] = op[u],
           \A c \in Cell : cell'[c] = cell[c], \A o \in Obj : info'[o].cnt = info[o].cnt,
           pc[t] \notin {"take", "info", "set"}, pc'[t] \notin {"take", "info", "set"}
    PROVE  CountInv'
  <2> USE <1>QuietCounts
  <2>1. ~Early(t) /\ ~Late(t) /\ ~Early(t)' /\ ~Late(t)'
    BY DEF Early, Late
  <2>2. \A o \in Obj : Held(o)' = Held(o)
    BY <2>1, <1>Quiet
  <2>3. ASSUME NEW o \in Obj PROVE info'[o].cnt = Cardinality(Held(o)')
    BY <2>2 DEF CountInv
  <2> QED BY <2>3 DEF CountInv

\* The RootRefs after an allocation by a thread that is not at work on one.
<1>AllocRoots.
    ASSUME TypeOK, NEW t \in Thread, RootInv(t), NEW r \in RootPage(t), AllocRoot(t, r),
           pc[t] \notin Busy, pc'[t] \in Busy, op'[t].ref = r
    PROVE  RootInv(t)'
  <2> USE <1>AllocRoots
  <2>0. /\ root'[r] = "used" /\ \A c \in Cell : cell'[c] = cell[c]
        /\ \A x \in Root \ {r} : \/ root'[x] = root[x]
                                 \/ x \in RootPage(t) /\ root[x] = "local" /\ root'[x] = "free"
    BY AllocEffect
  <2>1. ASSUME NEW x \in RootPage(t)
        PROVE  IF root'[x] = "used" THEN cell'[x] # None \/ (op'[t].ref = x /\ pc'[t] \in Busy)
               ELSE cell'[x] = None
    <3>1. x \in Root /\ x \in Cell
      BY Pages
    <3>2. cell'[x] = cell[x] /\ (x = r \/ root'[x] = root[x] \/ (root[x] = "local" /\ root'[x] = "free"))
      BY <2>0, <3>1
    <3>3. CASE x = r
      BY <2>0, <3>3
    <3>4. CASE x # r
      <4>1. IF root[x] = "used" THEN cell[x] # None ELSE cell[x] = None
        BY DEF RootInv
      <4>2. CASE root'[x] = root[x]
        BY <3>2, <4>1, <4>2
      <4>3. CASE root[x] = "local" /\ root'[x] = "free"
        BY <3>2, <4>1, <4>3
      <4> QED BY <3>2, <3>4, <4>2, <4>3
    <3> QED BY <3>3, <3>4
  <2> QED BY <2>1 DEF RootInv

<1>MallocRef.
    ASSUME TypeOK, NEW t \in Thread, RefInv, NEW r \in RootPage(t), Malloc(t, r)
    PROVE  RefInv'
  <2> USE <1>MallocRef
  <2> USE DEF memory, redo, queue, local, monitor, Goto, At, Call
  <2>1. /\ \A u \in Thread \ {t} : pc'[u] = pc[u] /\ op'[u] = op[u]
        /\ pc'[t] = "block" /\ op'[t].ref = r /\ pc[t] = "idle"
        /\ info' = info /\ blk' = blk /\ start' = start /\ end' = end /\ AllocRoot(t, r)
    <3>0. op \in [Thread -> Op] /\ pc' = [pc EXCEPT ![t] = "block"] /\ DOMAIN pc = Thread
      BY DEF Malloc, TypeOK
    <3>1. op' = [op EXCEPT ![t] = [op[t] EXCEPT !.ref = r]]
      BY DEF Malloc
    <3>2. op'[t].ref = r
      BY <3>0, <3>1, Locals, SMT DEF Op
    <3>3. \A u \in Thread \ {t} : pc'[u] = pc[u] /\ op'[u] = op[u]
      BY <3>0, <3>1
    <3> QED BY <3>0, <3>2, <3>3 DEF Malloc
  <2>2. /\ cell[r] = None /\ \A c \in Cell : cell'[c] = cell[c]
        /\ root'[r] = "used" /\ \A x \in Root : root'[x] = root[x] \/ x \in RootPage(t)
    BY <2>1, AllocEffect DEF RefInv
  <2>3. Frame(t)
    BY <2>1, <2>2 DEF Frame
  <2>4. r \in Cell /\ \A i \in 0 .. Slots - 1 : Slot(i) \in Cell
    BY Pages, SlotCells
  <2>5. ThreadInv(t)'
    BY <2>1, <2>2, <2>4 DEF ThreadInv, Own
  <2>6. RootInv(t)'
    BY <2>1, <1>AllocRoots DEF RefInv, Busy
  <2>7. SlotInv'
    BY <2>1, <2>2, <2>4, <1>SlotsKept DEF RefInv
  <2>8. BlockInv'
    BY <2>1 DEF BlockInv, RefInv
  <2>9. CountInv'
    BY <2>1, <2>2, <1>QuietCounts DEF RefInv
  <2> QED BY <2>3, <2>5, <2>6, <2>7, <2>8, <2>9, <1>Combine

\* The steps of t that change its locals only.
<1>Still.
    ASSUME TypeOK, NEW t \in Thread, RefInv, ThreadInv(t)',
           \A u \in Thread \ {t} : pc'[u] = pc[u] /\ op'[u] = op[u],
           info' = info, blk' = blk, cell' = cell, root' = root, start' = start, end' = end,
           pc[t] \notin {"take", "info", "set"}, pc'[t] \notin {"take", "info", "set"},
           t = Sender => pc[t] \notin {"bump", "sent"},
           pc[t] \in Busy => op'[t].ref = op[t].ref /\ pc'[t] \in Busy
    PROVE  RefInv'
  <2> USE <1>Still
  <2>1. Frame(t)
    BY DEF Frame
  <2>2. RootInv(t)'
    <3>1. RootInv(t)
      BY DEF RefInv
    <3> QED BY <3>1 DEF RootInv
  <2>3. SlotInv'
    BY <1>SlotsKept DEF RefInv
  <2>4. BlockInv'
    BY DEF BlockInv, RefInv
  <2>5. CountInv'
    BY <1>QuietCounts DEF RefInv
  <2> QED BY <2>1, <2>2, <2>3, <2>4, <2>5, <1>Combine

<1>DropRef.
    ASSUME TypeOK, NEW t \in Thread, RefInv, NEW r \in RootPage(t), Drop(t, r)
    PROVE  RefInv'
  <2> USE <1>DropRef
  <2> USE DEF memory, redo, queue, local, monitor
  <2>1. /\ \A u \in Thread \ {t} : pc'[u] = pc[u] /\ op'[u] = op[u]
        /\ op'[t].func_id = "unlink" /\ op'[t].ref = r /\ op'[t].refed = cell[r]
        /\ op'[t].then = "drop" /\ pc'[t] = "log"
    <3>1. Begin(t, "unlink", r, cell[r], "drop")
      BY DEF Drop
    <3> QED BY <3>1, BeginEffect, SMTT(30)
  <2>2. /\ pc[t] = "idle" /\ info' = info /\ blk' = blk /\ cell' = cell /\ root' = root
        /\ start' = start /\ end' = end /\ root[r] = "used"
    BY DEF Drop, Call, At
  <2>3. cell[r] \in Obj
    <3>1. cell[r] # None
      BY <2>2 DEF RefInv, RootInv, Busy
    <3>2. r \in Cell
      BY Pages
    <3> QED BY <3>1, <3>2, Locals
  <2>4. UnlinkInv(t)'
    BY <2>1, <2>2, <2>3 DEF UnlinkInv, Own
  <2>5. ThreadInv(t)'
    BY <2>1, <2>4 DEF ThreadInv
  <2> QED BY <2>1, <2>2, <2>5, <1>Still DEF Busy

<1>SendRef.
    ASSUME TypeOK, NEW t \in Thread, RefInv, NEW r \in RootPage(t), Send(t, r)
    PROVE  RefInv'
  <2> USE <1>SendRef
  <2> USE DEF memory, redo, queue, local, monitor
  <2>1. /\ \A u \in Thread \ {t} : pc'[u] = pc[u] /\ op'[u] = op[u]
        /\ op'[t].func_id = "link" /\ op'[t].ref = Slot(end) /\ op'[t].refed = cell[r]
        /\ op'[t].then = "sent" /\ pc'[t] = "log"
    <3>1. Begin(t, "link", Slot(end), cell[r], "sent")
      BY DEF Send
    <3> QED BY <3>1, BeginEffect, SMTT(30)
  <2>2. /\ pc[t] = "idle" /\ info' = info /\ blk' = blk /\ cell' = cell /\ root' = root
        /\ start' = start /\ end' = end /\ root[r] = "used" /\ t = Sender /\ ~Full
    BY DEF Send, Call, At
  <2>3. cell[r] \in Obj
    <3>1. cell[r] # None
      BY <2>2 DEF RefInv, RootInv, Busy
    <3>2. r \in Cell
      BY Pages
    <3> QED BY <3>1, <3>2, Locals
  <2>4. cell[Slot(end)] = None
    <3>1. end \in 0 .. Slots - 1 /\ start \in 0 .. Slots - 1
      BY DEF TypeOK
    <3>2. ~InRing(end)
      BY <3>1, Numbers, SMT DEF InRing
    <3> QED BY <2>2, <3>1, <3>2 DEF RefInv, SlotInv
  <2>5. Slot(end)' = Slot(end) /\ (Full' <=> Full)
    BY <2>2 DEF Slot, Full
  <2>6. LinkInv(t)'
    <3>1. AtEnd(t)'
      BY <2>1, <2>2, <2>5 DEF AtEnd
    <3> QED BY <2>1, <2>2, <2>3, <2>4, <3>1 DEF LinkInv
  <2>7. ThreadInv(t)'
    BY <2>1, <2>6 DEF ThreadInv
  <2> QED BY <2>1, <2>2, <2>7, <1>Still DEF Busy

<1>ReceivedRef.
    ASSUME TypeOK, NEW t \in Thread, RefInv, Received(t)
    PROVE  RefInv'
  <2> USE <1>ReceivedRef
  <2> USE DEF memory, redo, queue, local, monitor
  <2>1. /\ \A u \in Thread \ {t} : pc'[u] = pc[u] /\ op'[u] = op[u]
        /\ op'[t].func_id = "unlink" /\ op'[t].ref = Slot(start) /\ op'[t].refed = cell[Slot(start)]
        /\ op'[t].then = "advance" /\ pc'[t] = "log"
    <3>1. Begin(t, "unlink", Slot(start), cell[Slot(start)], "advance")
      BY DEF Received
    <3> QED BY <3>1, BeginEffect, SMTT(30)
  <2>2. /\ pc[t] = "received" /\ info' = info /\ blk' = blk /\ cell' = cell /\ root' = root
        /\ start' = start /\ end' = end
    BY DEF Received, At
  <2>3. t = Receiver /\ start # end /\ cell[Slot(start)] \in Obj
    <3>1. t = Receiver /\ start # end /\ cell[Slot(start)] # None
      BY <2>2 DEF RefInv, ThreadInv
    <3>2. Slot(start) \in Cell
      BY SlotCells DEF TypeOK
    <3> QED BY <3>1, <3>2, Locals
  <2>4. AtStart(t)'
    BY <2>1, <2>2, <2>3 DEF AtStart, Slot
  <2>5. UnlinkInv(t)'
    BY <2>1, <2>2, <2>3, <2>4 DEF UnlinkInv
  <2>6. ThreadInv(t)'
    BY <2>1, <2>5 DEF ThreadInv
  <2> QED BY <2>1, <2>2, <2>6, <1>Still DEF Busy

<1>UnwrapRef.
    ASSUME TypeOK, NEW t \in Thread, RefInv, NEW r \in RootPage(t), Unwrap(t, r)
    PROVE  RefInv'
  <2> USE <1>UnwrapRef
  <2> USE DEF memory, redo, queue, local, monitor
  <2>1. /\ \A u \in Thread \ {t} : pc'[u] = pc[u] /\ op'[u] = op[u]
        /\ op'[t].func_id = "link" /\ op'[t].ref = r /\ op'[t].refed = cell[Slot(start)]
        /\ op'[t].then = "received" /\ pc'[t] = "log"
    <3>1. Begin(t, "link", r, cell[Slot(start)], "received")
      BY DEF Unwrap
    <3> QED BY <3>1, BeginEffect, SMTT(30)
  <2>2. /\ info' = info /\ blk' = blk /\ start' = start /\ end' = end /\ AllocRoot(t, r)
        /\ start # end /\ cell[Slot(start)] # None /\ pc[t] \in {"idle", "unwrap"}
        /\ pc[t] = "unwrap" \/ receiver_id = t
    BY DEF Unwrap, Unwrapping, Call, At
  <2>3. t = Receiver
    <3>1. t # 0 /\ receiver_id \in {0, Receiver}
      BY ThreadNat DEF TypeOK
    <3> QED BY <2>2, <3>1 DEF RefInv, ThreadInv
  <2>4. Slot(start) \in Cell /\ r \in Cell /\ \A i \in 0 .. Slots - 1 : Slot(i) \in Cell
    BY SlotCells, Pages DEF TypeOK
  <2>5. cell[Slot(start)] \in Obj
    BY <2>2, <2>4, Locals
  <2>6. /\ cell[r] = None /\ \A c \in Cell : cell'[c] = cell[c]
        /\ root'[r] = "used" /\ \A x \in Root : root'[x] = root[x] \/ x \in RootPage(t)
    BY <2>2, AllocEffect DEF RefInv
  <2>7. Frame(t)
    BY <2>1, <2>2, <2>6 DEF Frame
  <2>8. LinkInv(t)'
    <3>1. Own(t)' /\ cell'[r] = None
      BY <2>1, <2>4, <2>6 DEF Own
    <3>2. cell'[Slot(start)'] = cell[Slot(start)]
      BY <2>2, <2>4, <2>6 DEF Slot
    <3> QED BY <2>1, <2>2, <2>3, <2>5, <3>1, <3>2 DEF LinkInv
  <2>9. ThreadInv(t)'
    BY <2>1, <2>8 DEF ThreadInv
  <2>10. RootInv(t)'
    BY <2>1, <2>2, <1>AllocRoots DEF RefInv, Busy
  <2>11. SlotInv'
    BY <2>1, <2>2, <2>4, <2>6, <1>SlotsKept DEF RefInv
  <2>12. BlockInv'
    BY <2>2 DEF BlockInv, RefInv
  <2>13. CountInv'
    BY <2>1, <2>2, <2>6, <1>QuietCounts DEF RefInv
  <2> QED BY <2>7, <2>9, <2>10, <2>11, <2>12, <2>13, <1>Combine

<1>QueueRef.
    ASSUME TypeOK, NEW t \in Thread, RefInv,
           CreateQueue(t) \/ ListQueue(t) \/ Register(t) \/ SetReceiver(t) \/ UnwrapEmpty(t)
    PROVE  RefInv'
  <2> USE <1>QueueRef
  <2> USE DEF memory, redo, queue, local, monitor
  <2>1. /\ op' = op /\ info' = info /\ blk' = blk /\ cell' = cell /\ root' = root
        /\ start' = start /\ end' = end
    BY DEF CreateQueue, ListQueue, Register, SetReceiver, UnwrapEmpty
  <2>2. ThreadInv(t)
    BY DEF RefInv
  <2>3. \E s \in {"idle", "create", "register", "unwrap"} :
          /\ Goto(t, s) /\ pc[t] \in {"idle", "create", "register", "unwrap"}
          /\ s = "create" => t = Sender
          /\ s = "register" => t = Receiver
          /\ s = "unwrap" => pc[t] = "register"
    BY DEF CreateQueue, ListQueue, Register, SetReceiver, UnwrapEmpty, Call, At
  <2>4. /\ \A u \in Thread \ {t} : pc'[u] = pc[u]
        /\ pc[t] \in {"idle", "create", "register", "unwrap"}
        /\ pc'[t] \in {"idle", "create", "register", "unwrap"}
        /\ pc'[t] = "create" => t = Sender
        /\ pc'[t] \in {"register", "unwrap"} => t = Receiver
    <3>1. PICK s \in {"idle", "create", "register", "unwrap"} :
               /\ Goto(t, s) /\ pc[t] \in {"idle", "create", "register", "unwrap"}
               /\ s = "create" => t = Sender
               /\ s = "register" => t = Receiver
               /\ s = "unwrap" => pc[t] = "register"
      BY <2>3
    <3>2. pc'[t] = s /\ \A u \in Thread \ {t} : pc'[u] = pc[u]
      BY <3>1, GotoEffect
    <3>3. s \in {"register", "unwrap"} => t = Receiver
      BY <2>2, <3>1 DEF ThreadInv
    <3> QED BY <3>1, <3>2, <3>3
  <2>5. ThreadInv(t)'
    BY <2>4 DEF ThreadInv
  <2> QED BY <2>1, <2>4, <2>5, <1>Still DEF Busy

\* The object is the one that the log names, with the same references.
<1>WriteLogRef.
    ASSUME TypeOK, NEW t \in Thread, RefInv, WriteLog(t)
    PROVE  RefInv'
  <2> USE <1>WriteLogRef
  <2> USE DEF memory, redo, queue, local, monitor
  <2>1. /\ pc[t] = "log" /\ Goto(t, "cas") /\ op' = [op EXCEPT ![t].saw = info[op[t].refed]]
        /\ info' = info /\ blk' = blk /\ cell' = cell /\ root' = root /\ start' = start /\ end' = end
    BY DEF WriteLog, At
  <2>2. /\ \A u \in Thread \ {t} : pc'[u] = pc[u] /\ op'[u] = op[u]
        /\ pc'[t] = "cas" /\ op'[t] = [op[t] EXCEPT !.saw = info[op[t].refed]]
    <3>1. op \in [Thread -> Op]
      BY DEF TypeOK
    <3> QED BY <2>1, <3>1, GotoEffect
  <2>3. /\ op'[t].ref = op[t].ref /\ op'[t].refed = op[t].refed
        /\ op'[t].func_id = op[t].func_id /\ op'[t].then = op[t].then
    BY <2>2, Locals, SMT DEF Op
  <2>4. ThreadInv(t)
    BY DEF RefInv
  <2>5. /\ Own(t)' <=> Own(t)
        /\ AtEnd(t)' <=> AtEnd(t)
        /\ AtStart(t)' <=> AtStart(t)
    BY <2>1, <2>3 DEF Own, AtEnd, AtStart, Slot, Full
  <2>6. LinkInv(t) => LinkInv(t)'
    BY <2>1, <2>2, <2>3, <2>5 DEF LinkInv, Slot
  <2>7. UnlinkInv(t) => UnlinkInv(t)'
    BY <2>1, <2>2, <2>3, <2>5 DEF UnlinkInv
  <2>8. ThreadInv(t)'
    <3>1. /\ op[t].func_id \in {"link", "unlink"}
          /\ op[t].func_id = "link" => LinkInv(t)
          /\ op[t].func_id = "unlink" => UnlinkInv(t)
      BY <2>1, <2>4 DEF ThreadInv
    <3> QED BY <2>2, <2>3, <2>6, <2>7, <3>1 DEF ThreadInv
  <2> QED BY <2>1, <2>2, <2>3, <2>8, <1>Still DEF Busy

<1>BumpEraRef.
    ASSUME TypeOK, NEW t \in Thread, RefInv, BumpEra(t)
    PROVE  RefInv'
  <2> USE <1>BumpEraRef
  <2> USE DEF memory, redo, queue, local, monitor
  <2> DEFINE s == IF op[t].func_id = "unlink" /\ op[t].saw.cnt = 1 THEN "free" ELSE op[t].then
  <2>1. /\ pc[t] = "bump" /\ op' = op
        /\ info' = info /\ blk' = blk /\ cell' = cell /\ root' = root /\ start' = start /\ end' = end
    BY DEF BumpEra, At
  <2>2. pc'[t] = s /\ \A u \in Thread \ {t} : pc'[u] = pc[u]
    <3>1. Goto(t, s)
      BY DEF BumpEra
    <3> QED BY <3>1, GotoEffect
  <2>3. ThreadInv(t) /\ RootInv(t) /\ SlotInv
    BY DEF RefInv
  <2>4. (Own(t)' <=> Own(t)) /\ (AtEnd(t)' <=> AtEnd(t)) /\ (AtStart(t)' <=> AtStart(t))
    BY <2>1 DEF Own, AtEnd, AtStart, Slot, Full
  <2>5. Frame(t)
    BY <2>1, <2>2 DEF Frame
  <2>6. ASSUME op[t].func_id = "link"
        PROVE  /\ ThreadInv(t)' /\ RootInv(t)' /\ s \notin {"take", "info", "set"}
               /\ t = Sender /\ op[t].ref = Slot(end) => s = "sent"
    <3>1. LinkInv(t) /\ s = op[t].then
      BY <2>1, <2>3, <2>6 DEF ThreadInv
    <3>2. cell[op[t].ref] = op[t].refed /\ op[t].refed # None
      BY <2>1, <3>1, Numbers DEF LinkInv
    <3>3. s \in {"received", "sent"}
      BY <3>1 DEF LinkInv
    <3>4. s = "sent" => AtEnd(t)
      BY <3>1 DEF LinkInv
    <3>5. s = "received" => t = Receiver /\ start # end /\ cell[Slot(start)] # None /\ Own(t)
      BY <3>1, <3>2 DEF LinkInv
    <3>6. ThreadInv(t)'
      BY <2>1, <2>2, <2>4, <3>3, <3>4, <3>5 DEF ThreadInv, Slot
    <3>7. RootInv(t)'
      BY <2>1, <2>3, <3>2 DEF RootInv
    <3>8. t = Sender /\ op[t].ref = Slot(end) => s = "sent"
      BY <3>3, <3>5, Pages DEF Own
    <3> QED BY <3>3, <3>6, <3>7, <3>8
  <2>7. ASSUME op[t].func_id = "unlink"
        PROVE  /\ ThreadInv(t)' /\ RootInv(t)' /\ s \notin {"take", "info", "set"}
               /\ t = Sender /\ op[t].ref = Slot(end) => s = "sent"
    <3>1. UnlinkInv(t)
      BY <2>1, <2>3, <2>7 DEF ThreadInv
    <3>2. /\ cell[op[t].ref] = None /\ op[t].refed \in Obj
          /\ (op[t].then = "drop" /\ Own(t)) \/ (op[t].then = "advance" /\ AtStart(t))
          /\ s = "free" => info[op[t].refed].cnt = 0 /\ info[op[t].refed].by = t
          /\ s = "free" \/ s = op[t].then
      BY <2>1, <3>1 DEF UnlinkInv
    <3>3. s = "free" => UnlinkInv(t)'
      BY <2>1, <2>2, <2>4, <3>2 DEF UnlinkInv
    <3>4. ThreadInv(t)'
      BY <2>1, <2>2, <2>4, <2>7, <3>2, <3>3 DEF ThreadInv
    <3>5. Own(t) => s \in {"free", "drop"}
      BY <3>2, Pages DEF Own, AtStart
    <3>6. RootInv(t)'
      <4>1. ASSUME NEW r \in RootPage(t)
            PROVE  IF root[r] = "used" THEN cell[r] # None \/ (op[t].ref = r /\ s \in Busy)
                   ELSE cell[r] = None
        <5>1. IF root[r] = "used" THEN cell[r] # None \/ op[t].ref = r ELSE cell[r] = None
          BY <2>3 DEF RootInv
        <5>2. op[t].ref = r /\ root[r] = "used" => Own(t)
          BY DEF Own
        <5> QED BY <3>5, <5>1, <5>2 DEF Busy
      <4> QED BY <2>1, <2>2, <4>1 DEF RootInv
    <3>7. ~(t = Sender /\ op[t].ref = Slot(end))
      <4>1. CASE Own(t)
        BY <4>1, Pages DEF Own
      <4>2. CASE AtStart(t)
        BY <4>2, SlotCells DEF AtStart
      <4> QED BY <3>2, <4>1, <4>2
    <3>8. s \in {"free", "drop", "advance"}
      BY <3>2
    <3> QED BY <3>4, <3>6, <3>7, <3>8
  <2>8. /\ ThreadInv(t)' /\ RootInv(t)' /\ s \notin {"take", "info", "set"}
        /\ t = Sender /\ op[t].ref = Slot(end) => s = "sent"
    BY <2>1, <2>3, <2>6, <2>7 DEF ThreadInv
  <2>9. SlotInv'
    <3> SUFFICES ASSUME NEW i \in 0 .. Slots - 1, cell'[Slot(i)] # None
                 PROVE  \/ InRing(i)'
                        \/ i = end' /\ pc'[Sender] \in {"bump", "sent"} /\ op'[Sender].ref = Slot(end')
      BY DEF SlotInv, Slot
    <3>1. InRing(i)' <=> InRing(i)
      BY <2>1 DEF InRing
    <3>2. InRing(i) \/ (i = end /\ pc[Sender] \in {"bump", "sent"} /\ op[Sender].ref = Slot(end))
      BY <2>1, <2>3 DEF SlotInv
    <3>3. CASE i = end /\ pc[Sender] \in {"bump", "sent"} /\ op[Sender].ref = Slot(end)
      <4>1. CASE t = Sender
        BY <2>1, <2>2, <2>8, <3>3, <4>1
      <4>2. CASE t # Sender
        BY <2>1, <2>2, <3>3, <4>2, Numbers
      <4> QED BY <4>1, <4>2
    <3> QED BY <3>1, <3>2, <3>3
  <2>10. BlockInv'
    BY <2>1 DEF BlockInv, RefInv
  <2>11. CountInv'
    <3>1. CountInv
      BY DEF RefInv
    <3> HIDE DEF s
    <3> QED BY <2>1, <2>2, <2>8, <3>1, <1>QuietCounts
  <2> QED BY <2>5, <2>8, <2>9, <2>10, <2>11, <1>Combine

<1>SentRef.
    ASSUME TypeOK, NEW t \in Thread, RefInv, Sent(t)
    PROVE  RefInv'
  <2> USE <1>SentRef
  <2> USE DEF memory, redo, queue, local, monitor
  <2>1. /\ pc[t] = "sent" /\ Goto(t, "idle") /\ op' = [op EXCEPT ![t] = NoOp]
        /\ info' = info /\ blk' = blk /\ cell' = cell /\ root' = root
        /\ start' = start /\ end' = (end + 1) % Slots
    BY DEF Sent, At
  <2>2. pc'[t] = "idle" /\ \A u \in Thread \ {t} : pc'[u] = pc[u] /\ op'[u] = op[u]
    <3>1. op \in [Thread -> Op]
      BY DEF TypeOK
    <3> QED BY <2>1, <3>1, GotoEffect
  <2>3. AtEnd(t) /\ RootInv(t) /\ SlotInv
    BY <2>1 DEF RefInv, ThreadInv
  <2>4. Frame(t)
    BY <2>1, <2>2, <2>3 DEF Frame
  <2>5. ThreadInv(t)'
    BY <2>2 DEF ThreadInv
  <2>6. RootInv(t)'
    BY <2>1, <2>3 DEF RootInv, Busy
  <2>7. SlotInv'
    <3> SUFFICES ASSUME NEW i \in 0 .. Slots - 1, cell'[Slot(i)] # None PROVE InRing(i)'
      BY DEF SlotInv, Slot
    <3>1. InRing(i) \/ i = end
      BY <2>1, <2>3 DEF SlotInv
    <3> QED BY <2>1, <2>3, <3>1, Filled DEF AtEnd
  <2>8. BlockInv'
    BY <2>1 DEF BlockInv, RefInv
  <2>9. CountInv'
    BY <2>1, <2>2, <1>QuietCounts DEF RefInv
  <2> QED BY <2>4, <2>5, <2>6, <2>7, <2>8, <2>9, <1>Combine

<1>AdvanceRef.
    ASSUME TypeOK, NEW t \in Thread, RefInv, Advance(t)
    PROVE  RefInv'
  <2> USE <1>AdvanceRef
  <2> USE DEF memory, redo, queue, local, monitor
  <2>1. /\ pc[t] = "advance" /\ Goto(t, "idle") /\ op' = [op EXCEPT ![t] = NoOp]
        /\ info' = info /\ blk' = blk /\ cell' = cell /\ root' = root
        /\ end' = end /\ start' = (start + 1) % Slots
    BY DEF Advance, At
  <2>2. pc'[t] = "idle" /\ \A u \in Thread \ {t} : pc'[u] = pc[u] /\ op'[u] = op[u]
    <3>1. op \in [Thread -> Op]
      BY DEF TypeOK
    <3> QED BY <2>1, <3>1, GotoEffect
  <2>3. AtStart(t) /\ cell[op[t].ref] = None /\ RootInv(t) /\ SlotInv
    BY <2>1 DEF RefInv, ThreadInv
  <2>4. Frame(t)
    BY <2>1, <2>2, <2>3 DEF Frame
  <2>5. ThreadInv(t)'
    BY <2>2 DEF ThreadInv
  <2>6. RootInv(t)'
    BY <2>1, <2>3 DEF RootInv, Busy
  <2>7. SlotInv'
    <3> SUFFICES ASSUME NEW i \in 0 .. Slots - 1, cell'[Slot(i)] # None
                 PROVE  \/ InRing(i)'
                        \/ i = end' /\ pc'[Sender] \in {"bump", "sent"} /\ op'[Sender].ref = Slot(end')
      BY DEF SlotInv, Slot
    <3>1. InRing(i) \/ (i = end /\ pc[Sender] \in {"bump", "sent"} /\ op[Sender].ref = Slot(end))
      BY <2>1, <2>3 DEF SlotInv
    <3>2. CASE InRing(i)
      <4>1. i # start
        BY <2>1, <2>3 DEF AtStart
      <4> QED BY <2>1, <2>3, <3>2, <4>1, Advanced DEF AtStart
    <3>3. CASE i = end /\ pc[Sender] \in {"bump", "sent"} /\ op[Sender].ref = Slot(end)
      BY <2>1, <2>2, <3>3, Numbers
    <3> QED BY <3>1, <3>2, <3>3
  <2>8. BlockInv'
    BY <2>1 DEF BlockInv, RefInv
  <2>9. CountInv'
    BY <2>1, <2>2, <1>QuietCounts DEF RefInv
  <2> QED BY <2>4, <2>5, <2>6, <2>7, <2>8, <2>9, <1>Combine

<1>FreeRootRef.
    ASSUME TypeOK, NEW t \in Thread, RefInv, FreeRoot(t)
    PROVE  RefInv'
  <2> USE <1>FreeRootRef
  <2> USE DEF memory, redo, queue, local, monitor
  <2>1. /\ pc[t] = "drop" /\ Goto(t, "idle") /\ op' = [op EXCEPT ![t] = NoOp]
        /\ info' = info /\ blk' = blk /\ cell' = cell /\ start' = start /\ end' = end
        /\ root' = Release(root, op[t].ref, RootPage(t), "local")
    BY DEF FreeRoot, At
  <2>2. pc'[t] = "idle" /\ \A u \in Thread \ {t} : pc'[u] = pc[u] /\ op'[u] = op[u]
    <3>1. op \in [Thread -> Op]
      BY DEF TypeOK
    <3> QED BY <2>1, <3>1, GotoEffect
  <2>3. Own(t) /\ cell[op[t].ref] = None /\ RootInv(t) /\ SlotInv /\ op[t].ref \in RootPage(t)
    BY <2>1 DEF RefInv, ThreadInv, Own
  <2>4. /\ root'[op[t].ref] = "local"
        /\ \A r \in Root \ {op[t].ref} :
             \/ root'[r] = root[r]
             \/ r \in RootPage(t) /\ root[r] \in {"free", "local"} /\ root'[r] = "local"
    <3>1. \A b \in RootPage(t) :
             /\ Release(root, b, RootPage(t), "local") \in [Root -> {"free", "used", "local"}]
             /\ Release(root, b, RootPage(t), "local")[b] = "local"
             /\ \A r \in Root \ {b} :
                  \/ Release(root, b, RootPage(t), "local")[r] = root[r]
                  \/ /\ r \in RootPage(t) /\ root[r] \in {"free", "local"}
                     /\ Release(root, b, RootPage(t), "local")[r] = "local"
      BY RootLists
    <3> QED BY <2>1, <2>3, <3>1
  <2>5. Frame(t)
    BY <2>1, <2>2, <2>3, <2>4 DEF Frame
  <2>6. ThreadInv(t)'
    BY <2>2 DEF ThreadInv
  <2>7. RootInv(t)'
    <3>1. ASSUME NEW r \in RootPage(t)
          PROVE  IF root'[r] = "used" THEN cell[r] # None ELSE cell[r] = None
      <4>1. r \in Root
        BY Pages
      <4>2. CASE r = op[t].ref
        BY <2>3, <2>4, <4>2
      <4>3. CASE r # op[t].ref
        <5>1. IF root[r] = "used" THEN cell[r] # None ELSE cell[r] = None
          BY <2>3, <4>3 DEF RootInv
        <5>2. CASE root'[r] = root[r]
          BY <5>1, <5>2
        <5>3. CASE root[r] \in {"free", "local"} /\ root'[r] = "local"
          BY <5>1, <5>3
        <5> QED BY <2>4, <4>1, <4>3, <5>2, <5>3
      <4> QED BY <4>2, <4>3
    <3> QED BY <2>1, <3>1 DEF RootInv
  <2>8. SlotInv'
    BY <2>1, <2>2, <2>3, <1>SlotsKept
  <2>9. BlockInv'
    BY <2>1 DEF BlockInv, RefInv
  <2>10. CountInv'
    BY <2>1, <2>2, <1>QuietCounts DEF RefInv
  <2> QED BY <2>5, <2>6, <2>7, <2>8, <2>9, <2>10, <1>Combine

<1>FreeObjRef.
    ASSUME TypeOK, NEW t \in Thread, RefInv, FreeObj(t)
    PROVE  RefInv'
  <2> USE <1>FreeObjRef
  <2> USE DEF memory, redo, queue, local, monitor
  <2>1. PICK o : o = op[t].refed
    BY SMT
  <2>2. PICK p \in {"local", "remote"} :
           /\ pc[t] = "free" /\ Goto(t, op[t].then) /\ op' = op
           /\ cell' = cell /\ root' = root /\ start' = start /\ end' = end
           /\ info' = [info EXCEPT ![o] = NoInfo]
           /\ blk' = Release(blk, o, ObjPage(Home[o]), p)
    BY <2>1 DEF FreeObj, At
  <2>3. ThreadInv(t) /\ RootInv(t) /\ SlotInv /\ BlockInv /\ CountInv /\ Counting
    BY DEF RefInv
  <2>4. UnlinkInv(t)
    BY <2>2, <2>3 DEF ThreadInv
  <2>5. /\ o \in Obj /\ cell[op[t].ref] = None
        /\ (op[t].then = "drop" /\ Own(t)) \/ (op[t].then = "advance" /\ AtStart(t))
        /\ info[o].cnt = 0 /\ info[o].by = t
    BY <2>1, <2>2, <2>4 DEF UnlinkInv
  <2>6. pc'[t] = op[t].then /\ \A u \in Thread \ {t} : pc'[u] = pc[u]
    BY <2>2, GotoEffect
  <2>7. info'[o] = NoInfo /\ (\A x \in Obj \ {o} : info'[x] = info[x]) /\ NoInfo.cnt = 0
    <3>1. NoInfo.cnt = 0
      BY SMT DEF NoInfo
    <3>2. info \in [Obj -> Info]
      BY DEF TypeOK
    <3> QED BY <2>2, <2>5, <3>1, <3>2
  <2>8. \A x \in Obj \ {o} :
           blk'[x] = blk[x] \/ (blk[x] \in {"free", "local"} /\ blk'[x] = "local")
    <3>1. Home[o] \in Thread /\ o \in ObjPage(Home[o])
      BY <2>5, Locals, PageSets
    <3>2. \A b \in ObjPage(Home[o]), q \in {"local", "remote"} :
             /\ Release(blk, b, ObjPage(Home[o]), q) \in [Obj -> {"free", "taken", "local", "remote"}]
             /\ \A x \in Obj \ {b} :
                  \/ Release(blk, b, ObjPage(Home[o]), q)[x] = blk[x]
                  \/ /\ blk[x] \in {"free", "local"}
                     /\ Release(blk, b, ObjPage(Home[o]), q)[x] = "local"
      BY <3>1, BlockLists
    <3>3. \A x \in Obj \ {o} : \/ Release(blk, o, ObjPage(Home[o]), p)[x] = blk[x]
                              \/ /\ blk[x] \in {"free", "local"}
                                 /\ Release(blk, o, ObjPage(Home[o]), p)[x] = "local"
      BY <3>1, <3>2
    <3> QED BY <2>2, <3>3
  <2>9. Frame(t)
    BY <2>2, <2>5, <2>6, <2>7, <2>8 DEF Frame
  <2>10. (Own(t)' <=> Own(t)) /\ (AtStart(t)' <=> AtStart(t))
    BY <2>2 DEF Own, AtStart, Slot
  <2>11. ThreadInv(t)'
    BY <2>2, <2>5, <2>6, <2>10 DEF ThreadInv
  <2>12. RootInv(t)'
    <3>1. ASSUME NEW r \in RootPage(t)
          PROVE  IF root[r] = "used" THEN cell[r] # None \/ (op[t].ref = r /\ op[t].then \in Busy)
                 ELSE cell[r] = None
      <4>1. IF root[r] = "used" THEN cell[r] # None \/ op[t].ref = r ELSE cell[r] = None
        BY <2>3 DEF RootInv
      <4>2. op[t].ref = r => op[t].then = "drop"
        BY <2>5, Pages DEF AtStart
      <4> QED BY <4>1, <4>2 DEF Busy
    <3> QED BY <2>2, <2>6, <3>1 DEF RootInv
  <2>13. SlotInv'
    BY <2>2, <2>3, <2>6, <1>SlotsKept
  <2>14. BlockInv'
    <3>1. ASSUME NEW x \in Obj, blk'[x] # "taken" PROVE info'[x] = NoInfo
      <4>1. CASE x = o
        BY <2>7, <4>1
      <4>2. CASE x # o
        BY <2>3, <2>7, <2>8, <3>1, <4>2 DEF BlockInv
      <4> QED BY <4>1, <4>2
    <3> QED BY <3>1 DEF BlockInv
  <2>15. CountInv'
    <3>1. \A x \in Obj : info'[x].cnt = info[x].cnt
      BY <2>5, <2>7
    <3>2. pc'[t] \notin {"take", "info", "set"}
      BY <2>5, <2>6
    <3> QED BY <2>2, <2>3, <2>6, <3>1, <3>2, <1>QuietCounts
  <2> QED BY <2>9, <2>11, <2>12, <2>13, <2>14, <2>15, <1>Combine

<1>TakeBlockRef.
    ASSUME TypeOK, NEW t \in Thread, RefInv, TakeBlock(t)
    PROVE  RefInv'
  <2> USE <1>TakeBlockRef
  <2> USE DEF memory, redo, queue, local, monitor
  <2>1. /\ pc[t] = "take" /\ Goto(t, "info") /\ op' = op /\ info' = info
        /\ cell' = cell /\ root' = root /\ start' = start /\ end' = end
        /\ blk' = [blk EXCEPT ![op[t].refed] = "taken"]
    BY DEF TakeBlock, At
  <2>2. pc'[t] = "info" /\ \A u \in Thread \ {t} : pc'[u] = pc[u]
    BY <2>1, GotoEffect
  <2>3. ThreadInv(t) /\ RootInv(t) /\ SlotInv /\ BlockInv /\ CountInv /\ Counting
    BY DEF RefInv
  <2>4. BirthInv(t)
    BY <2>1, <2>3 DEF ThreadInv
  <2>5. \A o \in Obj : blk'[o] = blk[o] \/ (o = op[t].refed /\ blk'[o] = "taken")
    BY <2>1 DEF TypeOK
  <2>6. Frame(t)
    BY <2>1, <2>2, <2>5 DEF Frame
  <2>7. ThreadInv(t)'
    <3>1. blk'[op[t].refed] = "taken"
      BY <2>1, <2>4 DEF TypeOK, BirthInv
    <3>2. BirthInv(t)'
      BY <2>1, <2>2, <2>4, <3>1 DEF BirthInv, Own
    <3> QED BY <2>2, <3>2 DEF ThreadInv
  <2>8. RootInv(t)'
    BY <2>1, <2>2, <2>3 DEF RootInv, Busy
  <2>9. SlotInv'
    BY <2>1, <2>2, <2>3, <1>SlotsKept
  <2>10. BlockInv'
    BY <2>1, <2>3, <2>5 DEF BlockInv
  <2>11. CountInv'
    <3>1. PICK c \in Cell : c = op[t].ref
      BY Locals
    <3>2. Placed(t) /\ \A u \in Thread : ThreadInv(u)
      BY <2>4 DEF Placed, BirthInv, RefInv
    <3>3. Early(t) /\ ~Late(t) /\ Early(t)' /\ ~Late(t)'
      BY <2>1, <2>2 DEF Early, Late
    <3>4. ASSUME NEW o \in Obj PROVE info'[o].cnt = Cardinality(Held(o))'
      <4>1. ~Has(c, o) /\ ~Has(c, o)'
        BY <2>1, <2>2, <3>1, <3>2, <3>3, <1>Mine
      <4>2. Cardinality(Held(o))' = Cardinality(Held(o))
        BY <2>1, <2>2, <2>3, <3>1, <4>1, <1>OneCell
      <4> QED BY <2>1, <2>3, <4>2 DEF CountInv
    <3> QED BY <3>4 DEF CountInv
  <2> QED BY <2>6, <2>7, <2>8, <2>9, <2>10, <2>11, <1>Combine

<1>LinkBlockRef.
    ASSUME TypeOK, NEW t \in Thread, RefInv, NEW o \in Obj, LinkBlock(t, o)
    PROVE  RefInv'
  <2> USE <1>LinkBlockRef
  <2> USE DEF memory, redo, queue, local, monitor
  <2>1. /\ pc[t] = "block" /\ Goto(t, "take") /\ op' = [op EXCEPT ![t].refed = o] /\ info' = info
        /\ cell' = [cell EXCEPT ![op[t].ref] = o] /\ root' = root /\ start' = start /\ end' = end
        /\ blk' = Collected(blk, ObjPage(t)) /\ Home[o] = t /\ blk'[o] = "free"
    BY DEF LinkBlock, At
  <2>2. /\ pc'[t] = "take" /\ \A u \in Thread \ {t} : pc'[u] = pc[u] /\ op'[u] = op[u]
        /\ op'[t] = [op[t] EXCEPT !.refed = o]
    <3>1. op \in [Thread -> Op]
      BY DEF TypeOK
    <3> QED BY <2>1, <3>1, GotoEffect
  <2>3. op'[t].ref = op[t].ref /\ op'[t].refed = o
    BY <2>2, Locals, SMT DEF Op
  <2>4. ThreadInv(t) /\ RootInv(t) /\ SlotInv /\ BlockInv /\ CountInv /\ Counting
    BY DEF RefInv
  <2>5. /\ Own(t) /\ cell[op[t].ref] = None /\ op[t].ref \in RootPage(t)
        /\ root[op[t].ref] = "used" /\ op[t].ref \in Cell
    BY <2>1, <2>4, Locals DEF ThreadInv, Own
  <2>6. cell'[op[t].ref] = o /\ \A c \in Cell \ {op[t].ref} : cell'[c] = cell[c]
    BY <2>1, <2>5 DEF TypeOK
  <2>7. \A x \in Obj : blk'[x] = blk[x] \/ (blk[x] \in {"local", "remote"} /\ blk'[x] = "free")
    <3>1. \A x \in Obj : \/ Collected(blk, ObjPage(t))[x] = blk[x]
                         \/ /\ blk[x] \in {"local", "remote"}
                            /\ Collected(blk, ObjPage(t))[x] = "free"
      BY BlockLists
    <3> QED BY <2>1, <3>1
  <2>8. info[o] = NoInfo
    BY <2>1, <2>4, <2>7 DEF BlockInv
  <2>9. Frame(t)
    BY <2>1, <2>2, <2>5, <2>6, <2>7 DEF Frame
  <2>10. ThreadInv(t)'
    <3>1. BirthInv(t)'
      BY <2>1, <2>2, <2>3, <2>5, <2>6, <2>8 DEF BirthInv, Own
    <3> QED BY <2>2, <3>1 DEF ThreadInv
  <2>11. RootInv(t)'
    <3>1. ASSUME NEW r \in RootPage(t)
          PROVE  IF root[r] = "used" THEN cell'[r] # None ELSE cell'[r] = None
      <4>1. CASE r = op[t].ref
        BY <2>5, <2>6, <4>1, Numbers
      <4>2. CASE r # op[t].ref
        <5>1. cell'[r] = cell[r]
          BY <2>6, <4>2, Pages
        <5> QED BY <2>4, <4>2, <5>1 DEF RootInv
      <4> QED BY <4>1, <4>2
    <3> QED BY <2>1, <3>1 DEF RootInv
  <2>12. SlotInv'
    <3>1. \A i \in 0 .. Slots - 1 : Slot(i) \in Cell /\ Slot(i) # op[t].ref
      <4>1. \A i : Slot(i) # op[t].ref
        BY <2>5, Pages
      <4> QED BY <4>1, SlotCells
    <3> QED BY <2>1, <2>2, <2>4, <2>6, <3>1, <1>SlotsKept
  <2>13. BlockInv'
    BY <2>1, <2>4, <2>7 DEF BlockInv
  <2>14. CountInv'
    <3>1. PICK c \in Cell : c = op[t].ref
      BY <2>5
    <3>2. Placed(t) /\ \A u \in Thread : ThreadInv(u)
      BY <2>5 DEF Placed, RefInv
    <3>3. ~Early(t) /\ ~Late(t) /\ Early(t)' /\ ~Late(t)'
      BY <2>1, <2>2 DEF Early, Late
    <3>4. ASSUME NEW x \in Obj PROVE info'[x].cnt = Cardinality(Held(x))'
      <4>1. ~Has(c, x) /\ ~Has(c, x)'
        <5>1. cell[c] # x /\ op'[t].ref = c
          BY <2>3, <2>5, <3>1, Numbers
        <5> QED BY <2>2, <3>1, <3>2, <3>3, <5>1, <1>Mine
      <4>2. Cardinality(Held(x))' = Cardinality(Held(x))
        BY <2>2, <2>3, <2>4, <2>6, <3>1, <4>1, <1>OneCell
      <4> QED BY <2>1, <2>4, <4>2 DEF CountInv
    <3> QED BY <3>4 DEF CountInv
  <2> QED BY <2>9, <2>10, <2>11, <2>12, <2>13, <2>14, <1>Combine

<1>SetInfoRef.
    ASSUME TypeOK, NEW t \in Thread, RefInv, SetInfo(t)
    PROVE  RefInv'
  <2> USE <1>SetInfoRef
  <2> USE DEF memory, redo, queue, local, monitor
  <2>1. PICK o : o = op[t].refed
    BY SMT
  <2> DEFINE new == [by |-> t, cnt |-> 1, era |-> era[t][t] - 1]
  <2>2. /\ pc[t] = "info" /\ Goto(t, "idle") /\ op' = [op EXCEPT ![t] = NoOp]
        /\ cell' = cell /\ root' = root /\ start' = start /\ end' = end /\ blk' = blk
        /\ info' = [info EXCEPT ![o] = new]
    BY <2>1 DEF SetInfo, At
  <2>3. new.cnt = 1
    BY SMT
  <2> HIDE DEF new
  <2>4. ThreadInv(t) /\ RootInv(t) /\ SlotInv /\ BlockInv /\ CountInv /\ Counting
    BY DEF RefInv
  <2>5. /\ Own(t) /\ o \in Obj /\ cell[op[t].ref] = o /\ Home[o] = t /\ info[o] = NoInfo
        /\ blk[o] = "taken"
    BY <2>1, <2>2, <2>4 DEF ThreadInv, BirthInv
  <2>6. pc'[t] = "idle" /\ \A u \in Thread \ {t} : pc'[u] = pc[u] /\ op'[u] = op[u]
    <3>1. op \in [Thread -> Op]
      BY DEF TypeOK
    <3> QED BY <2>2, <3>1, GotoEffect
  <2>7. info'[o].cnt = 1 /\ info[o].cnt = 0 /\ \A x \in Obj \ {o} : info'[x] = info[x]
    <3>1. info \in [Obj -> Info]
      BY DEF TypeOK
    <3>2. info'[o] = new /\ \A x \in Obj \ {o} : info'[x] = info[x]
      BY <2>2, <2>5, <3>1
    <3>3. NoInfo.cnt = 0
      BY SMT DEF NoInfo
    <3> QED BY <2>3, <2>5, <3>2, <3>3
  <2>8. Frame(t)
    BY <2>2, <2>5, <2>6, <2>7 DEF Frame
  <2>9. ThreadInv(t)'
    BY <2>6 DEF ThreadInv
  <2>10. RootInv(t)'
    <3>1. ASSUME NEW r \in RootPage(t)
          PROVE  IF root[r] = "used" THEN cell[r] # None ELSE cell[r] = None
      BY <2>4, <2>5, Numbers DEF RootInv
    <3> QED BY <2>2, <3>1 DEF RootInv
  <2>11. SlotInv'
    BY <2>2, <2>4, <2>6, <1>SlotsKept
  <2>12. BlockInv'
    BY <2>2, <2>4, <2>5, <2>7 DEF BlockInv
  <2>13. CountInv'
    <3>1. PICK c \in Cell : c = op[t].ref
      BY Locals
    <3>2. Placed(t) /\ \A u \in Thread : ThreadInv(u)
      BY <2>5 DEF Placed, RefInv
    <3>3. Early(t) /\ ~Late(t) /\ ~Early(t)' /\ ~Late(t)'
      BY <2>2, <2>6 DEF Early, Late
    <3>4. \A x \in Obj : ~Has(c, x) /\ (Has(c, x)' <=> x = o)
      <4>1. cell'[c] = o
        BY <2>2, <2>5, <3>1
      <4>2. ASSUME NEW x \in Obj
            PROVE  /\ Has(c, x) <=> (cell[c] = x /\ ~Early(t)) \/ (Late(t) /\ op[t].refed = x)
                   /\ Has(c, x)' <=> \/ cell'[c] = x /\ (op'[t].ref = c => ~Early(t)')
                                     \/ Late(t)' /\ op'[t].ref = c /\ op'[t].refed = x
        BY <2>6, <3>1, <3>2, <1>Mine, SMTT(30)
      <4> QED BY <3>3, <4>1, <4>2
    <3>5. ASSUME NEW x \in Obj PROVE info'[x].cnt = Cardinality(Held(x))'
      <4>1. CASE x = o
        <5>1. Cardinality(Held(x))' = Cardinality(Held(x)) + 1
          BY <2>2, <2>4, <2>6, <3>1, <3>3, <3>4, <4>1, <1>OneCell
        <5>2. Cardinality(Held(x)) = 0
          BY <2>4, <2>7, <4>1 DEF CountInv
        <5>3. Cardinality(Held(x))' = 1
          BY <5>1, <5>2, SMT
        <5> QED BY <2>7, <4>1, <5>3
      <4>2. CASE x # o
        <5>1. Cardinality(Held(x))' = Cardinality(Held(x))
          BY <2>2, <2>4, <2>6, <3>1, <3>3, <3>4, <4>2, <1>OneCell
        <5> QED BY <2>4, <2>7, <4>2, <5>1 DEF CountInv
      <4> QED BY <4>1, <4>2
    <3> QED BY <3>5 DEF CountInv
  <2> QED BY <2>8, <2>9, <2>10, <2>11, <2>12, <2>13, <1>Combine

\* The references that an exchange counts or stops to count.
<1>ExchangeRef.
    ASSUME TypeOK, NEW t \in Thread, RefInv, Exchange(t)
    PROVE  RefInv'
  <2> USE <1>ExchangeRef
  <2> USE DEF memory, redo, queue, local, monitor
  <2>1. PICK o : o = op[t].refed
    BY SMT
  <2> DEFINE step == IF op[t].func_id = "link" THEN 1 ELSE -1
             new == [by |-> t, cnt |-> info[o].cnt + step, era |-> era[t][t]]
  <2>2. /\ pc[t] = "cas" /\ op' = op
        /\ cell' = cell /\ root' = root /\ start' = start /\ end' = end /\ blk' = blk
        /\ \/ info[o] = op[t].saw /\ info' = [info EXCEPT ![o] = new] /\ Goto(t, "set")
           \/ Goto(t, "log") /\ info' = info
    BY <2>1 DEF Exchange, At
  <2>3. ThreadInv(t) /\ RootInv(t) /\ SlotInv /\ BlockInv /\ CountInv /\ Counting
    BY DEF RefInv
  <2>4. o \in Obj /\ info[o].cnt # 0 /\ info[o].cnt \in Nat
    BY <2>1, <2>2, Alive, Locals
  <2>5. (Own(t)' <=> Own(t)) /\ (AtEnd(t)' <=> AtEnd(t)) /\ (AtStart(t)' <=> AtStart(t))
    BY <2>2 DEF Own, AtEnd, AtStart, Slot, Full
  <2>6. /\ op[t].func_id \in {"link", "unlink"}
        /\ op[t].func_id = "link" => LinkInv(t)
        /\ op[t].func_id = "unlink" => UnlinkInv(t)
    BY <2>2, <2>3 DEF ThreadInv
  <2>7. LinkInv(t) /\ pc'[t] \in {"log", "set"} => LinkInv(t)'
    BY <2>2, <2>5 DEF LinkInv, Slot
  <2>8. CASE Goto(t, "log") /\ info' = info
    <3>1. pc'[t] = "log" /\ \A u \in Thread \ {t} : pc'[u] = pc[u]
      BY <2>8, GotoEffect
    <3>2. UnlinkInv(t) => UnlinkInv(t)'
      BY <2>2, <2>5, <3>1 DEF UnlinkInv
    <3>3. ThreadInv(t)'
      BY <2>2, <2>6, <2>7, <3>1, <3>2 DEF ThreadInv
    <3> QED BY <2>2, <2>8, <3>1, <3>3, <1>Still DEF Busy
  <2>9. CASE info[o] = op[t].saw /\ info' = [info EXCEPT ![o] = new] /\ Goto(t, "set")
    <3>1. pc'[t] = "set" /\ \A u \in Thread \ {t} : pc'[u] = pc[u] /\ op'[u] = op[u]
      BY <2>2, <2>9, GotoEffect
    <3>2. /\ new.by = t
          /\ op[t].func_id = "link" => new.cnt = info[o].cnt + 1
          /\ op[t].func_id = "unlink" => new.cnt = info[o].cnt - 1
      BY <2>4, SMT
    <3> HIDE DEF new
    <3>3. info'[o] = new /\ \A x \in Obj \ {o} : info'[x] = info[x]
      BY <2>4, <2>9 DEF TypeOK
    <3>4. Frame(t)
      BY <2>2, <2>4, <3>1, <3>3 DEF Frame
    <3>5. UnlinkInv(t) /\ op[t].func_id = "unlink" => UnlinkInv(t)'
      <4>1. op[t].func_id = "unlink" /\ op[t].saw.cnt = 1 => new.cnt = 0
        BY <2>9, <3>2, SMT
      <4> QED BY <2>1, <2>2, <2>5, <3>1, <3>2, <3>3, <4>1 DEF UnlinkInv
    <3>6. ThreadInv(t)'
      BY <2>2, <2>6, <2>7, <3>1, <3>5 DEF ThreadInv
    <3>7. RootInv(t)'
      BY <2>2, <2>3, <3>1 DEF RootInv, Busy
    <3>8. SlotInv'
      BY <2>2, <2>3, <3>1, <1>SlotsKept
    <3>9. BlockInv'
      <4>1. blk[o] = "taken"
        <5>1. info[o] # NoInfo
          BY <2>4, SMT DEF NoInfo
        <5> QED BY <2>3, <2>4, <5>1 DEF BlockInv
      <4> QED BY <2>2, <2>3, <3>3, <4>1 DEF BlockInv
    <3>10. CountInv'
      <4>1. PICK c \in Cell : c = op[t].ref
        BY Locals
      <4>2. Placed(t) /\ \A u \in Thread : ThreadInv(u)
        BY <2>2, Place DEF RefInv, Busy
      <4>3. ASSUME NEW x \in Obj
            PROVE  /\ Has(c, x) <=> (cell[c] = x /\ ~Early(t)) \/ (Late(t) /\ op[t].refed = x)
                   /\ Has(c, x)' <=> \/ cell'[c] = x /\ (op'[t].ref = c => ~Early(t)')
                                     \/ Late(t)' /\ op'[t].ref = c /\ op'[t].refed = x
        BY <3>1, <4>1, <4>2, <1>Mine, SMTT(30)
      <4>4. /\ ~Early(t) /\ ~Late(t)
            /\ op[t].func_id = "link" => Late(t)' /\ ~Early(t)'
            /\ op[t].func_id = "unlink" => Early(t)' /\ ~Late(t)'
        BY <2>2, <3>1 DEF Early, Late
      <4>5. ASSUME NEW x \in Obj, op[t].func_id = "link"
            PROVE  ~Has(c, x) /\ (Has(c, x)' <=> x = o)
        <5>1. cell[c] = None /\ cell'[c] = None /\ x # None
          BY <2>2, <2>6, <4>1, <4>5, Numbers DEF LinkInv
        <5> QED BY <2>1, <2>2, <4>1, <4>3, <4>4, <4>5, <5>1
      <4>6. ASSUME NEW x \in Obj, op[t].func_id = "unlink"
            PROVE  (Has(c, x) <=> x = o) /\ ~Has(c, x)'
        <5>1. cell[c] = o /\ cell'[c] = o
          BY <2>1, <2>2, <2>6, <4>1, <4>6 DEF UnlinkInv
        <5> QED BY <2>1, <2>2, <4>1, <4>3, <4>4, <4>6, <5>1
      <4>7. ASSUME NEW x \in Obj
            PROVE  /\ (Has(c, x) <=> Has(c, x)') => Cardinality(Held(x))' = Cardinality(Held(x))
                   /\ ~Has(c, x) /\ Has(c, x)' => Cardinality(Held(x))' = Cardinality(Held(x)) + 1
                   /\ Has(c, x) /\ ~Has(c, x)' => Cardinality(Held(x))' = Cardinality(Held(x)) - 1
        BY <2>2, <2>3, <3>1, <4>1, <1>OneCell
      <4>8. ASSUME NEW x \in Obj PROVE info'[x].cnt = Cardinality(Held(x))'
        <5>1. info[x].cnt = Cardinality(Held(x))
          BY <2>3 DEF CountInv
        <5>2. CASE x # o
          BY <2>6, <3>3, <4>5, <4>6, <4>7, <5>1, <5>2
        <5>3. CASE x = o /\ op[t].func_id = "link"
          BY <3>2, <3>3, <4>5, <4>7, <5>1, <5>3
        <5>4. CASE x = o /\ op[t].func_id = "unlink"
          BY <3>2, <3>3, <4>6, <4>7, <5>1, <5>4
        <5> QED BY <2>6, <5>2, <5>3, <5>4
      <4> QED BY <4>8 DEF CountInv
    <3> QED BY <3>4, <3>6, <3>7, <3>8, <3>9, <3>10, <1>Combine
  <2> QED BY <2>2, <2>8, <2>9

\* The store that follows an exchange makes true what is counted already.
<1>SetRefRef.
    ASSUME TypeOK, NEW t \in Thread, RefInv, SetRef(t)
    PROVE  RefInv'
  <2> USE <1>SetRefRef
  <2> USE DEF memory, redo, queue, local, monitor
  <2>1. PICK c \in Cell : c = op[t].ref
    BY Locals
  <2> DEFINE new == IF op[t].func_id = "link" THEN op[t].refed ELSE None
  <2>2. /\ pc[t] = "set" /\ Goto(t, "bump") /\ op' = op
        /\ info' = info /\ root' = root /\ start' = start /\ end' = end /\ blk' = blk
        /\ cell' = [cell EXCEPT ![c] = new]
    BY <2>1 DEF SetRef, At
  <2>3. cell'[c] = new /\ \A d \in Cell \ {c} : cell'[d] = cell[d]
    BY <2>1, <2>2 DEF TypeOK
  <2>4. ThreadInv(t) /\ RootInv(t) /\ SlotInv /\ BlockInv /\ CountInv /\ Counting
    BY DEF RefInv
  <2>5. pc'[t] = "bump" /\ \A u \in Thread \ {t} : pc'[u] = pc[u] /\ op'[u] = op[u]
    BY <2>2, GotoEffect
  <2>6. (Own(t)' <=> Own(t)) /\ (AtEnd(t)' <=> AtEnd(t)) /\ (AtStart(t)' <=> AtStart(t))
    BY <2>2 DEF Own, AtEnd, AtStart, Slot, Full
  <2>7. /\ op[t].func_id \in {"link", "unlink"}
        /\ op[t].func_id = "link" => LinkInv(t)
        /\ op[t].func_id = "unlink" => UnlinkInv(t)
    BY <2>2, <2>4 DEF ThreadInv
  <2>8. Placed(t)
    BY <2>2, <2>4, Place DEF Busy
  <2>9. Slot(start) \in Cell /\ Slot(end) \in Cell /\ Slot(start)' = Slot(start)
        /\ \A r \in RootPage(t) : r \in Cell /\ \A i : r # Slot(i)
    <3>1. Slot(start) \in Cell /\ Slot(end) \in Cell
      BY SlotCells DEF TypeOK
    <3>2. Slot(start)' = Slot(start)
      BY <2>2 DEF Slot
    <3>3. \A r \in RootPage(t) : r \in Cell /\ \A i : r # Slot(i)
      BY Pages
    <3> QED BY <3>1, <3>2, <3>3
  <2>10. Frame(t)
    <3>1. c \in RootPage(t) \/ (AtEnd(t) /\ c = Slot(end)) \/ (AtStart(t) /\ c = Slot(start))
      BY <2>1, <2>8 DEF Placed, Own, AtEnd, AtStart
    <3>2. \A d \in Cell : \/ cell'[d] = cell[d] \/ d \in RootPage(t)
                          \/ AtEnd(t) /\ d = Slot(end)
                          \/ AtStart(t) /\ d = Slot(start)
      BY <2>3, <3>1
    <3> QED BY <2>2, <2>5, <3>2 DEF Frame
  <2>11. ASSUME op[t].func_id = "link" PROVE LinkInv(t)'
    <3>1. op[t].refed \in Obj /\ cell'[op[t].ref] = op[t].refed
      BY <2>1, <2>3, <2>7, <2>11 DEF LinkInv
    <3>2. CASE op[t].then = "received" /\ Own(t)
               /\ t = Receiver /\ start # end /\ cell[Slot(start)] = op[t].refed
      <4>1. cell'[Slot(start)] = op[t].refed
        <5>1. Slot(start) # c
          BY <2>1, <2>9, <3>2 DEF Own
        <5> QED BY <2>3, <2>9, <3>2, <5>1
      <4> QED BY <2>2, <2>5, <2>6, <2>9, <3>1, <3>2, <4>1 DEF LinkInv
    <3>3. CASE op[t].then = "sent" /\ AtEnd(t)
               /\ \E r \in RootPage(t) : root[r] = "used" /\ cell[r] = op[t].refed
      <4>1. \E r \in RootPage(t) : root[r] = "used" /\ cell'[r] = op[t].refed
        <5>1. \A r \in RootPage(t) : cell'[r] = cell[r]
          BY <2>1, <2>3, <2>9, <3>3 DEF AtEnd
        <5> QED BY <3>3, <5>1
      <4> QED BY <2>2, <2>5, <2>6, <3>1, <3>3, <4>1 DEF LinkInv
    <3> QED BY <2>7, <2>11, <3>2, <3>3 DEF LinkInv
  <2>12. ASSUME op[t].func_id = "unlink" PROVE UnlinkInv(t)' /\ new = None
    <3>1. cell'[op[t].ref] = None /\ new = None
      BY <2>1, <2>3, <2>12
    <3> QED BY <2>2, <2>5, <2>6, <2>7, <2>12, <3>1 DEF UnlinkInv
  <2>13. ThreadInv(t)'
    BY <2>2, <2>5, <2>7, <2>11, <2>12 DEF ThreadInv
  <2>14. RootInv(t)'
    <3>1. ASSUME NEW r \in RootPage(t)
          PROVE  IF root[r] = "used" THEN cell'[r] # None \/ op[t].ref = r ELSE cell'[r] = None
      <4>1. CASE r = c
        <5>1. Own(t)
          BY <2>1, <2>8, <2>9, <4>1 DEF Placed, AtEnd, AtStart
        <5> QED BY <2>1, <4>1, <5>1 DEF Own
      <4>2. CASE r # c
        <5>1. cell'[r] = cell[r]
          BY <2>3, <2>9, <4>2
        <5> QED BY <2>1, <2>4, <4>2, <5>1 DEF RootInv
      <4> QED BY <4>1, <4>2
    <3> QED BY <2>2, <2>5, <3>1 DEF RootInv, Busy
  <2>15. SlotInv'
    <3> SUFFICES ASSUME NEW i \in 0 .. Slots - 1, cell'[Slot(i)] # None
                 PROVE  \/ InRing(i)'
                        \/ i = end' /\ pc'[Sender] \in {"bump", "sent"} /\ op'[Sender].ref = Slot(end')
      BY DEF SlotInv, Slot
    <3>1. InRing(i)' <=> InRing(i)
      BY <2>2 DEF InRing
    <3>2. CASE Slot(i) = c
      <4>1. op[t].func_id = "link"
        BY <2>3, <2>7, <2>12, <3>2
      <4>2. ~Own(t)
        BY <2>1, <2>9, <3>2 DEF Own
      <4>3. AtEnd(t)
        BY <2>7, <4>1, <4>2 DEF LinkInv
      <4>4. i = end /\ t = Sender /\ op[t].ref = Slot(end)
        BY <2>1, <3>2, <4>3, SlotCells DEF AtEnd
      <4> QED BY <2>2, <2>5, <4>4
    <3>3. CASE Slot(i) # c
      <4>1. cell[Slot(i)] # None
        BY <2>3, <3>3, SlotCells
      <4>2. InRing(i) \/ (i = end /\ pc[Sender] \in {"bump", "sent"} /\ op[Sender].ref = Slot(end))
        BY <2>4, <4>1 DEF SlotInv
      <4>3. CASE i = end /\ pc[Sender] \in {"bump", "sent"} /\ op[Sender].ref = Slot(end)
        BY <2>2, <2>5, <4>3, Numbers
      <4> QED BY <3>1, <4>2, <4>3
    <3> QED BY <3>2, <3>3
  <2>16. BlockInv'
    BY <2>2, <2>4 DEF BlockInv
  <2>17. CountInv'
    <3>1. \A u \in Thread : ThreadInv(u)
      BY DEF RefInv
    <3>2. ASSUME NEW x \in Obj
          PROVE  /\ Has(c, x) <=> (cell[c] = x /\ ~Early(t)) \/ (Late(t) /\ op[t].refed = x)
                 /\ Has(c, x)' <=> \/ cell'[c] = x /\ (op'[t].ref = c => ~Early(t)')
                                   \/ Late(t)' /\ op'[t].ref = c /\ op'[t].refed = x
      BY <2>1, <2>5, <2>8, <3>1, <1>Mine, SMTT(30)
    <3>3. ~Early(t)' /\ ~Late(t)' /\ (op[t].func_id = "link" => Late(t) /\ ~Early(t))
          /\ (op[t].func_id = "unlink" => Early(t) /\ ~Late(t))
      BY <2>2, <2>5 DEF Early, Late
    <3>4. ASSUME NEW x \in Obj PROVE Has(c, x) <=> Has(c, x)'
      <4>1. CASE op[t].func_id = "link"
        <5>1. cell[c] = None /\ x # None /\ cell'[c] = op[t].refed
          BY <2>1, <2>2, <2>3, <2>7, <4>1, Numbers DEF LinkInv
        <5> QED BY <3>2, <3>3, <4>1, <5>1
      <4>2. CASE op[t].func_id = "unlink"
        <5>1. cell'[c] = None /\ x # None
          BY <2>3, <2>12, <4>2, Numbers
        <5> QED BY <3>2, <3>3, <4>2, <5>1
      <4> QED BY <2>7, <4>1, <4>2
    <3>5. ASSUME NEW x \in Obj PROVE info'[x].cnt = Cardinality(Held(x))'
      <4>1. Cardinality(Held(x))' = Cardinality(Held(x))
        BY <2>1, <2>2, <2>3, <2>4, <2>5, <3>4, <1>OneCell
      <4> QED BY <2>2, <2>4, <4>1 DEF CountInv
    <3> QED BY <3>5 DEF CountInv
  <2> QED BY <2>10, <2>13, <2>14, <2>15, <2>16, <2>17, <1>Combine
<1> SUFFICES ASSUME TypeOK, NEW t \in Thread, RefInv, Step(t)
             PROVE  RefInv'
  OBVIOUS
<1> QED BY <1>MallocRef, <1>DropRef, <1>SendRef, <1>UnwrapRef, <1>LinkBlockRef, <1>TakeBlockRef,
        <1>SetInfoRef, <1>WriteLogRef, <1>ExchangeRef, <1>SetRefRef, <1>BumpEraRef, <1>FreeObjRef,
        <1>FreeRootRef, <1>QueueRef, <1>SentRef, <1>ReceivedRef, <1>AdvanceRef DEF Step

-----------------------------------------------------------------------------
\* What a step, or the recovery, of t does to what is known of the eras of the
\* others: t may note a newer one, and it notes the era of a count it replaces.
EraFrame(t) ==
    /\ \A u \in Thread \ {t} :
         pc'[u] = pc[u] /\ op'[u] = op[u] /\ log'[u] = log[u] /\ era'[u] = era[u]
    /\ \A u \in Thread \ {t} :
         \/ era'[t][u] = era[t][u]
         \/ era[t][u] <= era'[t][u] /\ \E o \in Obj : info[o].by = u /\ era'[t][u] = info[o].era
    /\ \A o \in Obj :
         \/ info'[o] = info[o]
         \/ /\ info'[o].by \in {0, t}
            /\ \A u \in Thread \ {t} : info[o].by = u => era'[t][u] >= info[o].era

\* The eras of a thread survive the steps of the others.
LEMMA EraOthers ==
  ASSUME TypeOK, TypeOK', NEW t \in Thread, NEW u \in Thread \ {t}, EraFrame(t), EraInv(u)
  PROVE  EraInv(u)' /\ era'[u][u] = era[u][u]
<1>1. pc'[u] = pc[u] /\ op'[u] = op[u] /\ log'[u] = log[u] /\ era'[u] = era[u]
  BY DEF EraFrame
<1>2. \A e : Fresh(u, e)' <=> Fresh(u, e)
  BY <1>1 DEF Fresh
<1>3. ASSUME NEW o \in Obj, info'[o].by = u PROVE Fresh(u, info[o].era)'
  <2>1. u # 0 /\ u # t
    BY ThreadNat
  <2>2. info'[o] = info[o]
    BY <1>3, <2>1 DEF EraFrame
  <2>3. Fresh(u, info[o].era)
    BY <1>3, <2>2 DEF EraInv
  <2> QED BY <1>1, <2>2, <2>3 DEF Fresh
<1>4. ASSUME NEW v \in Thread \ {u} PROVE Fresh(u, era'[v][u]) /\ era'[v][u] >= era[v][u]
  <2>1. era[v][u] \in Nat /\ Fresh(u, era[v][u])
    <3>1. era[v] \in [Thread -> Nat]
      BY DEF TypeOK
    <3> QED BY <3>1 DEF EraInv
  <2>2. CASE era'[v][u] = era[v][u]
    BY <2>1, <2>2, SMT
  <2>3. CASE v = t /\ era'[t][u] # era[t][u]
    <3>1. PICK o \in Obj : info[o].by = u /\ era'[t][u] = info[o].era /\ era[t][u] <= era'[t][u]
      BY <2>3 DEF EraFrame
    <3>2. Fresh(u, info[o].era)
      BY <3>1 DEF EraInv
    <3>3. info[o].era \in Nat
      BY Locals
    <3>4. era'[t][u] >= era[t][u]
      BY <2>1, <2>3, <3>1, <3>3, SMT
    <3>5. Fresh(u, era'[t][u])
      BY <3>1, <3>2 DEF Fresh
    <3> QED BY <2>3, <3>4, <3>5 DEF Fresh
  <2>4. era'[v][u] = era[v][u] \/ (v = t /\ era'[t][u] # era[t][u])
    <3>1. CASE v = t
      BY <3>1
    <3>2. CASE v # t
      <4>1. era'[v] = era[v]
        BY <3>2 DEF EraFrame
      <4> QED BY <4>1
    <3> QED BY <3>1, <3>2
  <2> QED BY <2>2, <2>3, <2>4
<1>5. Noted(u) /\ op[u].refed \in Obj => Noted(u)'
  <2> SUFFICES ASSUME Noted(u), op[u].refed \in Obj PROVE Noted(u)'
    BY SMT
  <2>0. era[u][u] \in Nat /\ \A v \in Thread : era[v][u] \in Nat /\ era'[v][u] \in Nat
    <3>1. \A v \in Thread : era[v] \in [Thread -> Nat] /\ era'[v] \in [Thread -> Nat]
      BY DEF TypeOK
    <3> QED BY <3>1
  <2>1. ASSUME NEW v \in Thread \ {u}, era[v][u] >= era[u][u] PROVE Noted(u)'
    <3>1. era'[v][u] >= era[v][u]
      BY <1>4
    <3>2. era'[v][u] >= era[u][u]
      BY <2>0, <2>1, <3>1, SMT
    <3> QED BY <1>1, <3>2 DEF Noted
  <2>2. CASE info[op[u].refed].by = u /\ info[op[u].refed].era = era[u][u]
    <3>1. CASE info'[op[u].refed] = info[op[u].refed]
      BY <1>1, <2>2, <3>1 DEF Noted
    <3>2. CASE info'[op[u].refed] # info[op[u].refed]
      <4>1. era'[t][u] >= era[u][u]
        BY <2>2, <3>2 DEF EraFrame
      <4> QED BY <1>1, <4>1 DEF Noted
    <3> QED BY <3>1, <3>2
  <2> QED BY <2>1, <2>2 DEF Noted
<1>6. /\ log[u].func_id # "none" => log[u].refed \in Obj
      /\ pc[u] \in {"cas", "set", "bump"} =>
          /\ log[u].func_id = op[u].func_id /\ log[u].refed = op[u].refed
          /\ log[u].era = era[u][u] /\ op[u].refed \in Obj
          /\ op[u].func_id \in {"link", "unlink"}
      /\ pc[u] \in {"set", "bump"} => Noted(u)
      /\ pc[u] = "cas" /\ op[u].saw.by \in Thread => era[u][op[u].saw.by] >= op[u].saw.era
  BY DEF EraInv
<1>7. pc[u] \in {"set", "bump"} => Noted(u)'
  BY <1>5, <1>6
<1>8. \A v \in Thread \ {u} : Fresh(u, era[v][u])'
  BY <1>1, <1>4 DEF Fresh
<1>9. \A o \in Obj : info'[o].by = u => Fresh(u, info[o].era)'
  BY <1>3
<1>10. EraInv(u)'
  BY <1>1, <1>6, <1>7, <1>8, <1>9 DEF EraInv
<1> QED BY <1>1, <1>10

Eras == \A t \in Thread : era[t][t] >= 1 /\ EraInv(t)

\* Only the locals and the log of t change.
Moves(t) ==
    /\ \E s : Goto(t, s)
    /\ op' = op \/ \E x : op' = [op EXCEPT ![t] = x]
    /\ log' = log \/ \E x : log' = [log EXCEPT ![t] = x]

\* Such a step leaves the locals and the logs of the others alone.
LEMMA MovesEffect ==
  ASSUME TypeOK, NEW t \in Thread, Moves(t)
  PROVE  \A u \in Thread \ {t} : pc'[u] = pc[u] /\ op'[u] = op[u] /\ log'[u] = log[u]
<1>1. \A u \in Thread \ {t} : pc'[u] = pc[u]
  BY GotoEffect DEF Moves
<1>2. op \in [Thread -> Op] /\ log \in [Thread -> Log]
  BY DEF TypeOK
<1>3. \A u \in Thread \ {t} : op'[u] = op[u] /\ log'[u] = log[u]
  BY <1>2 DEF Moves
<1> QED BY <1>1, <1>3

\* Steps that change neither counts nor eras.
Calm(t) ==
    /\ Moves(t) /\ info' = info /\ era' = era
    /\ log' = log \/ log' = [log EXCEPT ![t] = NoLog]
    /\ pc[t] \notin {"set", "bump"} /\ \E s : s \notin {"cas", "set", "bump"} /\ Goto(t, s)

\* The steps that change no count, no era and no log but by erasing it.
LEMMA CalmSteps ==
  ASSUME TypeOK, NEW t \in Thread,
         \/ \E r \in RootPage(t) : Malloc(t, r) \/ Drop(t, r) \/ Send(t, r) \/ Unwrap(t, r)
         \/ \E o \in Obj : LinkBlock(t, o)
         \/ CreateQueue(t) \/ ListQueue(t) \/ Register(t) \/ SetReceiver(t) \/ UnwrapEmpty(t)
         \/ FreeRoot(t) \/ Sent(t) \/ Received(t) \/ Advance(t)
  PROVE  Calm(t)
<1> USE DEF memory, redo, queue, local, monitor, At, Call, Moves, Calm
<1>1. ASSUME NEW r \in RootPage(t), Malloc(t, r) PROVE Calm(t)
  BY <1>1 DEF Malloc, AllocRoot, Erased
<1>2. ASSUME NEW r \in RootPage(t), Drop(t, r) PROVE Calm(t)
  BY <1>2 DEF Drop, Begin
<1>3. ASSUME NEW r \in RootPage(t), Send(t, r) PROVE Calm(t)
  BY <1>3 DEF Send, Begin
<1>4. ASSUME NEW r \in RootPage(t), Unwrap(t, r) PROVE Calm(t)
  BY <1>4 DEF Unwrap, Unwrapping, AllocRoot, Erased, Begin
<1>5. ASSUME NEW o \in Obj, LinkBlock(t, o) PROVE Calm(t)
  BY <1>5 DEF LinkBlock, Erased
<1>6. ASSUME CreateQueue(t) PROVE Calm(t)
  BY <1>6 DEF CreateQueue
<1>7. ASSUME ListQueue(t) PROVE Calm(t)
  BY <1>7 DEF ListQueue
<1>8. ASSUME Register(t) PROVE Calm(t)
  BY <1>8 DEF Register
<1>9. ASSUME SetReceiver(t) PROVE Calm(t)
  BY <1>9 DEF SetReceiver
<1>10. ASSUME UnwrapEmpty(t) PROVE Calm(t)
  BY <1>10 DEF UnwrapEmpty
<1>11. ASSUME FreeRoot(t) PROVE Calm(t)
  BY <1>11 DEF FreeRoot
<1>12. ASSUME Sent(t) PROVE Calm(t)
  BY <1>12 DEF Sent
<1>13. ASSUME Received(t) PROVE Calm(t)
  BY <1>13 DEF Received, Begin
<1>14. ASSUME Advance(t) PROVE Calm(t)
  BY <1>14 DEF Advance
<1> HIDE DEF Calm
<1> QED BY <1>1, <1>2, <1>3, <1>4, <1>5, <1>6, <1>7, <1>8, <1>9, <1>10, <1>11, <1>12, <1>13,
           <1>14

\* Every step of a thread keeps what is known of the eras.
LEMMA StepEra ==
  \A t \in Thread : TypeOK /\ TypeOK' /\ RefInv /\ Eras /\ Step(t) => Eras'
\* An era that was found outside stays so while t goes on.
<1>FreshKept.
    ASSUME NEW t \in Thread, NEW e \in Nat, Fresh(t, e), era[t][t] \in Nat, era'[t][t] \in Nat,
           era'[t][t] >= era[t][t],
           pc[t] \in {"set", "bump"} => pc'[t] \in {"set", "bump"} \/ era'[t][t] > era[t][t]
    PROVE  Fresh(t, e)'
  BY <1>FreshKept, SMT DEF Fresh

\* The eras of a thread that has not just logged or exchanged a count.
<1>EraOwn.
    ASSUME TypeOK, TypeOK', NEW t \in Thread, EraInv(t),
           \A u \in Thread \ {t} : era'[u] = era[u], era'[t][t] >= era[t][t],
           pc[t] \in {"set", "bump"} => era'[t][t] > era[t][t],
           pc'[t] \notin {"cas", "set", "bump"},
           log'[t] = log[t] \/ log'[t].func_id = "none",
           \A o \in Obj : info'[o] = info[o] \/ info'[o].by # t
                          \/ (info'[o].era < era'[t][t])
    PROVE  EraInv(t)'
  <2> USE <1>EraOwn
  <2>0. era[t][t] \in Nat /\ era'[t][t] \in Nat
    <3>1. era \in [Thread -> [Thread -> Nat]]
      BY DEF TypeOK
    <3>2. era' \in [Thread -> [Thread -> Nat]]
      BY DEF TypeOK
    <3>3. era[t] \in [Thread -> Nat] /\ era'[t] \in [Thread -> Nat]
      BY <3>1, <3>2
    <3> QED BY <3>3
  <2>1. \A e \in Nat : Fresh(t, e) => Fresh(t, e)'
    BY <2>0, <1>FreshKept
  <2>2. ASSUME NEW o \in Obj, info'[o].by = t PROVE Fresh(t, info[o].era)'
    <3>1. info[o].era \in Nat /\ info'[o].era \in Nat
      <4>1. info \in [Obj -> Info] /\ info' \in [Obj -> Info]
        BY DEF TypeOK
      <4>2. info[o] \in Info /\ info'[o] \in Info
        BY <4>1
      <4> QED BY <4>2, Records
    <3>2. CASE info'[o] = info[o]
      <4>1. Fresh(t, info[o].era)
        BY <2>2, <3>2 DEF EraInv
      <4>2. info[o].era <= era'[t][t] /\ (info[o].era = era'[t][t] => pc'[t] \in {"set", "bump"})
        BY <2>1, <3>1, <4>1 DEF Fresh
      <4> QED BY <3>2, <4>2 DEF Fresh
    <3>3. CASE info'[o].era < era'[t][t]
      <4>1. info'[o].era <= era'[t][t] /\ info'[o].era # era'[t][t]
        BY <2>0, <3>1, <3>3, SMT
      <4> QED BY <4>1 DEF Fresh
    <3> QED BY <2>2, <3>2, <3>3
  <2>3. ASSUME NEW u \in Thread \ {t} PROVE Fresh(t, era[u][t])'
    <3>1. era[u][t] \in Nat /\ Fresh(t, era[u][t])
      <4>1. era[u] \in [Thread -> Nat]
        BY DEF TypeOK
      <4> QED BY <4>1 DEF EraInv
    <3>2. era[u][t] <= era'[t][t] /\ (era[u][t] = era'[t][t] => pc'[t] \in {"set", "bump"})
      BY <2>1, <3>1 DEF Fresh
    <3> QED BY <3>2 DEF Fresh
  <2>4. log'[t].func_id # "none" => log'[t].refed \in Obj
    BY DEF EraInv
  <2> QED BY <2>2, <2>3, <2>4 DEF EraInv

<1>EraCombine.
    ASSUME TypeOK, TypeOK', NEW t \in Thread, Eras, EraFrame(t), EraInv(t)', era'[t][t] >= 1
    PROVE  Eras'
  <2> USE <1>EraCombine
  <2>1. ASSUME NEW u \in Thread \ {t} PROVE EraInv(u)' /\ era'[u][u] >= 1
    <3>1. EraInv(u) /\ era[u][u] >= 1
      BY DEF Eras
    <3>2. EraInv(u)' /\ era'[u][u] = era[u][u]
      BY <3>1, EraOthers
    <3> QED BY <3>1, <3>2
  <2>2. ASSUME NEW u \in Thread PROVE EraInv(u)' /\ era'[u][u] >= 1
    BY <2>1
  <2> QED BY <2>2 DEF Eras

<1>CalmEra.
    ASSUME TypeOK, TypeOK', NEW t \in Thread, Eras, Calm(t)
    PROVE  Eras'
  <2> USE <1>CalmEra
  <2>1. \A u \in Thread \ {t} : pc'[u] = pc[u] /\ op'[u] = op[u] /\ log'[u] = log[u]
    BY MovesEffect DEF Calm
  <2>2. /\ info' = info /\ era' = era /\ pc[t] \notin {"set", "bump"}
        /\ log' = log \/ log' = [log EXCEPT ![t] = NoLog]
    BY DEF Calm
  <2>3. pc'[t] \notin {"cas", "set", "bump"}
    BY GotoEffect DEF Calm
  <2>4. EraFrame(t)
    BY <2>1, <2>2 DEF EraFrame
  <2>5. log'[t] = log[t] \/ log'[t].func_id = "none"
    <3>1. NoLog.func_id = "none"
      BY SMT DEF NoLog
    <3>2. log \in [Thread -> Log]
      BY DEF TypeOK
    <3> QED BY <2>2, <3>1, <3>2
  <2>6. era'[t][t] >= 1 /\ EraInv(t) /\ era[t][t] \in Nat
    BY <2>2, Locals DEF Eras
  <2>7. era'[t][t] >= era[t][t]
    BY <2>2, <2>6, SMT
  <2>8. EraInv(t)'
    BY <2>2, <2>3, <2>5, <2>6, <2>7, <1>EraOwn
  <2> QED BY <2>4, <2>6, <2>8, <1>EraCombine

\* Whoever frees an object is the last that changed its count.
<1>FreeObjEra.
    ASSUME TypeOK, TypeOK', NEW t \in Thread, Eras, ThreadInv(t), FreeObj(t)
    PROVE  Eras'
  <2> USE <1>FreeObjEra
  <2> USE DEF memory, redo, queue, local, monitor
  <2>1. PICK o : o = op[t].refed
    BY SMT
  <2>2. /\ pc[t] = "free" /\ Goto(t, op[t].then) /\ op' = op /\ era' = era /\ log' = log
        /\ info' = [info EXCEPT ![o] = NoInfo]
    BY <2>1 DEF FreeObj, At
  <2>3. o \in Obj /\ info[o].by = t /\ op[t].then \in {"drop", "advance"}
    BY <2>1, <2>2 DEF ThreadInv, UnlinkInv
  <2>4. info'[o] = NoInfo /\ NoInfo.by = 0 /\ t # 0 /\ \A x \in Obj \ {o} : info'[x] = info[x]
    <3>1. info \in [Obj -> Info]
      BY DEF TypeOK
    <3>2. NoInfo.by = 0 /\ t # 0
      BY ThreadNat, SMT DEF NoInfo
    <3> QED BY <2>2, <2>3, <3>1, <3>2
  <2>5. pc'[t] = op[t].then /\ \A u \in Thread \ {t} : pc'[u] = pc[u]
    BY <2>2, GotoEffect
  <2>6. EraFrame(t)
    <3>1. \A x \in Obj : info'[x] = info[x] \/ (info'[x].by = 0 /\ info[x].by = t)
      BY <2>3, <2>4
    <3> QED BY <2>2, <2>5, <3>1 DEF EraFrame
  <2>7. era'[t][t] >= 1 /\ EraInv(t) /\ era[t][t] \in Nat
    BY <2>2, Locals DEF Eras
  <2>8. era'[t][t] >= era[t][t]
    BY <2>2, <2>7, SMT
  <2>9. \A x \in Obj : info'[x] = info[x] \/ info'[x].by # t
    BY <2>4
  <2>10. EraInv(t)'
    BY <2>2, <2>3, <2>5, <2>7, <2>8, <2>9, <1>EraOwn
  <2> QED BY <2>6, <2>7, <2>10, <1>EraCombine

<1>SetInfoEra.
    ASSUME TypeOK, TypeOK', NEW t \in Thread, Eras, ThreadInv(t), SetInfo(t)
    PROVE  Eras'
  <2> USE <1>SetInfoEra
  <2> USE DEF memory, redo, queue, local, monitor
  <2>1. PICK o : o = op[t].refed
    BY SMT
  <2> DEFINE new == [by |-> t, cnt |-> 1, era |-> era[t][t] - 1]
  <2>2. /\ pc[t] = "info" /\ Goto(t, "idle") /\ op' = [op EXCEPT ![t] = NoOp]
        /\ era' = era /\ log' = log /\ info' = [info EXCEPT ![o] = new]
    BY <2>1 DEF SetInfo, At
  <2>3. o \in Obj /\ info[o] = NoInfo
    BY <2>1, <2>2 DEF ThreadInv, BirthInv
  <2>4. era'[t][t] >= 1 /\ EraInv(t) /\ era[t][t] \in Nat
    BY <2>2, Locals DEF Eras
  <2>5. new.by = t /\ new.era < era[t][t]
    BY <2>4, SMT
  <2> HIDE DEF new
  <2>6. info'[o] = new /\ \A x \in Obj \ {o} : info'[x] = info[x]
    <3>1. info \in [Obj -> Info]
      BY DEF TypeOK
    <3> QED BY <2>2, <2>3, <3>1
  <2>7. pc'[t] = "idle" /\ \A u \in Thread \ {t} : pc'[u] = pc[u] /\ op'[u] = op[u]
    <3>1. op \in [Thread -> Op]
      BY DEF TypeOK
    <3> QED BY <2>2, <3>1, GotoEffect
  <2>8. EraFrame(t)
    <3>1. NoInfo.by = 0
      BY SMT DEF NoInfo
    <3>2. \A u \in Thread : u # 0
      BY ThreadNat
    <3>3. \A x \in Obj : info'[x] = info[x] \/ (info'[x].by = t /\ info[x].by = 0)
      BY <2>3, <2>5, <2>6, <3>1
    <3> QED BY <2>2, <2>7, <3>2, <3>3 DEF EraFrame
  <2>9. era'[t][t] >= era[t][t]
    BY <2>2, <2>4, SMT
  <2>10. \A x \in Obj : info'[x] = info[x] \/ info'[x].era < era'[t][t]
    BY <2>2, <2>5, <2>6
  <2>11. EraInv(t)'
    BY <2>2, <2>4, <2>7, <2>9, <2>10, <1>EraOwn
  <2> QED BY <2>4, <2>8, <2>11, <1>EraCombine

<1>NextEra.
    ASSUME TypeOK, TypeOK', NEW t \in Thread, Eras, TakeBlock(t) \/ BumpEra(t)
    PROVE  Eras'
  <2> USE <1>NextEra
  <2> USE DEF memory, redo, queue, local, monitor
  <2>1. /\ info' = info /\ op' = op /\ log' = log /\ era' = [era EXCEPT ![t][t] = @ + 1]
        /\ \E s : s \in {"info", "free", op[t].then} /\ Goto(t, s)
    BY DEF TakeBlock, BumpEra
  <2>2. pc'[t] \notin {"cas", "set", "bump"} /\ \A u \in Thread \ {t} : pc'[u] = pc[u]
    <3>1. op[t].then \in {"idle", "drop", "sent", "received", "advance"}
      BY Locals
    <3> QED BY <2>1, <3>1, GotoEffect
  <2>3. /\ era'[t][t] = era[t][t] + 1 /\ era[t][t] \in Nat
        /\ \A u \in Thread \ {t} : era'[u] = era[u] /\ era'[t][u] = era[t][u]
    <3>1. era \in [Thread -> [Thread -> Nat]] /\ era[t] \in [Thread -> Nat] /\ era[t][t] \in Nat
      BY Locals DEF TypeOK
    <3> QED BY <2>1, <3>1
  <2>4. EraFrame(t)
    BY <2>1, <2>2, <2>3 DEF EraFrame
  <2>5. era'[t][t] >= 1 /\ era'[t][t] >= era[t][t] /\ era'[t][t] > era[t][t]
    BY <2>3, SMT
  <2>6. EraInv(t)'
    <3>1. EraInv(t)
      BY DEF Eras
    <3> QED BY <2>1, <2>2, <2>3, <2>5, <3>1, <1>EraOwn
  <2> QED BY <2>4, <2>5, <2>6, <1>EraCombine

\* Before a thread exchanges a count it has noted the era it is to replace.
<1>WriteLogEra.
    ASSUME TypeOK, TypeOK', NEW t \in Thread, Eras, ThreadInv(t), WriteLog(t)
    PROVE  Eras'
  <2> USE <1>WriteLogEra
  <2> USE DEF memory, redo, queue, local, monitor
  <2>1. PICK saw : saw = info[op[t].refed]
    BY SMT
  <2> DEFINE new == [func_id |-> op[t].func_id, cnt |-> saw.cnt, era |-> era[t][t],
                     ref |-> op[t].ref, refed |-> op[t].refed]
  <2>2. /\ pc[t] = "log" /\ Goto(t, "cas") /\ info' = info
        /\ op' = [op EXCEPT ![t].saw = saw] /\ log' = [log EXCEPT ![t] = new]
        /\ era' = IF saw.by \in Thread THEN [era EXCEPT ![t][saw.by] = Newer(@, saw.era)] ELSE era
    BY <2>1 DEF WriteLog, At
  <2>3. op[t].refed \in Obj /\ op[t].func_id \in {"link", "unlink"}
    BY <2>2 DEF ThreadInv, LinkInv, UnlinkInv
  <2>4. new.func_id = op[t].func_id /\ new.refed = op[t].refed /\ new.era = era[t][t]
    BY SMT
  <2> HIDE DEF new
  <2>5. /\ pc'[t] = "cas" /\ log'[t] = new /\ op'[t] = [op[t] EXCEPT !.saw = saw]
        /\ \A u \in Thread \ {t} : pc'[u] = pc[u] /\ op'[u] = op[u] /\ log'[u] = log[u]
    <3>1. op \in [Thread -> Op] /\ log \in [Thread -> Log]
      BY DEF TypeOK
    <3> QED BY <2>2, <3>1, GotoEffect
  <2>6. op'[t].refed = op[t].refed /\ op'[t].func_id = op[t].func_id /\ op'[t].saw = saw
    BY <2>5, Locals, SMT DEF Op
  <2>7. saw.era \in Nat /\ era[t][t] \in Nat /\ EraInv(t) /\ \A u \in Thread : era[t][u] \in Nat
    <3>1. era[t] \in [Thread -> Nat]
      BY Locals
    <3> QED BY <2>1, <2>3, <3>1, Locals DEF Eras
  <2>8. /\ \A u \in Thread \ {t} : era'[u] = era[u]
        /\ \A u \in Thread : era'[t][u] = IF u = saw.by THEN Newer(era[t][u], saw.era) ELSE era[t][u]
    <3>1. era \in [Thread -> [Thread -> Nat]] /\ era[t] \in [Thread -> Nat]
      BY Locals DEF TypeOK
    <3>2. CASE saw.by \in Thread
      <4>1. era' = [era EXCEPT ![t] = [era[t] EXCEPT ![saw.by] = Newer(era[t][saw.by], saw.era)]]
        BY <2>2, <3>2
      <4>2. era'[t] = [era[t] EXCEPT ![saw.by] = Newer(era[t][saw.by], saw.era)]
            /\ \A u \in Thread \ {t} : era'[u] = era[u]
        BY <3>1, <4>1
      <4> QED BY <3>1, <3>2, <4>2
    <3>3. CASE saw.by \notin Thread
      BY <2>2, <3>3
    <3> QED BY <3>2, <3>3
  <2>9. era'[t][t] = era[t][t]
    <3>1. CASE saw.by = t
      <4>1. saw.era <= era[t][t]
        BY <2>1, <2>3, <2>7, <3>1 DEF EraInv, Fresh
      <4>2. Newer(era[t][t], saw.era) = era[t][t]
        BY <2>7, <4>1, SMT DEF Newer
      <4> QED BY <2>8, <3>1, <4>2
    <3>2. CASE saw.by # t
      BY <2>8, <3>2
    <3> QED BY <3>1, <3>2
  <2>10. ASSUME NEW u \in Thread \ {t}
         PROVE  \/ era'[t][u] = era[t][u]
                \/ saw.by = u /\ era[t][u] <= era'[t][u] /\ era'[t][u] = saw.era
    <3>1. era[t][u] \in Nat
      BY <2>7
    <3>2. CASE saw.by = u
      <4>1. era'[t][u] = Newer(era[t][u], saw.era)
        BY <2>8, <3>2
      <4>2. era'[t][u] = era[t][u] \/ (era[t][u] <= era'[t][u] /\ era'[t][u] = saw.era)
        BY <2>7, <3>1, <4>1, SMT DEF Newer
      <4> QED BY <3>2, <4>2
    <3>3. CASE saw.by # u
      BY <2>8, <3>3
    <3> QED BY <3>2, <3>3
  <2>11. EraFrame(t)
    <3>1. \A u \in Thread \ {t} :
             pc'[u] = pc[u] /\ op'[u] = op[u] /\ log'[u] = log[u] /\ era'[u] = era[u]
      BY <2>5, <2>8
    <3>2. ASSUME NEW u \in Thread \ {t}
          PROVE  \/ era'[t][u] = era[t][u]
                 \/ era[t][u] <= era'[t][u] /\ \E o \in Obj : info[o].by = u /\ era'[t][u] = info[o].era
      BY <2>1, <2>3, <2>10
    <3> QED BY <2>2, <3>1, <3>2 DEF EraFrame
  <2>12. ASSUME NEW o \in Obj, info'[o].by = t PROVE Fresh(t, info[o].era)'
    <3>1. Fresh(t, info[o].era)
      BY <2>2, <2>7, <2>12 DEF EraInv
    <3> QED BY <2>2, <2>9, <3>1 DEF Fresh
  <2>13. ASSUME NEW u \in Thread \ {t} PROVE Fresh(t, era[u][t])'
    <3>1. Fresh(t, era[u][t]) /\ era'[u] = era[u]
      BY <2>7, <2>8 DEF EraInv
    <3> QED BY <2>2, <2>9, <3>1 DEF Fresh
  <2>14. saw.by \in Thread => era'[t][saw.by] >= saw.era
    <3> SUFFICES ASSUME saw.by \in Thread PROVE era'[t][saw.by] >= saw.era
      BY SMT
    <3>1. era'[t][saw.by] = Newer(era[t][saw.by], saw.era) /\ era[t][saw.by] \in Nat
      BY <2>7, <2>8
    <3> QED BY <2>7, <3>1, SMT DEF Newer
  <2>15. EraInv(t)'
    BY <2>3, <2>4, <2>5, <2>6, <2>9, <2>12, <2>13, <2>14 DEF EraInv
  <2>16. era'[t][t] >= 1
    BY <2>9 DEF Eras
  <2> QED BY <2>11, <2>15, <2>16, <1>EraCombine

<1>ExchangeEra.
    ASSUME TypeOK, TypeOK', NEW t \in Thread, Eras, op[t].refed \in Obj, Exchange(t)
    PROVE  Eras'
  <2> USE <1>ExchangeEra
  <2> USE DEF memory, redo, queue, local, monitor
  <2>1. PICK o \in Obj : o = op[t].refed
    OBVIOUS
  <2> DEFINE step == IF op[t].func_id = "link" THEN 1 ELSE -1
             new == [by |-> t, cnt |-> info[o].cnt + step, era |-> era[t][t]]
  <2>2. /\ pc[t] = "cas" /\ op' = op /\ era' = era /\ log' = log
        /\ \/ info[o] = op[t].saw /\ info' = [info EXCEPT ![o] = new] /\ Goto(t, "set")
           \/ Goto(t, "log") /\ info' = info
    BY <2>1 DEF Exchange, At
  <2>3. CASE Goto(t, "log") /\ info' = info
    <3>1. Calm(t)
      BY <2>2, <2>3 DEF Calm, Moves
    <3> QED BY <3>1, <1>CalmEra
  <2>4. CASE info[o] = op[t].saw /\ info' = [info EXCEPT ![o] = new] /\ Goto(t, "set")
    <3>1. new.by = t /\ new.era = era[t][t]
      BY SMT
    <3> HIDE DEF new
    <3>2. info'[o] = new /\ \A x \in Obj \ {o} : info'[x] = info[x]
      <4>1. info \in [Obj -> Info]
        BY DEF TypeOK
      <4> QED BY <2>4, <4>1
    <3>3. pc'[t] = "set" /\ \A u \in Thread \ {t} : pc'[u] = pc[u]
      BY <2>4, GotoEffect
    <3>4. EraInv(t) /\ era[t][t] >= 1 /\ era[t][t] \in Nat
      BY Locals DEF Eras
    <3>5. \A u \in Thread \ {t} : info[o].by = u => era'[t][u] >= info[o].era
      <4>1. op[t].saw.by \in Thread => era[t][op[t].saw.by] >= op[t].saw.era
        BY <2>2, <3>4 DEF EraInv
      <4> QED BY <2>2, <2>4, <4>1
    <3>6. EraFrame(t)
      <4>1. ASSUME NEW x \in Obj
            PROVE  \/ info'[x] = info[x]
                   \/ /\ info'[x].by \in {0, t}
                      /\ \A u \in Thread \ {t} : info[x].by = u => era'[t][u] >= info[x].era
        <5>1. CASE x = o
          BY <3>1, <3>2, <3>5, <5>1
        <5> QED BY <3>2, <5>1
      <4> QED BY <2>2, <3>3, <4>1 DEF EraFrame
    <3>7. ASSUME NEW x \in Obj, info'[x].by = t PROVE Fresh(t, info[x].era)'
      <4>1. CASE x = o
        <5>1. info'[x].era = era[t][t] /\ info'[x].era <= era[t][t]
          BY <3>1, <3>2, <3>4, <4>1, SMT
        <5> QED BY <2>2, <3>3, <5>1 DEF Fresh
      <4>2. CASE x # o
        <5>1. Fresh(t, info[x].era) /\ info'[x] = info[x]
          BY <3>2, <3>4, <3>7, <4>2 DEF EraInv
        <5> QED BY <2>2, <3>3, <5>1 DEF Fresh
      <4> QED BY <4>1, <4>2
    <3>8. ASSUME NEW u \in Thread \ {t} PROVE Fresh(t, era[u][t])'
      <4>1. Fresh(t, era[u][t])
        BY <3>4 DEF EraInv
      <4> QED BY <2>2, <3>3, <4>1 DEF Fresh
    <3>9. Noted(t)'
      BY <2>1, <2>2, <3>1, <3>2 DEF Noted
    <3>10. EraInv(t)'
      BY <2>2, <3>3, <3>4, <3>7, <3>8, <3>9 DEF EraInv
    <3> QED BY <2>2, <3>4, <3>6, <3>10, <1>EraCombine
  <2> QED BY <2>2, <2>3, <2>4

<1>SetRefEra.
    ASSUME TypeOK, TypeOK', NEW t \in Thread, Eras, SetRef(t)
    PROVE  Eras'
  <2> USE <1>SetRefEra
  <2> USE DEF memory, redo, queue, local, monitor
  <2>1. pc[t] = "set" /\ op' = op /\ era' = era /\ log' = log /\ info' = info /\ Goto(t, "bump")
    BY DEF SetRef, At
  <2>2. pc'[t] = "bump" /\ \A u \in Thread \ {t} : pc'[u] = pc[u]
    BY <2>1, GotoEffect
  <2>3. EraFrame(t)
    BY <2>1, <2>2 DEF EraFrame
  <2>4. EraInv(t) /\ era[t][t] >= 1
    BY DEF Eras
  <2>5. \A e : Fresh(t, e) => e <= era'[t][t] /\ (e = era'[t][t] => pc'[t] \in {"set", "bump"})
    BY <2>1, <2>2 DEF Fresh
  <2>6. \A o \in Obj : info'[o].by = t => Fresh(t, info[o].era)'
    BY <2>1, <2>4, <2>5 DEF EraInv, Fresh
  <2>7. \A u \in Thread \ {t} : Fresh(t, era[u][t])'
    BY <2>1, <2>4, <2>5 DEF EraInv, Fresh
  <2>8. Noted(t)'
    BY <2>1, <2>4 DEF EraInv, Noted
  <2>9. EraInv(t)'
    BY <2>1, <2>2, <2>4, <2>6, <2>7, <2>8 DEF EraInv
  <2> QED BY <2>1, <2>3, <2>4, <2>9, <1>EraCombine
<1> SUFFICES ASSUME TypeOK, TypeOK', NEW t \in Thread, RefInv, Eras, Step(t)
             PROVE  Eras'
  OBVIOUS
<1>1. ThreadInv(t)
  BY DEF RefInv
<1>2. ASSUME Exchange(t) PROVE Eras'
  <2>1. pc[t] = "cas"
    BY <1>2 DEF Exchange, At
  <2> QED BY <1>2, <2>1, Alive, <1>ExchangeEra
<1>3. ASSUME \/ \E r \in RootPage(t) : Malloc(t, r) \/ Drop(t, r) \/ Send(t, r) \/ Unwrap(t, r)
             \/ \E o \in Obj : LinkBlock(t, o)
             \/ CreateQueue(t) \/ ListQueue(t) \/ Register(t) \/ SetReceiver(t) \/ UnwrapEmpty(t)
             \/ FreeRoot(t) \/ Sent(t) \/ Received(t) \/ Advance(t)
      PROVE  Eras'
  BY <1>3, CalmSteps, <1>CalmEra
<1> QED BY <1>1, <1>2, <1>3, <1>FreeObjEra, <1>SetInfoEra, <1>NextEra, <1>WriteLogEra, <1>SetRefEra
           DEF Step

\* Whoever steps or exits does so before the monitor starts.
LEMMA Waiting ==
  ASSUME IInv, mon[2] = "wait"
  PROVE  TypeOK /\ RefInv /\ Eras /\ mon[1] = 0
<1>1. mon[1] = 0
  BY DEF IInv, MonInv
<1>2. ASSUME NEW t \in Thread PROVE Pending(t)
  <2>1. 0 <= t /\ 0 # t
    BY ThreadNat, SMT
  <2> QED BY <1>1, <2>1 DEF Pending
<1> QED BY <1>1, <1>2 DEF IInv, Eras

-----------------------------------------------------------------------------

\* The slots the monitor goes through are slots of the buffer.
LEMMA SlotLists ==
  ASSUME TypeOK
  PROVE  /\ SenderSlots \in Seq(Cell) /\ ReceiverSlots \in Seq(Cell) /\ <<>> \in Seq(Cell)
         /\ SlotsFrom(end, ((start - end - 1) % Slots) + 1) \in Seq(Cell)
<1>1. ASSUME NEW i \in Int, NEW n \in Nat PROVE SlotsFrom(i, n) \in Seq(Cell)
  <2>1. \A k \in 1 .. n : (i + k - 1) % Slots \in 0 .. Slots - 1
    BY Numbers, SMT
  <2>2. \A k \in 1 .. n : Slot((i + k - 1) % Slots) \in Cell
    BY <2>1, SlotCells
  <2>3. SlotsFrom(i, n) \in [1 .. n -> Cell]
    BY <2>2 DEF SlotsFrom
  <2> QED BY <2>3, SMT
<1>2. /\ end \in Int /\ start \in Int /\ (end - start) % Slots \in Nat
      /\ ((start - end - 1) % Slots) + 1 \in Nat
  BY Numbers, SMT DEF TypeOK
<1>3. <<>> \in Seq(Cell)
  BY SMT
<1>4. \A s1, s2 \in Seq(Cell) : s1 \o s2 \in Seq(Cell)
  BY SMT
<1>5. /\ SlotsFrom(end, ((start - end - 1) % Slots) + 1) \in Seq(Cell)
      /\ SlotsFrom(start, (end - start) % Slots) \in Seq(Cell)
  BY <1>1, <1>2
<1>6. SenderSlots \in Seq(Cell)
  BY <1>3, <1>4, <1>5 DEF SenderSlots
<1> QED BY <1>3, <1>5, <1>6 DEF ReceiverSlots

\* What the release of one cell on behalf of t does.
LEMMA TestFreeEffect ==
  ASSUME TypeOK, NEW t \in Thread, NEW c \in Cell, TestFree(t, c), era[t][t] >= 1
  PROVE  /\ info' \in [Obj -> Info] /\ blk' \in [Obj -> {"free", "taken", "local", "remote"}]
         /\ cell' \in [Cell -> Obj \cup {None}] /\ era' \in [Thread -> [Thread -> Nat]]
         /\ era'[t][t] >= 1 /\ \A u \in Thread \ {t} : era'[u] = era[u]
         /\ \A u \in Thread \ {t} :
              \/ era'[t][u] = era[t][u]
              \/ /\ era[t][u] <= era'[t][u]
                 /\ \E o \in Obj : info[o].by = u /\ era'[t][u] = info[o].era
         /\ \A o \in Obj :
              \/ info'[o] = info[o]
              \/ /\ info'[o].by \in {0, t}
                 /\ \A u \in Thread \ {t} : info[o].by = u => era'[t][u] >= info[o].era
<1>0. /\ info \in [Obj -> Info] /\ blk \in [Obj -> {"free", "taken", "local", "remote"}]
      /\ cell \in [Cell -> Obj \cup {None}] /\ era \in [Thread -> [Thread -> Nat]]
  BY DEF TypeOK
<1>1. CASE UNCHANGED <<info, blk, cell, era>>
  BY <1>0, <1>1
<1>2. CASE ~UNCHANGED <<info, blk, cell, era>>
  <2>1. PICK o : o = cell[c]
    BY SMT
  <2>2. /\ o # None /\ info[o].cnt # 0
        /\ info' = [info EXCEPT ![o] = IF info[o].cnt = 1 THEN NoInfo
                                       ELSE [by |-> t, cnt |-> info[o].cnt - 1, era |-> era[t][t]]]
        /\ blk' = blk \/ blk' = [blk EXCEPT ![o] = "remote"]
        /\ cell' = [cell EXCEPT ![c] = None]
        /\ era' = [era EXCEPT ![t][info[o].by] = Newer(@, info[o].era), ![t][t] = @ + 1]
    BY <1>2, <2>1 DEF TestFree
  <2>3. o \in Obj
    BY <1>0, <2>1, <2>2
  <2>4. info[o] \in Info /\ info[o].cnt \in Nat /\ info[o].era \in Nat /\ era[t][t] \in Nat
        /\ era[t] \in [Thread -> Nat]
    BY <2>3, Locals
  <2> DEFINE less == IF info[o].cnt = 1 THEN NoInfo
                     ELSE [by |-> t, cnt |-> info[o].cnt - 1, era |-> era[t][t]]
             seen == [era[t] EXCEPT ![info[o].by] = Newer(era[t][info[o].by], info[o].era)]
  <2>5. less \in Info /\ less.by \in {0, t}
    <3>1. NoInfo \in Info /\ NoInfo.by = 0
      BY Records, SMT DEF NoInfo
    <3>2. info[o].cnt # 1 => [by |-> t, cnt |-> info[o].cnt - 1, era |-> era[t][t]] \in Info
      BY <2>2, <2>4, ThreadNat, SMT DEF Info
    <3> QED BY <3>1, <3>2, SMT
  <2>6. info' = [info EXCEPT ![o] = less]
    BY <2>2
  <2> HIDE DEF less
  <2>7. info' \in [Obj -> Info] /\ info'[o] = less /\ \A x \in Obj \ {o} : info'[x] = info[x]
    BY <1>0, <2>3, <2>5, <2>6
  <2>8. /\ seen \in [Thread -> Nat]
        /\ \A u \in Thread : /\ seen[u] = era[t][u] \/ (info[o].by = u /\ seen[u] = info[o].era)
                             /\ era[t][u] <= seen[u] /\ (info[o].by = u => seen[u] >= info[o].era)
    <3>1. ASSUME NEW a \in Nat, NEW b \in Nat
          PROVE  Newer(a, b) \in Nat /\ Newer(a, b) \in {a, b} /\ a <= Newer(a, b) /\ Newer(a, b) >= b
      BY SMT DEF Newer
    <3>2. ASSUME NEW u \in Thread
          PROVE  /\ seen[u] = era[t][u] \/ (info[o].by = u /\ seen[u] = info[o].era)
                 /\ era[t][u] <= seen[u] /\ (info[o].by = u => seen[u] >= info[o].era)
      <4>1. era[t][u] \in Nat /\ era[t][u] <= era[t][u]
        BY <2>4, SMT
      <4>2. CASE info[o].by = u
        BY <2>4, <3>1, <4>1, <4>2
      <4>3. CASE info[o].by # u
        BY <2>4, <4>1, <4>3
      <4> QED BY <4>2, <4>3
    <3>3. seen \in [Thread -> Nat]
      <4>1. \A u \in Thread : seen[u] \in Nat
        <5>1. ASSUME NEW u \in Thread PROVE seen[u] \in Nat
          <6>1. era[t][u] \in Nat
            BY <2>4
          <6> QED BY <2>4, <3>2, <6>1
        <5> QED BY <5>1
      <4> QED BY <2>4, <4>1
    <3> QED BY <3>2, <3>3
  <2>9. era' = [era EXCEPT ![t] = [seen EXCEPT ![t] = seen[t] + 1]]
    BY <1>0, <2>2, <2>4, SMTT(30)
  <2> HIDE DEF seen
  <2>10. seen[t] \in Nat /\ seen[t] + 1 \in Nat /\ seen[t] + 1 >= 1
    BY <2>8, SMT
  <2>11. /\ era'[t] = [seen EXCEPT ![t] = seen[t] + 1]
         /\ \A u \in Thread \ {t} : era'[u] = era[u]
    BY <1>0, <2>9
  <2>12. era'[t] \in [Thread -> Nat] /\ era'[t][t] = seen[t] + 1
         /\ \A u \in Thread \ {t} : era'[t][u] = seen[u]
    BY <2>8, <2>10, <2>11
  <2>13. era' \in [Thread -> [Thread -> Nat]]
    BY <1>0, <2>9, <2>11, <2>12
  <2>14. /\ blk' \in [Obj -> {"free", "taken", "local", "remote"}]
         /\ cell' \in [Cell -> Obj \cup {None}]
    BY <1>0, <2>2
  <2>15. ASSUME NEW u \in Thread \ {t}
         PROVE  \/ era'[t][u] = era[t][u]
                \/ /\ era[t][u] <= era'[t][u]
                   /\ \E x \in Obj : info[x].by = u /\ era'[t][u] = info[x].era
    BY <2>3, <2>8, <2>12
  <2>16. ASSUME NEW x \in Obj
         PROVE  \/ info'[x] = info[x]
                \/ /\ info'[x].by \in {0, t}
                   /\ \A u \in Thread \ {t} : info[x].by = u => era'[t][u] >= info[x].era
    <3>1. CASE x = o
      BY <2>5, <2>7, <2>8, <2>12, <3>1
    <3> QED BY <2>7, <3>1
  <2>17. era'[t][t] >= 1
    BY <2>10, <2>12
  <2> QED BY <2>7, <2>11, <2>13, <2>14, <2>15, <2>16, <2>17
<1> QED BY <1>1, <1>2

\* The cells that are left to the monitor.
LEMMA Taken ==
  ASSUME TypeOK, todo # <<>>
  PROVE  Head(todo) \in Cell /\ Tail(todo) \in Seq(Cell)
<1>1. todo \in Seq(Cell)
  BY DEF TypeOK
<1> QED BY <1>1, SMT

\* Every step, of a thread or of the monitor, keeps the inductive invariant.
LEMMA NextIInv ==
  IInv /\ [Next]_vars => IInv'
<1>StepIInv.
    ASSUME IInv, NEW t \in Thread, Step(t)
    PROVE  IInv'
  <2> USE <1>StepIInv
  <2> USE DEF memory, redo, queue, local, monitor
  <2>1. t \notin dead /\ mon' = mon /\ dead' = dead
    BY DEF Step, Malloc, Drop, Send, Unwrap, LinkBlock, TakeBlock, SetInfo, WriteLog, Exchange,
       SetRef, BumpEra, FreeObj, FreeRoot, CreateQueue, ListQueue, Sent, Register, SetReceiver,
       UnwrapEmpty, Received, Advance, Unwrapping, Call, At
  <2>2. mon[2] = "wait" /\ MonInv
    BY <2>1 DEF IInv, MonInv
  <2>3. TypeOK /\ RefInv /\ Eras
    BY <2>2, Waiting
  <2>4. TypeOK'
    <3>1. ThreadInv(t) /\ era[t][t] >= 1
      BY <2>3 DEF RefInv, Eras
    <3> QED BY <2>3, <3>1, Alive, TypeStep
  <2>5. RefInv'
    BY <2>3, StepRef
  <2>6. Eras'
    BY <2>3, <2>4, StepEra
  <2>7. MonInv'
    BY <2>1, <2>2 DEF MonInv
  <2> QED BY <2>4, <2>5, <2>6, <2>7 DEF IInv, Eras

\* What is known of the eras, when nothing they are compared with changes.
<1>EraSame.
    ASSUME NEW t \in Thread, info' = info, era' = era, log' = log, pc' = pc, op' = op, EraInv(t)
    PROVE  EraInv(t)'
  <2> USE <1>EraSame
  <2>1. \A o \in Obj : info'[o].by = t => Fresh(t, info[o].era)'
    BY DEF EraInv, Fresh
  <2>2. \A u \in Thread \ {t} : Fresh(t, era[u][t])'
    BY DEF EraInv, Fresh
  <2>3. pc'[t] \in {"set", "bump"} => Noted(t)'
    BY DEF EraInv, Noted
  <2> QED BY <2>1, <2>2, <2>3 DEF EraInv

\* What is known of the references, when none changes.
<1>RefSame.
    ASSUME TypeOK, RefInv, UNCHANGED <<memory, start, end, local>>
    PROVE  RefInv'
  <2> USE <1>RefSame
  <2> USE DEF memory, local
  <2>1. ASSUME NEW u \in Thread PROVE ThreadInv(u)' /\ RootInv(u)'
    <3>1. Kept(u)
      BY DEF Kept, Full
    <3>2. ThreadInv(u) /\ RootInv(u)
      BY DEF RefInv
    <3> QED BY <3>1, <3>2, KeptInv
  <2>2. SlotInv'
    <3>1. SlotInv
      BY DEF RefInv
    <3> QED BY <3>1 DEF SlotInv, Slot, InRing
  <2>3. BlockInv'
    BY DEF BlockInv, RefInv
  <2>4. CountInv'
    <3>1. ASSUME NEW o \in Obj PROVE Held(o)' = Held(o)
      BY DEF Held, Has, Early, Late
    <3>2. ASSUME NEW o \in Obj PROVE info'[o].cnt = Cardinality(Held(o)')
      BY <3>1 DEF CountInv, RefInv
    <3> QED BY <3>2 DEF CountInv
  <2>5. Counting
    BY DEF RefInv
  <2>6. Counting'
    BY <2>5 DEF Counting
  <2> QED BY <2>1, <2>2, <2>3, <2>4, <2>6 DEF RefInv

<1>ExitIInv.
    ASSUME IInv, NEW t \in Thread, Exit(t)
    PROVE  IInv'
  <2> USE <1>ExitIInv
  <2> USE DEF memory, redo, queue, local
  <2>1. t \notin dead /\ dead' = dead \cup {t}
        /\ UNCHANGED <<memory, redo, queue, local, mon, todo, seg>>
    BY DEF Exit
  <2>2. mon[2] = "wait" /\ MonInv
    BY <2>1 DEF IInv, MonInv
  <2>3. TypeOK /\ RefInv /\ Eras
    BY <2>2, Waiting
  <2>4. TypeOK'
    BY <2>1, <2>3 DEF TypeOK
  <2>5. RefInv'
    BY <2>1, <2>3, <1>RefSame
  <2>6. ASSUME NEW u \in Thread PROVE era'[u][u] >= 1 /\ EraInv(u)'
    BY <2>1, <2>3, <1>EraSame DEF Eras
  <2>7. MonInv'
    BY <2>1, <2>2 DEF MonInv
  <2> QED BY <2>4, <2>5, <2>6, <2>7 DEF IInv

<1>StutterIInv.
    ASSUME IInv, UNCHANGED vars
    PROVE  IInv'
  <2> USE <1>StutterIInv
  <2>1. /\ UNCHANGED <<memory, start, end, local>>
        /\ info' = info /\ era' = era /\ log' = log /\ pc' = pc /\ op' = op
        /\ mon' = mon /\ dead' = dead
    BY DEF vars, memory, redo, queue, local, monitor
  <2>2. TypeOK /\ MonInv
    BY DEF IInv
  <2>3. TypeOK'
    BY <2>2 DEF TypeOK, vars, memory, redo, queue, local, monitor
  <2>4. MonInv'
    BY <2>1, <2>2 DEF MonInv
  <2>5. mon[2] = "wait" => RefInv'
    BY <2>1, <2>2, <1>RefSame DEF IInv
  <2>6. ASSUME NEW t \in Thread PROVE era'[t][t] >= 1 /\ (Pending(t)' => EraInv(t)')
    <3>1. Pending(t)' <=> Pending(t)
      BY <2>1 DEF Pending
    <3> QED BY <2>1, <3>1, <1>EraSame DEF IInv
  <2> QED BY <2>1, <2>3, <2>4, <2>5, <2>6 DEF IInv

\* A step of the monitor that does not touch counts, eras or logs.
<1>MonitorIInv.
    ASSUME IInv, TypeOK', dead = Thread, dead' = dead,
           info' = info, era' = era, log' = log, pc' = pc, op' = op, mon'[2] # "wait",
           \A t \in Thread : Pending(t)' => Pending(t)
    PROVE  IInv'
  <2> USE <1>MonitorIInv
  <2>1. MonInv'
    BY DEF MonInv
  <2>2. ASSUME NEW t \in Thread PROVE era'[t][t] >= 1 /\ (Pending(t)' => EraInv(t)')
    BY <1>EraSame DEF IInv
  <2> QED BY <2>1, <2>2 DEF IInv

<1>RedoIInv.
    ASSUME IInv, NEW t \in Thread, Redo(t)
    PROVE  IInv'
  <2> USE <1>RedoIInv
  <2> USE DEF memory, redo, queue, local
  <2>1. /\ dead = Thread /\ mon = <<t, "redo">> /\ mon' = <<t, "roots">>
        /\ todo' = [k \in 1 .. Roots |-> <<t, k>>]
        /\ cell' = cell \/ (/\ log[t].func_id # "none"
                            /\ cell' = [cell EXCEPT ![log[t].ref] =
                                          IF log[t].func_id = "link" THEN log[t].refed ELSE None])
        /\ UNCHANGED <<info, blk, root, redo, queue, local, dead, seg>>
    BY DEF Redo, Monitor
  <2>2. TypeOK
    BY DEF IInv
  <2>3. TypeOK'
    <3>1. log[t].refed \in Obj \cup {None}
      <4>1. log[t] \in Log
        BY <2>2, Locals
      <4> QED BY <4>1, SMT DEF Log
    <3>2. cell' \in [Cell -> Obj \cup {None}]
      <4>1. cell \in [Cell -> Obj \cup {None}]
        BY <2>2 DEF TypeOK
      <4> QED BY <2>1, <3>1, <4>1
    <3>3. todo' \in Seq(Cell)
      <4>1. \A k \in 1 .. Roots : <<t, k>> \in Cell
        BY SMT DEF Cell, Root
      <4>2. todo' \in [1 .. Roots -> Cell]
        BY <2>1, <4>1
      <4> QED BY <4>2, Numbers, SMT
    <3>4. mon' \in (0 .. Threads + 1) \X {"wait", "redo", "roots", "slots", "sweep", "done"}
      BY <2>1, ThreadNat, Numbers, SMT
    <3> QED BY <2>1, <2>2, <3>2, <3>3, <3>4 DEF TypeOK
  <2>4. mon[1] = t /\ mon[2] = "redo" /\ mon'[1] = t /\ mon'[2] = "roots"
    BY <2>1, Pair
  <2>5. \A u \in Thread : Pending(u)' => Pending(u)
    BY <2>4 DEF Pending
  <2> QED BY <2>1, <2>3, <2>4, <2>5, <1>MonitorIInv

<1>RootsDoneIInv.
    ASSUME IInv, NEW t \in Thread, RootsDone(t)
    PROVE  IInv'
  <2> USE <1>RootsDoneIInv
  <2> USE DEF memory, redo, queue, local
  <2>1. /\ dead = Thread /\ mon = <<t, "roots">> /\ mon' = <<t, "slots">>
        /\ todo' = (IF t \in listed /\ t = Sender THEN SenderSlots ELSE <<>>)
                      \o (IF t \in listed /\ t = Receiver THEN ReceiverSlots ELSE <<>>)
        /\ UNCHANGED <<memory, redo, queue, local, dead, seg>>
    BY DEF RootsDone, Monitor
  <2>2. TypeOK
    BY DEF IInv
  <2>3. TypeOK'
    <3>1. todo' \in Seq(Cell)
      <4>1. \A s1, s2 \in Seq(Cell) : s1 \o s2 \in Seq(Cell)
        BY SMT
      <4> QED BY <2>1, <2>2, <4>1, SlotLists
    <3>2. mon' \in (0 .. Threads + 1) \X {"wait", "redo", "roots", "slots", "sweep", "done"}
      BY <2>1, ThreadNat, Numbers, SMT
    <3> QED BY <2>1, <2>2, <3>1, <3>2 DEF TypeOK
  <2>4. mon[1] = t /\ mon[2] = "roots" /\ mon'[1] = t /\ mon'[2] = "slots"
    BY <2>1, Pair
  <2>5. \A u \in Thread : Pending(u)' => Pending(u)
    BY <2>4 DEF Pending
  <2> QED BY <2>1, <2>3, <2>4, <2>5, <1>MonitorIInv

<1>RecoverPagesIInv.
    ASSUME IInv, NEW t \in Thread, RecoverPages(t)
    PROVE  IInv'
  <2> USE <1>RecoverPagesIInv
  <2> USE DEF memory, redo, queue, local
  <2>1. /\ dead = Thread /\ mon = <<t, "slots">>
        /\ mon' = <<t + 1, IF t = Threads THEN "sweep" ELSE "redo">>
        /\ sender_id' \in {0, sender_id} /\ receiver_id' \in {0, receiver_id}
        /\ listed' = listed \ {t}
        /\ \E x \in {"abandon", "free"} : seg' = [seg EXCEPT ![t] = x]
        /\ UNCHANGED <<memory, redo, start, end, local, dead, todo>>
    BY DEF RecoverPages, Monitor
  <2>2. TypeOK
    BY DEF IInv
  <2>3. mon[1] = t /\ mon[2] = "slots" /\ mon'[1] = t + 1 /\ mon'[2] \in {"sweep", "redo"}
    BY <2>1, Pair
  <2>4. TypeOK'
    <3>1. mon' \in (0 .. Threads + 1) \X {"wait", "redo", "roots", "slots", "sweep", "done"}
      BY <2>1, Numbers, SMT DEF Thread
    <3>2. seg' \in [Thread -> {"owned", "abandon", "free"}]
      <4>1. seg \in [Thread -> {"owned", "abandon", "free"}]
        BY <2>2 DEF TypeOK
      <4> QED BY <2>1, <4>1
    <3>3. sender_id' \in {0, Sender} /\ receiver_id' \in {0, Receiver}
      BY <2>1, <2>2 DEF TypeOK
    <3> QED BY <2>1, <2>2, <3>1, <3>2, <3>3 DEF TypeOK
  <2>5. ASSUME NEW u \in Thread, Pending(u)' PROVE Pending(u)
    <3>1. t + 1 <= u
      BY <2>3, <2>5 DEF Pending
    <3>2. t <= u /\ t # u
      BY <3>1, ThreadNat, SMT
    <3> QED BY <2>3, <3>2 DEF Pending
  <2> QED BY <2>1, <2>3, <2>4, <2>5, <1>MonitorIInv

<1>StartSweepIInv.
    ASSUME IInv, StartMonitor \/ Sweep
    PROVE  IInv'
  <2> USE <1>StartSweepIInv
  <2> USE DEF memory, redo, queue, local
  <2>1. TypeOK
    BY DEF IInv
  <2>2. CASE StartMonitor
    <3>1. /\ dead = Thread /\ mon = <<0, "wait">> /\ mon' = <<1, "redo">>
          /\ UNCHANGED <<memory, redo, queue, local, dead, todo, seg>>
      BY <2>2 DEF StartMonitor, Monitor
    <3>2. mon[1] = 0 /\ mon[2] = "wait" /\ mon'[1] = 1 /\ mon'[2] = "redo"
      BY <3>1, Pair
    <3>3. TypeOK'
      <4>1. mon' \in (0 .. Threads + 1) \X {"wait", "redo", "roots", "slots", "sweep", "done"}
        BY <3>1, Numbers, SMT
      <4> QED BY <2>1, <3>1, <4>1 DEF TypeOK
    <3>4. ASSUME NEW u \in Thread PROVE Pending(u)
      <4>1. 0 <= u /\ 0 # u
        BY ThreadNat, SMT
      <4> QED BY <3>2, <4>1 DEF Pending
    <3> QED BY <3>1, <3>2, <3>3, <3>4, <1>MonitorIInv
  <2>3. CASE Sweep
    <3>1. /\ dead = Thread /\ mon = <<Threads + 1, "sweep">> /\ mon' = <<Threads + 1, "done">>
          /\ seg' = [t \in Thread |->
                       IF \/ \E o \in ObjPage(t) : info[o].cnt > 0
                          \/ t = Sender /\ (sender_id # 0 \/ receiver_id # 0)
                       THEN seg[t] ELSE "free"]
          /\ UNCHANGED <<memory, redo, queue, local, dead, todo>>
      BY <2>3 DEF Sweep, Monitor
    <3>2. mon'[2] = "done"
      BY <3>1, SMT
    <3>3. TypeOK'
      <4>1. mon' \in (0 .. Threads + 1) \X {"wait", "redo", "roots", "slots", "sweep", "done"}
        BY <3>1, Numbers, SMT
      <4>2. seg' \in [Thread -> {"owned", "abandon", "free"}]
        <5>1. seg \in [Thread -> {"owned", "abandon", "free"}]
          BY <2>1 DEF TypeOK
        <5> QED BY <3>1, <5>1
      <4> QED BY <2>1, <3>1, <4>1, <4>2 DEF TypeOK
    <3>4. \A u \in Thread : ~Pending(u)'
      BY <3>2 DEF Pending
    <3> QED BY <3>1, <3>2, <3>3, <3>4, <1>MonitorIInv
  <2> QED BY <2>2, <2>3

\* The monitor releases a cell on behalf of t, which it has begun to recover.
<1>ReleaseIInv.
    ASSUME IInv, TypeOK', NEW t \in Thread, dead = Thread, dead' = dead, mon' = mon,
           mon[1] = t, mon[2] \in {"roots", "slots"}, log' = log, pc' = pc, op' = op,
           NEW c \in Cell, TestFree(t, c)
    PROVE  IInv'
  <2> USE <1>ReleaseIInv
  <2>1. TypeOK /\ era[t][t] >= 1 /\ MonInv
    BY DEF IInv
  <2>2. MonInv'
    BY <2>1 DEF MonInv
  <2>3. /\ era'[t][t] >= 1 /\ \A u \in Thread \ {t} : era'[u] = era[u]
        /\ \A u \in Thread \ {t} :
             \/ era'[t][u] = era[t][u]
             \/ /\ era[t][u] <= era'[t][u]
                /\ \E o \in Obj : info[o].by = u /\ era'[t][u] = info[o].era
        /\ \A o \in Obj :
             \/ info'[o] = info[o]
             \/ /\ info'[o].by \in {0, t}
                /\ \A u \in Thread \ {t} : info[o].by = u => era'[t][u] >= info[o].era
    BY <2>1, TestFreeEffect
  <2>4. EraFrame(t)
    BY <2>3 DEF EraFrame
  <2>5. ~Pending(t)'
    BY DEF Pending
  <2>6. ASSUME NEW u \in Thread \ {t} PROVE era'[u][u] >= 1 /\ (Pending(u)' => EraInv(u)')
    <3>1. Pending(u)' <=> Pending(u)
      BY DEF Pending
    <3>2. era[u][u] >= 1 /\ (Pending(u) => EraInv(u))
      BY DEF IInv
    <3>3. Pending(u) => EraInv(u)'
      BY <2>1, <2>4, <3>2, EraOthers
    <3> QED BY <2>3, <3>1, <3>2, <3>3
  <2>7. mon'[2] # "wait"
    OBVIOUS
  <2> QED BY <2>2, <2>3, <2>5, <2>6, <2>7 DEF IInv

<1>RecoverRootIInv.
    ASSUME IInv, NEW t \in Thread, RecoverRoot(t)
    PROVE  IInv'
  <2> USE <1>RecoverRootIInv
  <2> USE DEF queue, local
  <2>1. PICK r : r = Head(todo)
    OBVIOUS
  <2>2. /\ dead = Thread /\ mon = <<t, "roots">> /\ todo # <<>> /\ todo' = Tail(todo)
        /\ UNCHANGED <<info, blk, cell, era>> \/ TestFree(t, r)
        /\ root' = root \/ root' = [root EXCEPT ![r] = "local"]
        /\ UNCHANGED <<log, queue, local, dead, mon, seg>>
    BY <2>1 DEF RecoverRoot, Monitor
  <2>3. TypeOK /\ era[t][t] >= 1
    BY DEF IInv
  <2>4. r \in Cell /\ todo' \in Seq(Cell)
    BY <2>1, <2>2, <2>3, Taken
  <2>5. mon[1] = t /\ mon[2] = "roots"
    BY <2>2, Pair
  <2>6. root' \in [Root -> {"free", "used", "local"}]
    <3>1. root \in [Root -> {"free", "used", "local"}]
      BY <2>3 DEF TypeOK
    <3> QED BY <2>2, <3>1
  <2>7. CASE UNCHANGED <<info, blk, cell, era>>
    <3>1. TypeOK'
      BY <2>2, <2>3, <2>4, <2>6, <2>7 DEF TypeOK
    <3>2. \A u \in Thread : Pending(u)' => Pending(u)
      BY <2>2 DEF Pending
    <3> QED BY <2>2, <2>5, <2>7, <3>1, <3>2, <1>MonitorIInv
  <2>8. CASE TestFree(t, r)
    <3>1. /\ info' \in [Obj -> Info] /\ blk' \in [Obj -> {"free", "taken", "local", "remote"}]
          /\ cell' \in [Cell -> Obj \cup {None}] /\ era' \in [Thread -> [Thread -> Nat]]
      BY <2>3, <2>4, <2>8, TestFreeEffect
    <3>2. TypeOK'
      BY <2>2, <2>3, <2>4, <2>6, <3>1 DEF TypeOK
    <3> QED BY <2>2, <2>4, <2>5, <2>8, <3>2, <1>ReleaseIInv
  <2> QED BY <2>2, <2>7, <2>8

<1>RecoverSlotIInv.
    ASSUME IInv, NEW t \in Thread, RecoverSlot(t)
    PROVE  IInv'
  <2> USE <1>RecoverSlotIInv
  <2> USE DEF queue, local
  <2>1. PICK c : c = Head(todo)
    OBVIOUS
  <2>2. /\ dead = Thread /\ mon = <<t, "slots">> /\ todo # <<>> /\ todo' = Tail(todo)
        /\ TestFree(t, c) /\ UNCHANGED <<root, log, queue, local, dead, mon, seg>>
    BY <2>1 DEF RecoverSlot, Monitor
  <2>3. TypeOK /\ era[t][t] >= 1
    BY DEF IInv
  <2>4. c \in Cell /\ todo' \in Seq(Cell)
    BY <2>1, <2>2, <2>3, Taken
  <2>5. mon[1] = t /\ mon[2] = "slots"
    BY <2>2, Pair
  <2>6. /\ info' \in [Obj -> Info] /\ blk' \in [Obj -> {"free", "taken", "local", "remote"}]
        /\ cell' \in [Cell -> Obj \cup {None}] /\ era' \in [Thread -> [Thread -> Nat]]
    BY <2>2, <2>3, <2>4, TestFreeEffect
  <2>7. TypeOK'
    BY <2>2, <2>3, <2>4, <2>6 DEF TypeOK
  <2> QED BY <2>2, <2>4, <2>5, <2>7, <1>ReleaseIInv
<1> SUFFICES ASSUME IInv, [Next]_vars
             PROVE  IInv'
  OBVIOUS
<1>1. ASSUME NEW t \in Thread, Recovery(t) PROVE IInv'
  BY <1>1, <1>RedoIInv, <1>RecoverRootIInv, <1>RootsDoneIInv, <1>RecoverSlotIInv, <1>RecoverPagesIInv
     DEF Recovery
<1>2. ASSUME Done PROVE IInv'
  BY <1>2, <1>StutterIInv DEF Done
<1> QED BY <1>1, <1>2, <1>StepIInv, <1>ExitIInv, <1>StartSweepIInv, <1>StutterIInv DEF Next

-----------------------------------------------------------------------------
\* What the logs are, for the monitor, while the threads run.  An entry of a past
\* era is Stale: the monitor repeats its store, so an unlink must be of a cell that
\* is no longer in use (Gone), and a link of one that still refers to the object, or
\* of a slot (Stays).
Stale(t) == log[t].func_id # "none" /\ log[t].era < era[t][t]

Gone(t) ==
    IF pc[t] \in {"free", "drop", "advance"} THEN op[t].ref = log[t].ref
    ELSE \/ log[t].ref \in RootPage(t) /\ root[log[t].ref] = "local"
         \/ /\ t = Receiver
            /\ \E i \in 0 .. Slots - 1 : log[t].ref = Slot(i) /\ (i + 1) % Slots = start

Stays(t) ==
    \/ /\ log[t].ref \in RootPage(t) /\ root[log[t].ref] = "used" /\ cell[log[t].ref] = log[t].refed
       /\ \/ pc[t] = "received"
          \/ pc[t] = "log" /\ op[t].func_id = "unlink" /\ op[t].then = "advance"
    \/ /\ t = Sender /\ cell[log[t].ref] \in {None, log[t].refed}
       /\ \E i \in 0 .. Slots - 1 :
            log[t].ref = Slot(i) /\ (IF pc[t] = "sent" THEN i = end ELSE (i + 1) % Slots = end)

LogInv(t) ==
    /\ log[t].func_id # "none" =>
        /\ log[t].era <= era[t][t]
        /\ log[t].era = era[t][t] => pc[t] \in {"log", "cas", "set", "bump"}
    /\ pc[t] \in {"cas", "set", "bump"} => log[t].ref = op[t].ref
    /\ Stale(t) /\ log[t].func_id = "unlink" => Gone(t)
    /\ Stale(t) /\ log[t].func_id = "link" => Stays(t)

\* Without a queue no reference leaves the thread that allocated the object.
Linking(t) ==
    \/ log[t].func_id = "link" \/ pc[t] \in {"sent", "received"}
    \/ pc[t] \in {"log", "cas", "set", "bump"} /\ op[t].func_id = "link"

Private(t) == \A r \in RootPage(t) : cell[r] # None => Home[cell[r]] = t

QueueInv ==
    /\ receiver_id # 0 \/ pc[Receiver] = "register" => Receiver \in listed
    /\ Receiver \in listed => Sender \in listed
    /\ pc[Sender] = "create" => Sender \notin listed
    /\ Sender \notin listed =>
        /\ \A i \in 0 .. Slots - 1 : cell[Slot(i)] = None
        /\ \A t \in Thread : ~Linking(t) /\ Private(t)

WaitInv == (\A t \in Thread : LogInv(t)) /\ QueueInv

\* What a step of t does, as far as the logs and the queue are concerned.
Touches(t) ==
    /\ \A u \in Thread \ {t} :
         /\ pc'[u] = pc[u] /\ op'[u] = op[u] /\ log'[u] = log[u] /\ era'[u] = era[u]
         /\ \A r \in RootPage(u) : cell'[r] = cell[r] /\ root'[r] = root[r]
    /\ start' = start \/ t = Receiver
    /\ end' = end \/ t = Sender
    /\ \A i \in 0 .. Slots - 1 : cell'[Slot(i)] \in {cell[Slot(i)], None} \/ (t = Sender /\ Late(t))
    /\ \A r \in RootPage(t) : cell'[r] \in {cell[r], None} \/ Home[cell'[r]] = t \/ Late(t)
    /\ Linking(t)' => \/ Linking(t) \/ Sender \in listed
                      \/ \E i \in 0 .. Slots - 1 : cell[Slot(i)] # None
    /\ \/ listed' = listed /\ receiver_id' = receiver_id /\ pc'[t] \notin {"register", "create"}
       \/ CreateQueue(t) \/ ListQueue(t) \/ Register(t) \/ SetReceiver(t)

\* The threads, while they run, keep what the monitor will need.
LEMMA StepWait ==
  \A t \in Thread : TypeOK /\ TypeOK' /\ RefInv /\ Eras /\ WaitInv /\ Step(t) => WaitInv'
<1>LogOthers.
    ASSUME NEW t \in Thread, NEW u \in Thread \ {t}, Touches(t), LogInv(u)
    PROVE  LogInv(u)'
  <2> USE <1>LogOthers
  <2>1. /\ pc'[u] = pc[u] /\ op'[u] = op[u] /\ log'[u] = log[u] /\ era'[u] = era[u]
        /\ \A r \in RootPage(u) : cell'[r] = cell[r] /\ root'[r] = root[r]
    BY DEF Touches
  <2>2. Stale(u)' <=> Stale(u)
    BY <2>1 DEF Stale
  <2>3. ASSUME Gone(u) PROVE Gone(u)'
    <3>1. CASE pc[u] \in {"free", "drop", "advance"}
      BY <2>1, <2>3, <3>1 DEF Gone
    <3>2. CASE pc[u] \notin {"free", "drop", "advance"}
      <4>1. CASE log[u].ref \in RootPage(u) /\ root[log[u].ref] = "local"
        <5>1. log'[u].ref \in RootPage(u)' /\ root'[log'[u].ref] = "local"
          BY <2>1, <4>1 DEF RootPage
        <5> QED BY <2>1, <3>2, <5>1 DEF Gone
      <4>2. CASE /\ u = Receiver
                 /\ \E i \in 0 .. Slots - 1 : log[u].ref = Slot(i) /\ (i + 1) % Slots = start
        <5>1. start' = start
          BY <4>2 DEF Touches
        <5> QED BY <2>1, <3>2, <4>2, <5>1 DEF Gone, Slot
      <4> QED BY <2>3, <3>2, <4>1, <4>2 DEF Gone
    <3> QED BY <3>1, <3>2
  <2>4. ASSUME Stays(u) PROVE Stays(u)'
    <3>1. CASE /\ log[u].ref \in RootPage(u) /\ root[log[u].ref] = "used"
               /\ cell[log[u].ref] = log[u].refed
               /\ \/ pc[u] = "received"
                  \/ pc[u] = "log" /\ op[u].func_id = "unlink" /\ op[u].then = "advance"
      <4>1. log'[u].ref \in RootPage(u) /\ root'[log'[u].ref] = "used"
            /\ cell'[log'[u].ref] = log'[u].refed
        BY <2>1, <3>1
      <4> QED BY <2>1, <3>1, <4>1 DEF Stays, RootPage
    <3>2. CASE /\ u = Sender /\ cell[log[u].ref] \in {None, log[u].refed}
               /\ \E i \in 0 .. Slots - 1 :
                    log[u].ref = Slot(i) /\ (IF pc[u] = "sent" THEN i = end ELSE (i + 1) % Slots = end)
      <4>1. PICK i \in 0 .. Slots - 1 :
               log[u].ref = Slot(i) /\ (IF pc[u] = "sent" THEN i = end ELSE (i + 1) % Slots = end)
        BY <3>2
      <4>2. end' = end /\ cell'[Slot(i)] \in {cell[Slot(i)], None}
        BY <3>2 DEF Touches
      <4>3. cell'[log'[u].ref] \in {None, log'[u].refed}
        BY <2>1, <3>2, <4>1, <4>2
      <4> QED BY <2>1, <3>2, <4>1, <4>2, <4>3 DEF Stays, Slot
    <3> QED BY <2>4, <3>1, <3>2 DEF Stays
  <2> QED BY <2>1, <2>2, <2>3, <2>4 DEF LogInv

<1>QueueKept.
    ASSUME TypeOK, NEW t \in Thread, ThreadInv(t), QueueInv, Touches(t)
    PROVE  QueueInv'
  <2> USE <1>QueueKept
  <2>0. \A u \in Thread \ {t} :
           /\ pc'[u] = pc[u] /\ op'[u] = op[u] /\ log'[u] = log[u]
           /\ \A r \in RootPage(u) : cell'[r] = cell[r] /\ root'[r] = root[r]
    BY DEF Touches
  <2>1. Sender \in Thread /\ Receiver \in Thread
    BY Numbers
  <2>2. ASSUME Sender \notin listed
        PROVE  /\ \A i \in 0 .. Slots - 1 : cell'[Slot(i)] = None
               /\ \A u \in Thread : ~Linking(u)' /\ Private(u)'
    <3>1. /\ \A i \in 0 .. Slots - 1 : cell[Slot(i)] = None
          /\ \A u \in Thread : ~Linking(u) /\ Private(u)
      BY <2>2 DEF QueueInv
    <3>2. ~Late(t)
      BY <3>1 DEF Late, Linking
    <3>3. \A i \in 0 .. Slots - 1 : cell'[Slot(i)] = None
      BY <3>1, <3>2 DEF Touches
    <3>4. ~Linking(t)'
      BY <2>2, <3>1 DEF Touches
    <3>5. Private(t)'
      <4>1. ASSUME NEW r \in RootPage(t), cell'[r] # None PROVE Home[cell'[r]] = t
        <5>1. cell'[r] \in {cell[r], None} \/ Home[cell'[r]] = t
          BY <3>2 DEF Touches
        <5>2. cell[r] # None => Home[cell[r]] = t
          BY <3>1 DEF Private
        <5> QED BY <4>1, <5>1, <5>2
      <4> QED BY <4>1 DEF Private, RootPage
    <3>6. ASSUME NEW u \in Thread \ {t} PROVE ~Linking(u)' /\ Private(u)'
      <4>1. ~Linking(u)'
        BY <2>0, <3>1 DEF Linking
      <4>2. Private(u)'
        <5>1. ASSUME NEW r \in RootPage(u), cell'[r] # None PROVE Home[cell'[r]] = u
          <6>1. cell'[r] = cell[r]
            BY <2>0
          <6>2. cell[r] # None => Home[cell[r]] = u
            BY <3>1 DEF Private
          <6> QED BY <5>1, <6>1, <6>2
        <5> QED BY <5>1 DEF Private, RootPage
      <4> QED BY <4>1, <4>2
    <3> QED BY <3>3, <3>4, <3>5, <3>6
  <2>3. CASE listed' = listed /\ receiver_id' = receiver_id /\ pc'[t] \notin {"register", "create"}
    BY <2>0, <2>1, <2>2, <2>3 DEF QueueInv, Slot
  <2>4. CASE CreateQueue(t)
    <3>1. listed = {} /\ listed' = {} /\ receiver_id' = receiver_id /\ pc'[t] = "create"
      BY <2>4, GotoEffect DEF CreateQueue
    <3> QED BY <2>0, <2>1, <2>2, <3>1 DEF QueueInv, Slot
  <2>5. CASE ListQueue(t)
    <3>1. t = Sender /\ listed' = {Sender} /\ receiver_id' = receiver_id /\ pc'[t] = "idle"
          /\ pc[t] = "create"
      BY <2>5, GotoEffect DEF ListQueue, ThreadInv, At
    <3> QED BY <2>0, <2>1, <3>1 DEF QueueInv
  <2>6. CASE Register(t)
    <3>1. /\ t = Receiver /\ Sender \in listed /\ listed' = listed \cup {t} /\ pc'[t] = "register"
      BY <2>6, GotoEffect DEF Register
    <3> QED BY <2>0, <2>1, <3>1 DEF QueueInv
  <2>7. CASE SetReceiver(t)
    <3>1. t = Receiver /\ listed' = listed /\ pc'[t] = "unwrap" /\ pc[t] = "register"
      BY <2>7, GotoEffect DEF SetReceiver, ThreadInv, At
    <3> QED BY <2>0, <2>1, <2>2, <3>1 DEF QueueInv, Slot
  <2> QED BY <2>3, <2>4, <2>5, <2>6, <2>7 DEF Touches

\* A step that leaves its log alone, or erases it.
<1>LogQuiet.
    ASSUME TypeOK, TypeOK', NEW t \in Thread, LogInv(t), era'[t][t] >= era[t][t],
           pc[t] \notin {"log", "cas", "set", "bump", "sent", "drop", "advance"},
           pc'[t] \notin {"cas", "set", "bump", "sent"},
           \/ log'[t].func_id = "none"
           \/ /\ log'[t] = log[t]
              /\ \A r \in RootPage(t) : root[r] = "local" => root'[r] = "local",
           \A i \in 0 .. Slots - 1 : cell'[Slot(i)] = cell[Slot(i)], start' = start, end' = end,
           IF pc[t] = "free" THEN pc'[t] \in {"drop", "advance"} /\ op'[t] = op[t]
           ELSE pc'[t] \notin {"free", "drop", "advance"},
           pc[t] = "received" => /\ pc'[t] = "log" /\ op'[t].func_id = "unlink"
                                 /\ op'[t].then = "advance" /\ root' = root /\ cell' = cell
    PROVE  LogInv(t)'
  <2> USE <1>LogQuiet
  <2>1. CASE log'[t].func_id = "none"
    BY <2>1 DEF LogInv, Stale
  <2>2. CASE /\ log[t].func_id # "none" /\ log'[t] = log[t]
             /\ \A r \in RootPage(t) : root[r] = "local" => root'[r] = "local"
    <3>1. log[t].era \in Nat /\ era[t][t] \in Nat /\ era'[t][t] \in Nat
      <4>1. log[t] \in Log /\ era[t][t] \in Nat
        BY Locals
      <4>2. era' \in [Thread -> [Thread -> Nat]]
        BY DEF TypeOK
      <4> QED BY <4>1, <4>2, SMT DEF Log
    <3>2. log[t].era <= era[t][t] /\ log[t].era # era[t][t]
      BY <2>2 DEF LogInv
    <3>3. log[t].era < era[t][t] /\ log[t].era <= era'[t][t] /\ log[t].era # era'[t][t]
      BY <3>1, <3>2, SMT
    <3>4. Stale(t)
      BY <2>2, <3>3 DEF Stale
    <3>5. ASSUME Gone(t) PROVE Gone(t)'
      <4>1. CASE pc[t] = "free"
        BY <2>2, <3>5, <4>1 DEF Gone
      <4>2. CASE pc[t] # "free"
        <5>1. CASE log[t].ref \in RootPage(t) /\ root[log[t].ref] = "local"
          <6>1. log'[t].ref \in RootPage(t)' /\ root'[log'[t].ref] = "local"
            BY <2>2, <5>1 DEF RootPage
          <6> QED BY <4>2, <6>1 DEF Gone
        <5>2. CASE /\ t = Receiver
                   /\ \E i \in 0 .. Slots - 1 : log[t].ref = Slot(i) /\ (i + 1) % Slots = start
          BY <2>2, <4>2, <5>2 DEF Gone, Slot
        <5> QED BY <3>5, <4>2, <5>1, <5>2 DEF Gone
      <4> QED BY <4>1, <4>2
    <3>6. ASSUME Stays(t) PROVE Stays(t)'
      <4>1. CASE /\ log[t].ref \in RootPage(t) /\ root[log[t].ref] = "used"
                 /\ cell[log[t].ref] = log[t].refed /\ pc[t] = "received"
        BY <2>2, <4>1 DEF Stays, RootPage
      <4>2. CASE /\ t = Sender /\ cell[log[t].ref] \in {None, log[t].refed}
                 /\ \E i \in 0 .. Slots - 1 : log[t].ref = Slot(i) /\ (i + 1) % Slots = end
        <5>1. cell'[log[t].ref] = cell[log[t].ref]
          BY <4>2
        <5> QED BY <2>2, <4>2, <5>1 DEF Stays, Slot
      <4> QED BY <3>6, <4>1, <4>2 DEF Stays
    <3> QED BY <2>2, <3>3, <3>4, <3>5, <3>6 DEF LogInv
  <2> QED BY <2>1, <2>2

\* Most steps store no reference.
<1>TouchesPlain.
    ASSUME TypeOK, NEW t \in Thread, Moves(t), \A u \in Thread \ {t} : era'[u] = era[u],
           \A c \in Cell : cell'[c] = cell[c],
           \A r \in Root : root'[r] = root[r] \/ r \in RootPage(t),
           start' = start \/ t = Receiver, end' = end \/ t = Sender,
           Linking(t)' => \/ Linking(t) \/ Sender \in listed
                          \/ \E i \in 0 .. Slots - 1 : cell[Slot(i)] # None,
           \/ listed' = listed /\ receiver_id' = receiver_id /\ pc'[t] \notin {"register", "create"}
           \/ CreateQueue(t) \/ ListQueue(t) \/ Register(t) \/ SetReceiver(t)
    PROVE  Touches(t)
  <2> USE <1>TouchesPlain
  <2>1. \A u \in Thread \ {t} :
           pc'[u] = pc[u] /\ op'[u] = op[u] /\ log'[u] = log[u] /\ era'[u] = era[u]
    BY MovesEffect
  <2>2. ASSUME NEW u \in Thread \ {t}, NEW r \in RootPage(u)
        PROVE  cell'[r] = cell[r] /\ root'[r] = root[r]
    <3>1. r \in Cell /\ r \in Root /\ r \notin RootPage(t)
      BY Pages
    <3> QED BY <3>1
  <2>3. \A i \in 0 .. Slots - 1 : cell'[Slot(i)] = cell[Slot(i)]
    BY SlotCells
  <2>4. \A r \in RootPage(t) : cell'[r] = cell[r]
    BY Pages
  <2> QED BY <2>1, <2>2, <2>3, <2>4 DEF Touches

\* An allocation that does not erase the log takes nothing from the local list.
<1>AllocLog.
    ASSUME TypeOK, NEW t \in Thread, NEW r \in RootPage(t), AllocRoot(t, r)
    PROVE  \/ log'[t].func_id = "none"
           \/ log'[t] = log[t] /\ \A x \in RootPage(t) : root[x] = "local" => root'[x] = "local"
  <2> USE <1>AllocLog
  <2>1. NoLog.func_id = "none"
    BY SMT DEF NoLog
  <2>2. log \in [Thread -> Log] /\ root \in [Root -> {"free", "used", "local"}]
    BY DEF TypeOK
  <2>3. CASE \E x \in RootPage(t) : root[x] = "free"
    <3>1. log' = log /\ root[r] = "free" /\ root' = [root EXCEPT ![r] = "used"]
      BY <2>3 DEF AllocRoot, Collected, Erased
    <3>2. ASSUME NEW x \in RootPage(t), root[x] = "local" PROVE root'[x] = "local"
      <4>1. x \in Root /\ x # r
        BY <3>1, <3>2, Pages
      <4> QED BY <2>2, <3>1, <3>2, <4>1
    <3> QED BY <3>1, <3>2
  <2>4. CASE ~\E x \in RootPage(t) : root[x] = "free"
    <3>1. log' = [log EXCEPT ![t] = NoLog]
      BY <2>4 DEF AllocRoot, Erased
    <3> QED BY <2>1, <2>2, <3>1
  <2> QED BY <2>3, <2>4

\* A thread writes its log and refers to a new RootRef.
<1>AllocWait.
    ASSUME TypeOK, TypeOK', NEW t \in Thread, RefInv, LogInv(t), NEW r \in RootPage(t),
           Malloc(t, r) \/ Unwrap(t, r)
    PROVE  Touches(t) /\ LogInv(t)'
  <2> USE <1>AllocWait
  <2> USE DEF memory, redo, queue, local, monitor, At, Call
  <2>1. Moves(t) /\ era' = era /\ AllocRoot(t, r) /\ start' = start /\ end' = end
        /\ listed' = listed /\ receiver_id' = receiver_id
        /\ pc[t] \in {"idle", "unwrap"}
    <3>1. Moves(t) /\ era' = era
      BY CalmSteps DEF Calm
    <3> QED BY <3>1 DEF Malloc, Unwrap, Unwrapping
  <2>2. pc'[t] = "block" \/ (pc'[t] = "log" /\ cell[Slot(start)] # None)
    BY GotoEffect DEF Malloc, Unwrap, Begin
  <2>3. /\ \A c \in Cell : cell'[c] = cell[c]
        /\ \A x \in Root : root'[x] = root[x] \/ x \in RootPage(t)
    <3>1. RootInv(t)
      BY DEF RefInv
    <3> QED BY <2>1, <3>1, AllocEffect
  <2>4. \/ log'[t].func_id = "none"
        \/ log'[t] = log[t] /\ \A x \in RootPage(t) : root[x] = "local" => root'[x] = "local"
    BY <2>1, <1>AllocLog
  <2>5. start \in 0 .. Slots - 1 /\ era[t][t] \in Nat
    BY Locals DEF TypeOK
  <2>6. Linking(t)' => \/ Linking(t) \/ Sender \in listed
                       \/ \E i \in 0 .. Slots - 1 : cell[Slot(i)] # None
    BY <2>2, <2>4, <2>5 DEF Linking
  <2>7. Touches(t)
    BY <2>1, <2>2, <2>3, <2>6, <1>TouchesPlain
  <2>8. \A i \in 0 .. Slots - 1 : cell'[Slot(i)] = cell[Slot(i)]
    BY <2>3, SlotCells
  <2>9. era'[t][t] >= era[t][t]
    BY <2>1, <2>5, SMT
  <2>10. LogInv(t)'
    BY <2>1, <2>2, <2>4, <2>8, <2>9, <1>LogQuiet
  <2> QED BY <2>7, <2>10

\* The steps that change neither cells nor RootRefs, nor eras and logs other than
\* to erase a log.
<1>CalmWait.
    ASSUME TypeOK, TypeOK', NEW t \in Thread, RefInv, LogInv(t),
           \/ \E r \in RootPage(t) : Drop(t, r) \/ Send(t, r)
           \/ CreateQueue(t) \/ ListQueue(t) \/ Register(t) \/ SetReceiver(t) \/ UnwrapEmpty(t)
           \/ Received(t)
    PROVE  Touches(t) /\ LogInv(t)'
  <2> USE <1>CalmWait
  <2> USE DEF memory, redo, queue, local, monitor, At, Call
  <2>1. /\ Moves(t) /\ era' = era /\ cell' = cell /\ root' = root /\ start' = start /\ end' = end
        /\ log' = log \/ log' = [log EXCEPT ![t] = NoLog]
    <3>1. Moves(t) /\ era' = era /\ (log' = log \/ log' = [log EXCEPT ![t] = NoLog])
      BY CalmSteps DEF Calm
    <3> QED BY <3>1
               DEF Drop, Send, CreateQueue, ListQueue, Register, SetReceiver, UnwrapEmpty, Received
  <2>2. /\ pc[t] \in {"idle", "create", "register", "unwrap", "received"}
        /\ pc'[t] \in {"log", "create", "idle", "register", "unwrap"}
        /\ \/ listed' = listed /\ receiver_id' = receiver_id /\ pc'[t] \notin {"register", "create"}
           \/ CreateQueue(t) \/ ListQueue(t) \/ Register(t) \/ SetReceiver(t)
    <3>1. ASSUME \/ \E r \in RootPage(t) : Drop(t, r) \/ Send(t, r)
                 \/ Received(t)
          PROVE  /\ pc[t] \in {"idle", "received"} /\ pc'[t] = "log"
                 /\ listed' = listed /\ receiver_id' = receiver_id
      BY <3>1, GotoEffect DEF Drop, Send, Received, Begin
    <3>2. ASSUME UnwrapEmpty(t)
          PROVE  pc[t] = "unwrap" /\ pc'[t] = "idle" /\ listed' = listed /\ receiver_id' = receiver_id
      BY <3>2, GotoEffect DEF UnwrapEmpty
    <3>3. ASSUME CreateQueue(t) \/ ListQueue(t) \/ Register(t) \/ SetReceiver(t)
          PROVE  /\ pc[t] \in {"idle", "create", "register"}
                 /\ pc'[t] \in {"create", "idle", "register", "unwrap"}
      BY <3>3, GotoEffect DEF CreateQueue, ListQueue, Register, SetReceiver
    <3> QED BY <3>1, <3>2, <3>3
  <2>3. /\ pc'[t] = "log" => op'[t].func_id = "unlink" \/ Sender \in listed
        /\ pc[t] = "received" => /\ pc'[t] = "log" /\ op'[t].func_id = "unlink"
                                 /\ op'[t].then = "advance"
    <3>1. ASSUME NEW r \in RootPage(t), Drop(t, r)
          PROVE  pc[t] = "idle" /\ op'[t].func_id = "unlink"
      BY <3>1, BeginEffect DEF Drop
    <3>2. ASSUME NEW r \in RootPage(t), Send(t, r) PROVE pc[t] = "idle" /\ Sender \in listed
      BY <3>2 DEF Send
    <3>3. ASSUME Received(t)
          PROVE  pc'[t] = "log" /\ op'[t].func_id = "unlink" /\ op'[t].then = "advance"
      BY <3>3, BeginEffect DEF Received
    <3>4. ASSUME CreateQueue(t) \/ ListQueue(t) \/ Register(t) \/ SetReceiver(t) \/ UnwrapEmpty(t)
          PROVE  pc[t] # "received" /\ pc'[t] # "log"
      <4>1. ASSUME CreateQueue(t) \/ ListQueue(t) \/ Register(t) \/ SetReceiver(t)
            PROVE  /\ pc[t] \in {"idle", "create", "register"}
                   /\ pc'[t] \in {"create", "idle", "register", "unwrap"}
        BY <4>1, GotoEffect DEF CreateQueue, ListQueue, Register, SetReceiver
      <4>2. ASSUME UnwrapEmpty(t) PROVE pc[t] = "unwrap" /\ pc'[t] = "idle"
        BY <4>2, GotoEffect DEF UnwrapEmpty
      <4> QED BY <3>4, <4>1, <4>2
    <3> QED BY <3>1, <3>2, <3>3, <3>4
  <2>4. log'[t].func_id = "none" \/ log'[t] = log[t]
    <3>1. NoLog.func_id = "none"
      BY SMT DEF NoLog
    <3>2. log \in [Thread -> Log]
      BY DEF TypeOK
    <3> QED BY <2>1, <3>1, <3>2
  <2>5. Linking(t)' => \/ Linking(t) \/ Sender \in listed
    BY <2>2, <2>3, <2>4 DEF Linking
  <2>6. Touches(t)
    BY <2>1, <2>2, <2>5, <1>TouchesPlain
  <2>7. era'[t][t] >= era[t][t]
    <3>1. era[t][t] \in Nat
      BY Locals
    <3> QED BY <2>1, <3>1, SMT
  <2>8. LogInv(t)'
    BY <2>1, <2>2, <2>3, <2>4, <2>7, <1>LogQuiet
  <2> QED BY <2>6, <2>8

\* A new object, and the object that nothing refers to.
<1>BlockWait.
    ASSUME TypeOK, TypeOK', NEW t \in Thread, RefInv, LogInv(t),
           (\E o \in Obj : LinkBlock(t, o)) \/ TakeBlock(t) \/ SetInfo(t) \/ FreeObj(t)
    PROVE  Touches(t) /\ LogInv(t)'
  <2> USE <1>BlockWait
  <2> USE DEF memory, redo, queue, local, monitor, At
  <2>0. /\ ThreadInv(t) /\ era \in [Thread -> [Thread -> Nat]] /\ era[t][t] \in Nat
        /\ log \in [Thread -> Log] /\ cell \in [Cell -> Obj \cup {None}]
        /\ \A i \in 0 .. Slots - 1 : Slot(i) \in Cell /\ Slot(i) \notin RootPage(t)
    BY Locals, SlotCells, Pages DEF RefInv, TypeOK
  <2>1. era[t][t] >= era[t][t] /\ era[t][t] + 1 >= era[t][t]
    BY <2>0, SMT
  <2>2. ASSUME NEW o \in Obj, LinkBlock(t, o) PROVE Touches(t) /\ LogInv(t)'
    <3>1. Moves(t) /\ era' = era
      BY <2>2, CalmSteps DEF Calm
    <3>2. /\ pc[t] = "block" /\ pc'[t] = "take" /\ start' = start /\ end' = end /\ root' = root
          /\ listed' = listed /\ receiver_id' = receiver_id /\ Home[o] = t
          /\ cell' = [cell EXCEPT ![op[t].ref] = o]
          /\ log' = log \/ log' = [log EXCEPT ![t] = NoLog]
      BY <2>2, GotoEffect DEF LinkBlock, Erased
    <3>3. op[t].ref \in RootPage(t) /\ op[t].ref \in Cell
      BY <2>0, <3>2, Locals DEF ThreadInv, Own
    <3>4. \A c \in Cell : IF c = op[t].ref THEN cell'[c] = o ELSE cell'[c] = cell[c]
      BY <2>0, <3>2
    <3>5. \A i \in 0 .. Slots - 1 : cell'[Slot(i)] = cell[Slot(i)]
      BY <2>0, <3>3, <3>4
    <3>6. log'[t].func_id = "none" \/ log'[t] = log[t]
      <4>1. NoLog.func_id = "none"
        BY SMT DEF NoLog
      <4> QED BY <2>0, <3>2, <4>1
    <3>7. LogInv(t)'
      BY <2>1, <3>1, <3>2, <3>5, <3>6, <1>LogQuiet
    <3>8. ASSUME NEW u \in Thread \ {t}
          PROVE  /\ pc'[u] = pc[u] /\ op'[u] = op[u] /\ log'[u] = log[u] /\ era'[u] = era[u]
                 /\ \A r \in RootPage(u) : cell'[r] = cell[r] /\ root'[r] = root[r]
      <4>1. \A r \in RootPage(u) : r # op[t].ref /\ r \in Cell
        BY <3>3, Pages
      <4> QED BY <3>1, <3>2, <3>4, <4>1, MovesEffect
    <3>9. \A r \in RootPage(t) : cell'[r] = cell[r] \/ Home[cell'[r]] = t
      BY <3>2, <3>4, Pages
    <3>10. Linking(t)' => Linking(t)
      BY <3>2, <3>6 DEF Linking
    <3> QED BY <3>2, <3>5, <3>7, <3>8, <3>9, <3>10 DEF Touches
  <2>3. ASSUME TakeBlock(t) \/ SetInfo(t) \/ FreeObj(t) PROVE Touches(t) /\ LogInv(t)'
    <3>1. /\ Moves(t) /\ cell' = cell /\ root' = root /\ log' = log /\ start' = start /\ end' = end
          /\ listed' = listed /\ receiver_id' = receiver_id
          /\ era' = era \/ era' = [era EXCEPT ![t][t] = @ + 1]
      BY <2>3 DEF TakeBlock, SetInfo, FreeObj, Moves
    <3>2. era'[t][t] >= era[t][t] /\ \A u \in Thread \ {t} : era'[u] = era[u]
      <4>1. CASE era' = era
        BY <2>1, <4>1
      <4>2. CASE era' = [era EXCEPT ![t] = [era[t] EXCEPT ![t] = era[t][t] + 1]]
        <5>1. DOMAIN era = Thread /\ DOMAIN era[t] = Thread
          BY <2>0
        <5> QED BY <2>1, <4>2, <5>1
      <4> QED BY <3>1, <4>1, <4>2
    <3>3. CASE TakeBlock(t) \/ SetInfo(t)
      <4>1. pc[t] \in {"take", "info"} /\ pc'[t] \in {"info", "idle"}
        BY <3>3, GotoEffect DEF TakeBlock, SetInfo
      <4>2. Linking(t)' => Linking(t)
        BY <3>1, <4>1 DEF Linking
      <4>3. Touches(t)
        BY <3>1, <3>2, <4>1, <4>2, <1>TouchesPlain
      <4>4. LogInv(t)'
        BY <3>1, <3>2, <4>1, <1>LogQuiet
      <4> QED BY <4>3, <4>4
    <3>4. CASE FreeObj(t)
      <4>1. pc[t] = "free" /\ pc'[t] = op[t].then /\ op'[t] = op[t]
        BY <3>4, GotoEffect DEF FreeObj
      <4>2. op[t].then \in {"drop", "advance"}
        BY <2>0, <4>1 DEF ThreadInv, UnlinkInv
      <4>3. Linking(t)' => Linking(t)
        BY <3>1, <4>1, <4>2 DEF Linking
      <4>4. Touches(t)
        BY <3>1, <3>2, <4>1, <4>2, <4>3, <1>TouchesPlain
      <4>5. LogInv(t)'
        BY <3>1, <3>2, <4>1, <4>2, <1>LogQuiet
      <4> QED BY <4>4, <4>5
    <3> QED BY <2>3, <3>3, <3>4
  <2> QED BY <2>2, <2>3

\* A reference is linked or unlinked: the log is of the era that is going on.
<1>LogWait.
    ASSUME TypeOK, TypeOK', NEW t \in Thread, RefInv, EraInv(t), LogInv(t),
           WriteLog(t) \/ Exchange(t)
    PROVE  Touches(t) /\ LogInv(t)'
  <2> USE <1>LogWait
  <2> USE DEF memory, redo, queue, local, monitor, At
  <2>0. /\ ThreadInv(t) /\ era \in [Thread -> [Thread -> Nat]] /\ era[t][t] \in Nat
        /\ log \in [Thread -> Log] /\ op \in [Thread -> Op]
    BY Locals DEF RefInv, TypeOK
  <2>1. era[t][t] <= era[t][t] /\ ~(era[t][t] < era[t][t])
    BY <2>0, SMT
  <2>2. CASE WriteLog(t)
    <3>1. /\ Moves(t) /\ cell' = cell /\ root' = root /\ start' = start /\ end' = end
          /\ listed' = listed /\ receiver_id' = receiver_id /\ pc[t] = "log" /\ pc'[t] = "cas"
      BY <2>2, GotoEffect DEF WriteLog, Moves
    <3> DEFINE new == [func_id |-> op[t].func_id, cnt |-> info[op[t].refed].cnt, era |-> era[t][t],
                       ref |-> op[t].ref, refed |-> op[t].refed]
    <3>2. log'[t] = new
      BY <2>0, <2>2 DEF WriteLog
    <3>3. /\ log'[t].func_id = op[t].func_id /\ log'[t].era = era[t][t] /\ log'[t].ref = op[t].ref
      <4>1. new.func_id = op[t].func_id /\ new.era = era[t][t] /\ new.ref = op[t].ref
        BY SMT
      <4> QED BY <3>2, <4>1
    <3>4. op'[t].ref = op[t].ref /\ op'[t].func_id = op[t].func_id
      <4>1. op'[t] = [op[t] EXCEPT !.saw = info[op[t].refed]]
        BY <2>0, <2>2 DEF WriteLog
      <4> QED BY <4>1, Locals, SMT DEF Op
    <3>5. era'[t][t] = era[t][t] /\ \A u \in Thread \ {t} : era'[u] = era[u]
      <4>1. op[t].refed \in Obj
        BY <2>0, <3>1 DEF ThreadInv, LinkInv, UnlinkInv
      <4>2. info[op[t].refed].by = t => Newer(era[t][t], info[op[t].refed].era) = era[t][t]
        <5>1. info[op[t].refed].era \in Nat
          BY <4>1, Locals
        <5>2. info[op[t].refed].by = t => info[op[t].refed].era <= era[t][t]
          BY <4>1 DEF EraInv, Fresh
        <5> QED BY <2>0, <5>1, <5>2, SMT DEF Newer
      <4>3. CASE info[op[t].refed].by \in Thread
        <5>1. era' = [era EXCEPT ![t] = [era[t] EXCEPT ![info[op[t].refed].by] =
                         Newer(era[t][info[op[t].refed].by], info[op[t].refed].era)]]
          BY <2>2, <4>3 DEF WriteLog
        <5>2. DOMAIN era = Thread /\ DOMAIN era[t] = Thread
          BY <2>0
        <5> QED BY <4>2, <5>1, <5>2
      <4>4. CASE info[op[t].refed].by \notin Thread
        BY <2>2, <4>4 DEF WriteLog
      <4> QED BY <4>3, <4>4
    <3>6. Linking(t)' => Linking(t)
      BY <3>1, <3>3, <3>4 DEF Linking
    <3>7. Touches(t)
      BY <3>1, <3>5, <3>6, <1>TouchesPlain
    <3>8. LogInv(t)'
      BY <2>1, <3>1, <3>3, <3>4, <3>5 DEF LogInv, Stale
    <3> QED BY <3>7, <3>8
  <2>3. CASE Exchange(t)
    <3>1. /\ Moves(t) /\ cell' = cell /\ root' = root /\ start' = start /\ end' = end
          /\ era' = era /\ log' = log /\ op' = op
          /\ listed' = listed /\ receiver_id' = receiver_id /\ pc[t] = "cas"
          /\ pc'[t] \in {"set", "log"}
      BY <2>3, GotoEffect DEF Exchange, Moves
    <3>2. log[t].era = era[t][t] /\ log[t].ref = op[t].ref
      BY <3>1 DEF EraInv, LogInv
    <3>3. Linking(t)' => Linking(t)
      BY <3>1 DEF Linking
    <3>4. Touches(t)
      BY <3>1, <3>3, <1>TouchesPlain
    <3>5. LogInv(t)'
      BY <2>1, <3>1, <3>2 DEF LogInv, Stale
    <3> QED BY <3>4, <3>5
  <2> QED BY <2>2, <2>3

<1>SetRefWait.
    ASSUME TypeOK, TypeOK', NEW t \in Thread, RefInv, EraInv(t), LogInv(t), SetRef(t)
    PROVE  Touches(t) /\ LogInv(t)'
  <2> USE <1>SetRefWait
  <2> USE DEF memory, redo, queue, local, monitor, At
  <2>0. /\ ThreadInv(t) /\ cell \in [Cell -> Obj \cup {None}] /\ era[t][t] \in Nat /\ op[t].ref \in Cell
    BY Locals DEF RefInv, TypeOK
  <2>1. era[t][t] <= era[t][t] /\ ~(era[t][t] < era[t][t])
    BY <2>0, SMT
  <2>2. /\ Moves(t) /\ root' = root /\ start' = start /\ end' = end
        /\ era' = era /\ log' = log /\ op' = op
        /\ listed' = listed /\ receiver_id' = receiver_id /\ pc[t] = "set" /\ pc'[t] = "bump"
        /\ cell' = [cell EXCEPT ![op[t].ref] = IF op[t].func_id = "link" THEN op[t].refed ELSE None]
    BY GotoEffect DEF SetRef, Moves
  <2>3. log[t].era = era[t][t] /\ log[t].ref = op[t].ref
    BY <2>2 DEF EraInv, LogInv
  <2>4. LogInv(t)'
    BY <2>1, <2>2, <2>3 DEF LogInv, Stale
  <2>5. \A c \in Cell : c = op[t].ref \/ cell'[c] = cell[c]
    BY <2>0, <2>2
  <2>6. Late(t) \/ cell'[op[t].ref] = None
    BY <2>0, <2>2 DEF Late
  <2>7. ASSUME NEW u \in Thread \ {t}
        PROVE  /\ pc'[u] = pc[u] /\ op'[u] = op[u] /\ log'[u] = log[u] /\ era'[u] = era[u]
               /\ \A r \in RootPage(u) : cell'[r] = cell[r] /\ root'[r] = root[r]
    <3>1. \A r \in RootPage(u) : r # op[t].ref /\ r \in Cell
      <4>1. Placed(t)
        BY <2>0, <2>2, Place DEF Busy
      <4> QED BY <4>1, Pages DEF Placed, Own, AtEnd, AtStart
    <3> QED BY <2>2, <2>5, <3>1, MovesEffect
  <2>8. ASSUME NEW i \in 0 .. Slots - 1
        PROVE  cell'[Slot(i)] \in {cell[Slot(i)], None} \/ (t = Sender /\ Late(t))
    <3>1. CASE Slot(i) = op[t].ref /\ Late(t)
      <4>1. LinkInv(t)
        BY <2>0, <2>2, <3>1 DEF ThreadInv, Late
      <4>2. t = Sender
        BY <3>1, <4>1, Pages DEF LinkInv, Own, AtEnd
      <4> QED BY <3>1, <4>2
    <3>2. CASE Slot(i) = op[t].ref /\ ~Late(t)
      BY <2>6, <3>2
    <3>3. CASE Slot(i) # op[t].ref
      BY <2>5, <3>3, SlotCells
    <3> QED BY <3>1, <3>2, <3>3
  <2>9. \A r \in RootPage(t) : cell'[r] \in {cell[r], None} \/ Late(t)
    BY <2>5, <2>6, Pages
  <2>10. Linking(t)' => Linking(t)
    BY <2>2 DEF Linking
  <2> QED BY <2>2, <2>4, <2>7, <2>8, <2>9, <2>10 DEF Touches

\* The era ends, and with it the log becomes one of the past.
<1>BumpEraWait.
    ASSUME TypeOK, TypeOK', NEW t \in Thread, RefInv, EraInv(t), LogInv(t), BumpEra(t)
    PROVE  Touches(t) /\ LogInv(t)'
  <2> USE <1>BumpEraWait
  <2> USE DEF memory, redo, queue, local, monitor, At
  <2>0. /\ ThreadInv(t) /\ era \in [Thread -> [Thread -> Nat]] /\ era[t][t] \in Nat
    BY Locals DEF RefInv, TypeOK
  <2>1. /\ Moves(t) /\ cell' = cell /\ root' = root /\ start' = start /\ end' = end
        /\ log' = log /\ op' = op /\ era' = [era EXCEPT ![t][t] = @ + 1]
        /\ listed' = listed /\ receiver_id' = receiver_id /\ pc[t] = "bump"
        /\ pc'[t] = IF op[t].func_id = "unlink" /\ op[t].saw.cnt = 1 THEN "free" ELSE op[t].then
    BY GotoEffect DEF BumpEra, Moves
  <2>2. era'[t][t] = era[t][t] + 1 /\ \A u \in Thread \ {t} : era'[u] = era[u]
    BY <2>0, <2>1
  <2>3. /\ log[t].era = era[t][t] /\ log[t].ref = op[t].ref /\ log[t].refed = op[t].refed
        /\ log[t].func_id = op[t].func_id /\ op[t].func_id \in {"link", "unlink"}
    BY <2>1 DEF EraInv, LogInv
  <2>4. log'[t].era <= era'[t][t] /\ log'[t].era # era'[t][t]
    BY <2>0, <2>1, <2>2, <2>3, SMT
  <2>5. CASE op[t].func_id = "unlink"
    <3>1. op[t].then \in {"drop", "advance"}
      BY <2>0, <2>1, <2>5 DEF ThreadInv, UnlinkInv
    <3>2. pc'[t] \in {"free", "drop", "advance"}
      BY <2>1, <3>1
    <3>3. Linking(t)' => Linking(t)
      BY <2>1, <3>2 DEF Linking
    <3>4. Touches(t)
      BY <2>1, <2>2, <3>2, <3>3, <1>TouchesPlain
    <3>5. Gone(t)'
      BY <2>1, <2>3, <3>2 DEF Gone
    <3>6. LogInv(t)'
      BY <2>1, <2>3, <2>4, <2>5, <3>2, <3>5 DEF LogInv
    <3> QED BY <3>4, <3>6
  <2>6. CASE op[t].func_id = "link"
    <3>1. LinkInv(t) /\ pc'[t] = op[t].then
      BY <2>0, <2>1, <2>6 DEF ThreadInv
    <3>2. cell[op[t].ref] = op[t].refed
      BY <2>1, <3>1 DEF LinkInv
    <3>3. Stays(t)' /\ pc'[t] \in {"received", "sent"}
      <4>1. CASE op[t].then = "received" /\ Own(t)
        BY <2>1, <2>3, <3>1, <3>2, <4>1 DEF Stays, Own, RootPage
      <4>2. CASE op[t].then = "sent" /\ AtEnd(t)
        <5>1. end \in 0 .. Slots - 1
          BY DEF TypeOK
        <5> QED BY <2>1, <2>3, <3>1, <3>2, <4>2, <5>1 DEF Stays, AtEnd, Slot
      <4> QED BY <3>1, <4>1, <4>2 DEF LinkInv
    <3>4. Linking(t)
      BY <2>1, <2>6 DEF Linking
    <3>5. Touches(t)
      BY <2>1, <2>2, <3>3, <3>4, <1>TouchesPlain
    <3>6. LogInv(t)'
      BY <2>1, <2>3, <2>4, <2>6, <3>3 DEF LogInv
    <3> QED BY <3>5, <3>6
  <2> QED BY <2>3, <2>5, <2>6

\* The last step of a call that linked or unlinked a reference.
<1>LastWait.
    ASSUME TypeOK, TypeOK', NEW t \in Thread, RefInv, LogInv(t), FreeRoot(t) \/ Sent(t) \/ Advance(t)
    PROVE  Touches(t) /\ LogInv(t)'
  <2> USE <1>LastWait
  <2> USE DEF memory, redo, queue, local, monitor, At
  <2>0. /\ ThreadInv(t) /\ start \in 0 .. Slots - 1 /\ end \in 0 .. Slots - 1
    BY DEF RefInv, TypeOK
  <2>1. Moves(t) /\ era' = era
    BY CalmSteps DEF Calm
  <2>2. /\ cell' = cell /\ log' = log /\ listed' = listed /\ receiver_id' = receiver_id
        /\ pc[t] \in {"drop", "sent", "advance"} /\ pc'[t] = "idle"
    BY GotoEffect DEF FreeRoot, Sent, Advance
  <2>3. Linking(t)' => Linking(t)
    BY <2>2 DEF Linking
  <2>4. Stale(t)' <=> Stale(t)
    BY <2>1, <2>2 DEF Stale
  <2>5. log[t].func_id # "none" => log[t].era <= era[t][t] /\ log[t].era # era[t][t]
    BY <2>2 DEF LogInv
  <2>6. /\ Stays(t) /\ pc[t] # "sent" /\ end' = end => Stays(t)'
    BY <2>2 DEF Stays, Slot
  <2>7. ASSUME FreeRoot(t) PROVE Touches(t) /\ LogInv(t)'
    <3>1. /\ start' = start /\ end' = end /\ pc[t] = "drop"
          /\ root' = Release(root, op[t].ref, RootPage(t), "local")
      BY <2>7 DEF FreeRoot
    <3>2. op[t].ref \in RootPage(t) /\ RootPage(t) \subseteq Root
      BY <2>0, <3>1, Pages DEF ThreadInv, Own
    <3>3. /\ root'[op[t].ref] = "local"
          /\ \A r \in Root \ {op[t].ref} :
                root'[r] = root[r] \/ (r \in RootPage(t) /\ root'[r] = "local")
      <4>1. \A b \in RootPage(t) :
               /\ Release(root, b, RootPage(t), "local") \in [Root -> {"free", "used", "local"}]
               /\ Release(root, b, RootPage(t), "local")[b] = "local"
               /\ \A r \in Root \ {b} :
                    \/ Release(root, b, RootPage(t), "local")[r] = root[r]
                    \/ /\ r \in RootPage(t) /\ root[r] \in {"free", "local"}
                       /\ Release(root, b, RootPage(t), "local")[r] = "local"
        BY RootLists
      <4> QED BY <3>1, <3>2, <4>1
    <3>4. Touches(t)
      <4>1. \A r \in Root : root'[r] = root[r] \/ r \in RootPage(t)
        BY <3>2, <3>3
      <4> QED BY <2>1, <2>2, <2>3, <3>1, <4>1, <1>TouchesPlain
    <3>5. Gone(t) => Gone(t)'
      <4>1. Gone(t) => log'[t].ref \in RootPage(t) /\ root'[log'[t].ref] = "local"
        BY <2>2, <3>1, <3>2, <3>3 DEF Gone
      <4> QED BY <2>2, <4>1 DEF Gone, RootPage
    <3>6. LogInv(t)'
      BY <2>1, <2>2, <2>4, <2>5, <2>6, <3>1, <3>5 DEF LogInv
    <3> QED BY <3>4, <3>6
  <2>8. ASSUME Sent(t) PROVE Touches(t) /\ LogInv(t)'
    <3>1. root' = root /\ start' = start /\ end' = (end + 1) % Slots /\ pc[t] = "sent" /\ t = Sender
      BY <2>0, <2>8 DEF Sent, ThreadInv, AtEnd
    <3>2. Touches(t)
      BY <2>1, <2>2, <2>3, <3>1, <1>TouchesPlain
    <3>3. Gone(t) => Gone(t)'
      BY <2>2, <3>1 DEF Gone, RootPage, Slot
    <3>4. Stays(t) => Stays(t)'
      BY <2>0, <2>2, <3>1 DEF Stays, Slot
    <3>5. LogInv(t)'
      BY <2>1, <2>2, <2>4, <2>5, <3>3, <3>4 DEF LogInv
    <3> QED BY <3>2, <3>5
  <2>9. ASSUME Advance(t) PROVE Touches(t) /\ LogInv(t)'
    <3>1. /\ root' = root /\ end' = end /\ start' = (start + 1) % Slots /\ pc[t] = "advance"
          /\ t = Receiver /\ op[t].ref = Slot(start)
      BY <2>0, <2>9 DEF Advance, ThreadInv, AtStart
    <3>2. Touches(t)
      BY <2>1, <2>2, <2>3, <3>1, <1>TouchesPlain
    <3>3. Gone(t) => Gone(t)'
      BY <2>0, <2>2, <3>1 DEF Gone, RootPage, Slot
    <3>4. LogInv(t)'
      BY <2>1, <2>2, <2>4, <2>5, <2>6, <3>1, <3>3 DEF LogInv
    <3> QED BY <3>2, <3>4
  <2> QED BY <2>7, <2>8, <2>9
<1> SUFFICES ASSUME TypeOK, TypeOK', RefInv, Eras, WaitInv, NEW t \in Thread, Step(t)
             PROVE  WaitInv'
  OBVIOUS
<1>1. LogInv(t) /\ EraInv(t) /\ ThreadInv(t)
  BY DEF WaitInv, Eras, RefInv
<1>2. Touches(t) /\ LogInv(t)'
  BY <1>1, <1>AllocWait, <1>CalmWait, <1>BlockWait, <1>LogWait, <1>SetRefWait, <1>BumpEraWait, <1>LastWait
     DEF Step
<1>3. ASSUME NEW u \in Thread PROVE LogInv(u)'
  <2>1. CASE u # t
    BY <1>2, <2>1, <1>LogOthers DEF WaitInv
  <2> QED BY <1>2, <2>1
<1>4. QueueInv'
  BY <1>1, <1>2, <1>QueueKept DEF WaitInv
<1> QED BY <1>3, <1>4 DEF WaitInv

\* Exits and stuttering keep what the monitor will need.
LEMMA WaitSame ==
  ASSUME WaitInv, UNCHANGED <<memory, redo, queue, local>>
  PROVE  WaitInv'
<1> USE DEF memory, redo, queue, local
<1>1. ASSUME NEW t \in Thread PROVE LogInv(t)'
  <2>1. LogInv(t)
    BY DEF WaitInv
  <2>2. (Gone(t)' <=> Gone(t)) /\ (Stale(t)' <=> Stale(t))
    BY DEF Gone, Stale, RootPage, Slot
  <2>3. Stays(t)' <=> Stays(t)
    BY DEF Stays, RootPage, Slot
  <2> QED BY <2>1, <2>2, <2>3 DEF LogInv
<1>2. \A t \in Thread : (Linking(t)' <=> Linking(t)) /\ (Private(t)' <=> Private(t))
  BY DEF Linking, Private, RootPage
<1>3. QueueInv'
  BY <1>2 DEF WaitInv, QueueInv, Slot
<1> QED BY <1>1, <1>3 DEF WaitInv

-----------------------------------------------------------------------------
\* What is left to the monitor, once it has started: the threads whose slots it has
\* still to go through, and the cells it will yet visit.
Coming(t) == mon[1] < t \/ (mon[1] = t /\ mon[2] \in {"redo", "roots"})

Elements(s) == {s[k] : k \in 1 .. Len(s)}

Todo == Elements(todo)

Visit(c) ==
    \/ \E t \in Thread : /\ c \in RootPage(t) /\ root[c] = "used"
                         /\ Pending(t) \/ (mon = <<t, "roots">> /\ c \in Todo)
    \/ \E i \in 0 .. Slots - 1 :
         /\ c = Slot(i)
         /\ \/ Coming(Sender) /\ Sender \in listed /\ (InRing(i) => receiver_id = 0)
            \/ Coming(Receiver) /\ Receiver \in listed /\ InRing(i)
            \/ mon[2] = "slots" /\ c \in Todo

\* The redo of a log stores nothing else than o in the cell c ...
MayRedo(t) == log[t].func_id # "none" /\ (log[t].era = era[t][t] => pc[t] \in {"set", "bump"})

Spares(c, o) ==
    \A t \in Thread : Pending(t) /\ MayRedo(t) /\ log[t].ref = c =>
                        log[t].func_id = "link" /\ log[t].refed = o

\* ... or it is awaited, and will store o there.
Awaited(c, o) ==
    \E t \in Thread :
        /\ Pending(t) /\ pc[t] = "set" /\ op[t].func_id = "link"
        /\ op[t].ref = c /\ op[t].refed = o
        /\ \/ c \in RootPage(t) /\ root[c] = "used"
           \/ t = Sender /\ c = Slot(end) /\ Sender \in listed

\* The cells from which the monitor will yet release o: no fewer than o's count.
Due(o) == {c \in Cell : Spares(c, o) /\ ((cell[c] = o /\ Visit(c)) \/ Awaited(c, o))}

DueInv ==
    \A o \in Obj : info[o].cnt <= Cardinality(Due(o)) /\ (blk[o] # "taken" => info[o].cnt = 0)

\* A sender that exited before it had the queue on its list never shared an object.
OrphanInv ==
    sender_id # 0 /\ Sender \notin listed =>
        /\ listed = {} /\ \A t \in Thread : log[t].func_id # "link" /\ Private(t)
        /\ mon[1] > Sender => seg[Sender] = "free"

RecoverInv ==
    /\ mon[2] \in {"redo", "roots", "slots"} => mon[1] \in Thread
    /\ mon[2] \in {"sweep", "done"} => mon[1] = Threads + 1
    /\ DueInv /\ OrphanInv
    /\ \A t \in Thread : Pending(t) /\ pc[t] \in {"set", "bump"} => log[t].ref = op[t].ref
    /\ mon[2] = "roots" => Todo \subseteq RootPage(mon[1])
    /\ \A t \in listed : mon[1] <= t
    /\ receiver_id # 0 => Receiver \in listed
    /\ Reclaimed

\* What the proofs need to know about sizes (CellSizes, below).
Sizes ==
    /\ Counting /\ Cardinality({}) = 0
    /\ \A S \in SUBSET Cell : \A T \in SUBSET S : Cardinality(T) <= Cardinality(S)

JInv ==
    /\ Sizes
    /\ mon[2] = "wait" => WaitInv
    /\ mon[2] # "wait" => RecoverInv

\* Nothing is logged at first.
LEMMA InitJInv ==
  ASSUME Init, Sizes
  PROVE  JInv
<1>1. mon[2] = "wait"
  BY SMT DEF Init
<1>2. \A t \in Thread : pc[t] = "idle" /\ log[t] = NoLog
  BY DEF Init
<1>3. NoLog.func_id = "none"
  BY SMT DEF NoLog
<1>4. \A t \in Thread : LogInv(t)
  BY <1>2, <1>3 DEF LogInv, Stale
<1>5. \A t \in Thread : Private(t)
  BY Pages DEF Init, Private
<1>6. QueueInv
  BY <1>2, <1>3, <1>5, SlotCells, Numbers DEF Init, QueueInv, Linking
<1> QED BY <1>1, <1>4, <1>6 DEF JInv, WaitInv

\* The eras tell the monitor whose store to repeat.
LEMMA RedoDecided ==
  ASSUME IInv
  PROVE  RedoDecides
<1> SUFFICES ASSUME NEW t \in Thread, mon[1] <= t,
                    mon[2] \in {"wait", "redo", "roots", "slots"},
                    ~(mon[1] = t /\ mon[2] # "redo"),
                    log[t].func_id # "none", log[t].era = era[t][t]
             PROVE  NeedRedo(t) <=> pc[t] \in {"set", "bump"}
  BY DEF RedoDecides
<1>1. EraInv(t) /\ TypeOK
  BY DEF IInv, Pending
<1>2. log[t].refed \in Obj
  BY <1>1 DEF EraInv
<1>3. \A u \in Thread : u \in 1 .. MAX_THREAD - 1 /\ era[u][t] \in Nat
  <2>1. \A u \in Thread : era[u] \in [Thread -> Nat]
    BY <1>1 DEF TypeOK
  <2> QED BY <2>1, ThreadNat
<1>4. ASSUME NeedRedo(t) PROVE pc[t] \in {"set", "bump"}
  <2>1. CASE info[log[t].refed].by = t /\ info[log[t].refed].era = log[t].era
    BY <1>1, <1>2, <2>1 DEF EraInv, Fresh
  <2>2. CASE \E u \in Thread \ {t} : log[t].era <= era[u][t]
    <3>1. PICK u \in Thread \ {t} : era[t][t] <= era[u][t]
      BY <2>2
    <3>2. Fresh(t, era[u][t])
      BY <1>1 DEF EraInv
    <3>3. era[u][t] = era[t][t]
      BY <1>3, <3>1, <3>2, SMT DEF Fresh
    <3> QED BY <3>2, <3>3 DEF Fresh
  <2> QED BY <1>4, <2>1, <2>2 DEF NeedRedo
<1>5. ASSUME pc[t] \in {"set", "bump"} PROVE NeedRedo(t)
  <2>1. Noted(t) /\ log[t].refed = op[t].refed
    BY <1>1, <1>5 DEF EraInv
  <2>2. \A u \in Thread \ {t} : era[u][t] >= era[t][t] => era[t][t] <= era[u][t]
    BY <1>3, SMT
  <2> QED BY <1>3, <2>1, <2>2 DEF Noted, NeedRedo
<1> QED BY <1>4, <1>5

\* A count, when the cells it is due for are no fewer than before.
LEMMA DueKept ==
  ASSUME TypeOK, Sizes, NEW o \in Obj, NEW S, S \subseteq Due(o)', info[o].cnt <= Cardinality(S)
  PROVE  info[o].cnt <= Cardinality(Due(o)')
<1>1. Due(o)' \in SUBSET Cell
  BY DEF Due, Cell, Root, Thread
<1>2. Cardinality(S) <= Cardinality(Due(o)') /\ Cardinality(Due(o)') \in Nat /\ Cardinality(S) \in Nat
  BY <1>1 DEF Sizes, Counting
<1>3. info[o].cnt \in Nat
  BY Locals, Numbers
<1> QED BY <1>2, <1>3, SMT

\* When all have exited, the cells that hold a counted reference are those the
\* monitor will visit, or will first have to restore.
LEMMA StartRecover ==
  IInv /\ JInv /\ StartMonitor => RecoverInv'
\* The slot before start is outside the queue, and end there means a full queue.
<1>SlotBefore.
    ASSUME TypeOK, NEW i \in 0 .. Slots - 1, (i + 1) % Slots = start
    PROVE  ~InRing(i) /\ (i = end => Full)
  <2> USE <1>SlotBefore
  <2>1. start = IF i + 1 = Slots THEN 0 ELSE i + 1
    BY NextSlot
  <2> QED BY <2>1, Numbers, SMT DEF InRing, Full, TypeOK

\* A thread at work on the cell of another's stale log: there is none.
<1>StaleUnlink.
    ASSUME TypeOK, RefInv, NEW t \in Thread, Gone(t)
    PROVE  /\ cell[log[t].ref] = None
           /\ \A u \in Thread \ {t} : Placed(u) => op[u].ref # log[t].ref
  <2> USE <1>StaleUnlink
  <2>0. ThreadInv(t) /\ RootInv(t) /\ SlotInv /\ ThreadInv(Sender)
    BY Numbers DEF RefInv
  <2>1. CASE pc[t] \in {"free", "drop", "advance"}
    <3>1. op[t].ref = log[t].ref /\ cell[op[t].ref] = None
      BY <2>0, <2>1 DEF Gone, ThreadInv, UnlinkInv
    <3>2. Placed(t)
      BY <2>0, <2>1, Place DEF ThreadInv, Placed, Busy
    <3> QED BY <3>1, <3>2, Alone
  <2>2. CASE log[t].ref \in RootPage(t) /\ root[log[t].ref] = "local"
    <3>1. cell[log[t].ref] = None
      BY <2>0, <2>2 DEF RootInv
    <3>2. ASSUME NEW u \in Thread \ {t}, Placed(u) PROVE op[u].ref # log[t].ref
      BY <2>2, <3>2, Pages DEF Placed, Own, AtEnd, AtStart
    <3> QED BY <3>1, <3>2
  <2>3. ASSUME NEW i \in 0 .. Slots - 1, t = Receiver, log[t].ref = Slot(i), (i + 1) % Slots = start
        PROVE  /\ cell[log[t].ref] = None
               /\ \A u \in Thread \ {t} : Placed(u) => op[u].ref # log[t].ref
    <3>1. ~InRing(i) /\ (i = end => Full)
      BY <2>3, <1>SlotBefore
    <3>2. ASSUME NEW u \in Thread, AtEnd(u) PROVE op[u].ref # Slot(i)
      BY <3>1, <3>2, SlotCells DEF AtEnd
    <3>3. cell[Slot(i)] = None
      <4>1. SUFFICES ASSUME i = end, pc[Sender] \in {"bump", "sent"}, op[Sender].ref = Slot(end)
                     PROVE  FALSE
        BY <2>0, <3>1 DEF SlotInv
      <4>2. Placed(Sender)
        <5>1. CASE pc[Sender] = "sent"
          BY <2>0, <5>1 DEF ThreadInv, Placed
        <5>2. CASE pc[Sender] = "bump"
          BY <2>0, <5>2, Place, Numbers DEF Busy
        <5> QED BY <4>1, <5>1, <5>2
      <4>3. ~Own(Sender) /\ ~AtStart(Sender)
        <5>1. Slot(end) \notin RootPage(Sender)
          BY Pages, Numbers
        <5>2. Slot(start) = Slot(end) => start = end
          BY SlotCells
        <5> QED BY <4>1, <5>1, <5>2 DEF Own, AtStart
      <4> QED BY <3>2, <4>1, <4>2, <4>3, Numbers DEF Placed
    <3>4. ASSUME NEW u \in Thread \ {t}, Placed(u) PROVE op[u].ref # Slot(i)
      <4>1. ~AtStart(u)
        BY <2>3 DEF AtStart
      <4>2. Own(u) => op[u].ref # Slot(i)
        BY Pages DEF Own
      <4> QED BY <3>2, <3>4, <4>1, <4>2 DEF Placed
    <3> QED BY <2>3, <3>3, <3>4
  <2> QED BY <2>1, <2>2, <2>3 DEF Gone

\* What the logs may store in a cell that refers to o ...
<1>StoredSpares.
    ASSUME TypeOK, RefInv, Eras, NEW t \in Thread, LogInv(t), NEW c \in Cell, NEW o \in Obj,
           cell[c] = o, op[t].ref = c => ~Early(t), MayRedo(t), log[t].ref = c
    PROVE  log[t].func_id = "link" /\ log[t].refed = o
  <2> USE <1>StoredSpares
  <2>0. ThreadInv(t) /\ EraInv(t) /\ o # None /\ log[t].func_id \in {"link", "unlink"}
    <3>1. log[t].func_id \in {"none", "link", "unlink"}
      <4>1. log[t] \in Log
        BY Locals
      <4> QED BY <4>1, SMT DEF Log
    <3> QED BY <3>1, Numbers DEF RefInv, Eras, MayRedo
  <2>1. CASE log[t].era = era[t][t]
    <3>1. pc[t] \in {"set", "bump"} /\ op[t].ref = c
      BY <2>1 DEF MayRedo, LogInv
    <3>2. log[t].func_id = op[t].func_id /\ log[t].refed = op[t].refed
      BY <2>0, <3>1 DEF EraInv
    <3>3. CASE op[t].func_id = "link"
      <4>1. LinkInv(t)
        BY <2>0, <3>1, <3>3 DEF ThreadInv
      <4> QED BY <2>0, <3>1, <3>2, <3>3, <4>1 DEF LinkInv
    <3>4. CASE op[t].func_id = "unlink"
      <4>1. UnlinkInv(t)
        BY <2>0, <3>1, <3>4 DEF ThreadInv
      <4> QED BY <2>0, <3>1, <3>4, <4>1 DEF UnlinkInv, Early
    <3> QED BY <2>0, <3>2, <3>3, <3>4
  <2>2. CASE log[t].era # era[t][t]
    <3>1. Stale(t)
      <4>1. log[t].era <= era[t][t] /\ log[t].era \in Nat /\ era[t][t] \in Nat
        <5>1. log[t] \in Log /\ era[t][t] \in Nat
          BY Locals
        <5>2. log[t].era \in Nat
          BY <5>1, SMT DEF Log
        <5> QED BY <2>0, <5>1, <5>2 DEF LogInv
      <4>2. log[t].era < era[t][t]
        BY <2>2, <4>1, SMT
      <4> QED BY <2>0, <4>2 DEF Stale
    <3>2. log[t].func_id # "unlink"
      BY <2>0, <3>1, <1>StaleUnlink DEF LogInv
    <3>3. log[t].func_id = "link" /\ Stays(t)
      BY <2>0, <3>1, <3>2 DEF LogInv
    <3> QED BY <2>0, <3>3 DEF Stays
  <2> QED BY <2>1, <2>2

\* ... and in one where a thread has still to store o.
<1>AwaitedSpares.
    ASSUME TypeOK, RefInv, Eras, NEW t \in Thread, Late(t), NEW u \in Thread, LogInv(u), LogInv(t),
           MayRedo(u), log[u].ref = op[t].ref
    PROVE  log[u].func_id = "link" /\ log[u].refed = op[t].refed
  <2> USE <1>AwaitedSpares
  <2>0. /\ ThreadInv(t) /\ EraInv(t) /\ EraInv(u) /\ ThreadInv(u)
        /\ pc[t] = "set" /\ op[t].func_id = "link"
    BY DEF RefInv, Eras, Late
  <2>1. CASE u = t
    BY <2>0, <2>1 DEF EraInv
  <2>2. CASE u # t
    <3>1. LinkInv(t)
      BY <2>0 DEF ThreadInv
    <3>2. Placed(t) /\ cell[op[t].ref] = None
      BY <2>0, <3>1, Place DEF LinkInv, Busy
    <3>3. log[u].era # era[u][u]
      <4>1. SUFFICES ASSUME pc[u] \in {"set", "bump"} PROVE FALSE
        BY DEF MayRedo
      <4>2. op[u].ref = op[t].ref /\ Placed(u)
        BY <2>0, <4>1, Place DEF LogInv, Busy
      <4> QED BY <2>2, <3>2, <4>2, Alone
    <3>4. Stale(u) /\ log[u].func_id \in {"link", "unlink"}
      <4>1. log[u] \in Log /\ era[u][u] \in Nat
        BY Locals
      <4>2. log[u].era \in Nat /\ log[u].func_id \in {"none", "link", "unlink"}
        BY <4>1, SMT DEF Log
      <4>3. log[u].era <= era[u][u]
        BY DEF LogInv, MayRedo
      <4>4. log[u].era < era[u][u]
        BY <3>3, <4>1, <4>2, <4>3, SMT
      <4> QED BY <4>2, <4>4 DEF Stale, MayRedo
    <3>5. log[u].func_id # "unlink"
      BY <2>2, <3>2, <3>4, <1>StaleUnlink DEF LogInv
    <3>6. Stays(u) /\ log[u].refed \in Obj
      BY <2>0, <3>4, <3>5 DEF LogInv, EraInv
    <3>7. t # Sender /\ \E i \in 0 .. Slots - 1 : op[t].ref = Slot(i)
      BY <2>2, <3>2, <3>6, Numbers DEF Stays
    <3>8. Own(t)
      BY <3>1, <3>7 DEF LinkInv, AtEnd
    <3> QED BY <3>7, <3>8, Pages DEF Own
  <2> QED BY <2>1, <2>2

\* A counted reference is in a cell that the monitor will visit, or is awaited in one.
<1>HeldVisited.
    ASSUME TypeOK, RefInv, QueueInv, NEW o \in Obj, NEW c \in Cell, cell[c] = o,
           \A t \in Thread : Pending(t)' /\ Coming(t)', cell' = cell, root' = root,
           queue' = queue
    PROVE  Visit(c)'
  <2> USE <1>HeldVisited
  <2> USE DEF queue
  <2>0. o # None /\ Sender \in Thread /\ Receiver \in Thread
    BY Numbers
  <2>1. CASE \E t \in Thread : c \in RootPage(t)
    <3>1. PICK t \in Thread : c \in RootPage(t)
      BY <2>1
    <3>2. root[c] = "used"
      BY <2>0, <3>1 DEF RefInv, RootInv
    <3> QED BY <3>1, <3>2 DEF Visit, RootPage
  <2>2. CASE \E i \in 0 .. Slots - 1 : c = Slot(i)
    <3>1. PICK i \in 0 .. Slots - 1 : c = Slot(i)
      BY <2>2
    <3>2. Sender \in listed
      BY <2>0, <3>1 DEF QueueInv
    <3>3. InRing(i)' <=> InRing(i)
      BY DEF InRing
    <3>4. CASE InRing(i) /\ receiver_id # 0
      <4>1. Receiver \in listed
        BY <3>4 DEF QueueInv
      <4>2. Coming(Receiver)' /\ Receiver \in listed' /\ InRing(i)'
        BY <2>0, <3>3, <3>4, <4>1
      <4> QED BY <3>1, <4>2 DEF Visit, Slot
    <3>5. CASE ~InRing(i) \/ receiver_id = 0
      <4>1. Coming(Sender)' /\ Sender \in listed' /\ (InRing(i)' => receiver_id' = 0)
        BY <2>0, <3>2, <3>3, <3>5
      <4> QED BY <3>1, <4>1 DEF Visit, Slot
    <3> QED BY <3>4, <3>5
  <2> QED BY <2>1, <2>2, CellKinds
<1> SUFFICES ASSUME IInv, JInv, StartMonitor
             PROVE  RecoverInv'
  OBVIOUS
<1> USE DEF memory, redo, queue, local
<1>1. /\ mon[1] = 0 /\ mon[2] = "wait" /\ mon'[1] = 1 /\ mon'[2] = "redo"
      /\ UNCHANGED <<memory, redo, queue, local, dead, todo, seg>>
  <2>1. /\ mon = <<0, "wait">> /\ mon' = <<1, "redo">>
        /\ UNCHANGED <<memory, redo, queue, local, dead, todo, seg>>
    BY DEF StartMonitor, Monitor
  <2> QED BY <2>1, SMT
<1>2. TypeOK /\ RefInv /\ Eras /\ WaitInv /\ Sizes
  BY <1>1, Waiting DEF JInv
<1>3. ASSUME NEW t \in Thread PROVE Pending(t)' /\ Coming(t)' /\ LogInv(t) /\ t >= 1
  <2>1. t >= 1 /\ 1 <= t /\ (1 < t \/ 1 = t)
    BY ThreadNat, SMT
  <2> QED BY <1>1, <1>2, <2>1 DEF Pending, Coming, WaitInv
<1>4. ASSUME NEW o \in Obj, NEW c \in Cell, Has(c, o) PROVE Spares(c, o)'
  <2>1. ASSUME NEW t \in Thread, MayRedo(t), log[t].ref = c
        PROVE  log[t].func_id = "link" /\ log[t].refed = o
    <3>1. CASE cell[c] = o /\ \A u \in Thread : op[u].ref = c => ~Early(u)
      BY <1>2, <1>3, <2>1, <3>1, <1>StoredSpares
    <3>2. CASE \E u \in Thread : Late(u) /\ op[u].ref = c /\ op[u].refed = o
      BY <1>2, <1>3, <2>1, <3>2, <1>AwaitedSpares
    <3> QED BY <1>4, <3>1, <3>2 DEF Has
  <2>2. \A t \in Thread : MayRedo(t)' <=> MayRedo(t)
    BY <1>1 DEF MayRedo
  <2> QED BY <1>1, <2>1, <2>2 DEF Spares
<1>5. ASSUME NEW o \in Obj, NEW c \in Cell, Has(c, o)
      PROVE  (cell'[c] = o /\ Visit(c)') \/ Awaited(c, o)'
  <2>1. CASE cell[c] = o
    BY <1>1, <1>2, <1>3, <2>1, <1>HeldVisited DEF WaitInv
  <2>2. CASE \E t \in Thread : Late(t) /\ op[t].ref = c /\ op[t].refed = o
    <3>1. PICK t \in Thread : Late(t) /\ op[t].ref = c /\ op[t].refed = o
      BY <2>2
    <3>2. LinkInv(t) /\ pc[t] = "set" /\ op[t].func_id = "link"
      BY <1>2, <3>1 DEF RefInv, ThreadInv, Late
    <3>3. Sender \in listed
      <4>1. Linking(t)
        BY <3>2 DEF Linking
      <4> QED BY <1>2, <4>1 DEF WaitInv, QueueInv
    <3>4. (c \in RootPage(t) /\ root[c] = "used") \/ (t = Sender /\ c = Slot(end) /\ Sender \in listed)
      BY <3>1, <3>2, <3>3 DEF LinkInv, Own, AtEnd
    <3>5. (c \in RootPage(t)' /\ root'[c] = "used") \/ (t = Sender /\ c = Slot(end)' /\ Sender \in listed')
      BY <1>1, <3>4 DEF RootPage, Slot
    <3>6. Pending(t)' /\ pc'[t] = "set" /\ op'[t].func_id = "link" /\ op'[t].ref = c /\ op'[t].refed = o
      BY <1>1, <1>3, <3>1, <3>2
    <3> QED BY <3>5, <3>6 DEF Awaited
  <2> QED BY <1>5, <2>1, <2>2 DEF Has
<1>6. DueInv'
  <2>1. ASSUME NEW o \in Obj PROVE info[o].cnt <= Cardinality(Due(o)')
    <3>1. Held(o) \subseteq Due(o)'
      BY <1>4, <1>5 DEF Held, Due, Cell, Root, Thread
    <3>2. info[o].cnt <= Cardinality(Held(o))
      <4>1. info[o].cnt = Cardinality(Held(o)) /\ info[o].cnt \in Nat
        BY <1>2, Locals, Numbers DEF RefInv, CountInv
      <4> QED BY <4>1, SMT
    <3> QED BY <1>2, <3>1, <3>2, DueKept
  <2>2. ASSUME NEW o \in Obj, blk[o] # "taken" PROVE info[o].cnt = 0
    <3>1. NoInfo.cnt = 0
      BY SMT DEF NoInfo
    <3> QED BY <1>2, <2>2, <3>1 DEF RefInv, BlockInv
  <2> QED BY <1>1, <2>1, <2>2 DEF DueInv
<1>7. OrphanInv'
  <2>1. SUFFICES ASSUME Sender \notin listed
                 PROVE  /\ listed = {} /\ \A t \in Thread : log[t].func_id # "link" /\ Private(t)'
                        /\ ~(mon'[1] > Sender)
    BY <1>1 DEF OrphanInv
  <2>2. listed = {} /\ \A t \in Thread : log[t].func_id # "link" /\ Private(t)
    BY <1>2, <2>1 DEF WaitInv, QueueInv, TypeOK, Linking
  <2>3. \A t \in Thread : Private(t)' <=> Private(t)
    BY <1>1 DEF Private, RootPage
  <2>4. ~(1 > Sender)
    BY Numbers, ThreadNat, SMT
  <2> QED BY <1>1, <2>2, <2>3, <2>4
<1>8. 1 \in Thread /\ \A t \in listed : 1 <= t
  <2>1. Sender \in Thread /\ Receiver \in Thread /\ listed \subseteq {Sender, Receiver}
    BY <1>2, Numbers DEF TypeOK
  <2>2. 1 <= Sender /\ 1 <= Receiver /\ 1 \in Thread
    BY <2>1, Numbers, SMT DEF Thread
  <2> QED BY <2>1, <2>2
<1>9. \A t \in Thread : pc[t] \in {"set", "bump"} => log[t].ref = op[t].ref
  BY <1>3 DEF LogInv
<1>10. receiver_id # 0 => Receiver \in listed
  BY <1>2 DEF WaitInv, QueueInv
<1> QED BY <1>1, <1>6, <1>7, <1>8, <1>9, <1>10 DEF RecoverInv, Reclaimed, Thread

-----------------------------------------------------------------------------
\* What a step of the monitor keeps.
LEMMA SparesKept ==
  ASSUME NEW c, NEW o, Spares(c, o),
         \A u \in Thread : Pending(u)' => /\ Pending(u) /\ log'[u] = log[u] /\ pc'[u] = pc[u]
                                          /\ era'[u][u] = era[u][u]
  PROVE  Spares(c, o)'
<1>1. \A u \in Thread : Pending(u)' => (MayRedo(u)' <=> MayRedo(u))
  BY DEF MayRedo
<1> QED BY <1>1 DEF Spares

\* A reference that a redo will restore stays so.
LEMMA AwaitedKept ==
  ASSUME NEW c, NEW o, NEW u \in Thread, Pending(u)', pc[u] = "set", op[u].func_id = "link",
         op[u].ref = c, op[u].refed = o, pc' = pc, op' = op, end' = end,
         \/ c \in RootPage(u) /\ root'[c] = "used"
         \/ u = Sender /\ c = Slot(end) /\ Sender \in listed'
  PROVE  Awaited(c, o)'
<1>1. \/ c \in RootPage(u)' /\ root'[c] = "used"
      \/ u = Sender /\ c = Slot(end)' /\ Sender \in listed'
  BY DEF RootPage, Slot
<1> QED BY <1>1 DEF Awaited

\* The redo stores what is awaited, and nothing that is due is lost.
LEMMA RedoRecover ==
  ASSUME IInv, Sizes, RecoverInv, NEW t \in Thread, Redo(t)
  PROVE  RecoverInv'
<1> USE DEF redo, queue, local
<1>1. /\ mon[1] = t /\ mon[2] = "redo" /\ mon' = <<t, "roots">> /\ mon'[1] = t /\ mon'[2] = "roots"
      /\ UNCHANGED <<info, blk, root, redo, queue, local, dead, seg>>
      /\ todo' = [k \in 1 .. Roots |-> <<t, k>>]
      /\ cell' = IF log[t].func_id # "none" /\ NeedRedo(t)
                 THEN [cell EXCEPT ![log[t].ref] =
                         IF log[t].func_id = "link" THEN log[t].refed ELSE None]
                 ELSE cell
  <2>1. /\ mon = <<t, "redo">> /\ mon' = <<t, "roots">>
        /\ UNCHANGED <<info, blk, root, redo, queue, local, dead, seg>>
        /\ todo' = [k \in 1 .. Roots |-> <<t, k>>]
        /\ cell' = IF log[t].func_id # "none" /\ NeedRedo(t)
                   THEN [cell EXCEPT ![log[t].ref] =
                           IF log[t].func_id = "link" THEN log[t].refed ELSE None]
                   ELSE cell
    BY DEF Redo, Monitor
  <2>2. mon[1] = t /\ mon[2] = "redo" /\ mon'[1] = t /\ mon'[2] = "roots"
    BY <2>1, Pair
  <2> QED BY <2>1, <2>2
<1>2. t <= t /\ ~(t < t)
  BY ThreadNat, SMT
<1>3. TypeOK /\ Pending(t) /\ EraInv(t)
  BY <1>1, <1>2 DEF IInv, Pending
<1>4. \A u \in Thread : (Pending(u)' <=> Pending(u) /\ u # t) /\ (Coming(u)' <=> Coming(u))
  BY <1>1 DEF Pending, Coming
<1>5. Todo' = RootPage(t)
  <2>1. Len(todo') = Roots /\ \A k \in 1 .. Roots : todo'[k] = <<t, k>>
    BY <1>1, Numbers, SMT
  <2>2. \A x : x \in RootPage(t) <=> \E k \in 1 .. Roots : x = <<t, k>>
    BY SMT DEF RootPage
  <2>3. \A x : x \in Todo' <=> \E k \in 1 .. Roots : x = todo'[k]
    BY <2>1 DEF Todo, Elements
  <2>4. ASSUME NEW x \in Todo' PROVE x \in RootPage(t)
    <3>1. PICK k \in 1 .. Roots : x = todo'[k]
      BY <2>3
    <3>2. x = <<t, k>>
      BY <2>1, <3>1
    <3> QED BY <2>2, <3>2
  <2>5. ASSUME NEW x \in RootPage(t) PROVE x \in Todo'
    <3>1. PICK k \in 1 .. Roots : x = <<t, k>>
      BY <2>2
    <3>2. x = todo'[k]
      BY <2>1, <3>1
    <3> QED BY <2>3, <3>2
  <2> QED BY <2>4, <2>5
<1>6. /\ log[t].func_id # "none" /\ NeedRedo(t) => MayRedo(t)
      /\ pc[t] = "set" => log[t].func_id # "none" /\ NeedRedo(t)
  <2>1. log[t].func_id # "none" /\ log[t].era = era[t][t] => (NeedRedo(t) <=> pc[t] \in {"set", "bump"})
    BY <1>1, <1>2, RedoDecided DEF RedoDecides
  <2>2. pc[t] = "set" => log[t].func_id # "none" /\ log[t].era = era[t][t]
    BY <1>3 DEF EraInv
  <2> QED BY <2>1, <2>2 DEF MayRedo
<1>7. /\ \A c \in Cell : c # log[t].ref => cell'[c] = cell[c]
      /\ cell'[log[t].ref] = IF log[t].func_id # "none" /\ NeedRedo(t)
                             THEN IF log[t].func_id = "link" THEN log[t].refed ELSE None
                             ELSE cell[log[t].ref]
      /\ log[t].ref \in Cell
  <2>1. cell \in [Cell -> Obj \cup {None}]
    BY <1>3 DEF TypeOK
  <2>2. log[t].ref \in Cell
    <3>1. log[t] \in Log
      BY <1>3, Locals
    <3> QED BY <3>1, SMT DEF Log
  <2> QED BY <1>1, <2>1, <2>2
<1>8. ASSUME NEW c \in Cell, Visit(c) PROVE Visit(c)'
  <2>1. CASE \E u \in Thread : c \in RootPage(u) /\ root[c] = "used" /\ Pending(u)
    <3>1. PICK u \in Thread : c \in RootPage(u) /\ root[c] = "used" /\ Pending(u)
      BY <2>1
    <3>2. Pending(u)' \/ (mon' = <<u, "roots">> /\ c \in Todo')
      BY <1>1, <1>4, <1>5, <3>1
    <3> QED BY <1>1, <3>1, <3>2 DEF Visit, RootPage
  <2>2. CASE \E i \in 0 .. Slots - 1 :
               /\ c = Slot(i)
               /\ \/ Coming(Sender) /\ Sender \in listed /\ (InRing(i) => receiver_id = 0)
                  \/ Coming(Receiver) /\ Receiver \in listed /\ InRing(i)
    <3>1. \A i : InRing(i)' <=> InRing(i)
      BY <1>1 DEF InRing
    <3>2. Coming(Sender)' <=> Coming(Sender)
      BY <1>4, Numbers
    <3>3. Coming(Receiver)' <=> Coming(Receiver)
      BY <1>4, Numbers
    <3> QED BY <1>1, <2>2, <3>1, <3>2, <3>3 DEF Visit, Slot
  <2>3. mon # <<t, "roots">> /\ mon[2] # "slots" /\ \A u \in Thread : mon # <<u, "roots">>
    <3>1. \A u : <<u, "roots">>[2] = "roots"
      BY SMT
    <3> QED BY <1>1, <3>1
  <2> QED BY <1>8, <2>1, <2>2, <2>3 DEF Visit
<1>9. ASSUME NEW o \in Obj, NEW c \in Due(o) PROVE c \in Due(o)'
  <2>1. c \in Cell /\ Spares(c, o)
    BY DEF Due
  <2>2. Spares(c, o)'
    BY <1>1, <1>4, <2>1, SparesKept
  <2>3. CASE cell[c] = o /\ Visit(c)
    <3>1. cell'[c] = o
      BY <1>3, <1>6, <1>7, <2>1, <2>3 DEF Spares
    <3> QED BY <1>8, <2>1, <2>2, <2>3, <3>1 DEF Due, Cell, Root, Thread
  <2>4. CASE Awaited(c, o)
    <3>1. PICK u \in Thread :
             /\ Pending(u) /\ pc[u] = "set" /\ op[u].func_id = "link"
             /\ op[u].ref = c /\ op[u].refed = o
             /\ \/ c \in RootPage(u) /\ root[c] = "used"
                \/ u = Sender /\ c = Slot(end) /\ Sender \in listed
      BY <2>4 DEF Awaited
    <3>2. CASE u # t
      <4>1. Awaited(c, o)'
        BY <1>1, <1>4, <3>1, <3>2, AwaitedKept
      <4> QED BY <2>1, <2>2, <4>1 DEF Due, Cell, Root, Thread
    <3>3. CASE u = t
      <4>1. log[t].ref = c /\ log[t].func_id = "link" /\ log[t].refed = o
        BY <1>3, <3>1, <3>3 DEF RecoverInv, EraInv
      <4>2. cell'[c] = o
        BY <1>6, <1>7, <3>1, <3>3, <4>1
      <4>3. Visit(c)'
        <5>1. CASE c \in RootPage(t) /\ root[c] = "used"
          BY <1>1, <1>5, <5>1 DEF Visit, RootPage
        <5>2. CASE t = Sender /\ c = Slot(end) /\ Sender \in listed
          <6>1. Coming(Sender)' /\ end \in 0 .. Slots - 1 /\ ~InRing(end)'
            <7>1. end \in 0 .. Slots - 1
              BY <1>3 DEF TypeOK
            <7>2. ~InRing(end)'
              BY <1>1, <1>3, SMT DEF InRing, TypeOK
            <7> QED BY <1>1, <5>2, <7>1, <7>2 DEF Coming
          <6> QED BY <1>1, <5>2, <6>1 DEF Visit, Slot
        <5> QED BY <3>1, <3>3, <5>1, <5>2
      <4> QED BY <2>1, <2>2, <4>2, <4>3 DEF Due, Cell, Root, Thread
    <3> QED BY <3>2, <3>3
  <2> QED BY <2>3, <2>4 DEF Due
<1>10. DueInv'
  <2>1. ASSUME NEW o \in Obj PROVE info[o].cnt <= Cardinality(Due(o)')
    <3>1. Due(o) \subseteq Due(o)' /\ info[o].cnt <= Cardinality(Due(o))
      BY <1>9 DEF RecoverInv, DueInv
    <3> QED BY <1>3, <3>1, DueKept
  <2> QED BY <1>1, <2>1 DEF RecoverInv, DueInv
<1>11. OrphanInv'
  <2>1. SUFFICES ASSUME sender_id # 0, Sender \notin listed PROVE OrphanInv'
    BY <1>1 DEF OrphanInv
  <2>2. /\ listed = {} /\ \A u \in Thread : log[u].func_id # "link" /\ Private(u)
        /\ mon[1] > Sender => seg[Sender] = "free"
    BY <2>1 DEF RecoverInv, OrphanInv
  <2>3. ASSUME NEW u \in Thread, NEW r \in RootPage(u), cell'[r] # None PROVE Home[cell'[r]] = u
    <3>1. cell'[r] = cell[r]
      BY <1>7, <2>2, <2>3, Pages
    <3>2. cell[r] # None => Home[cell[r]] = u
      BY <2>2 DEF Private
    <3> QED BY <2>3, <3>1, <3>2
  <2>4. \A u \in Thread : Private(u)'
    BY <2>3 DEF Private, RootPage
  <2> QED BY <1>1, <2>2, <2>4 DEF OrphanInv
<1>12. \A u \in Thread : Pending(u)' /\ pc'[u] \in {"set", "bump"} => log'[u].ref = op'[u].ref
  BY <1>1, <1>4 DEF RecoverInv
<1>13. Todo' \subseteq RootPage(mon[1])'
  BY <1>1, <1>5 DEF RootPage
<1>14. (\A u \in listed' : mon'[1] <= u) /\ (receiver_id' # 0 => Receiver \in listed')
  BY <1>1 DEF RecoverInv
<1> QED BY <1>1, <1>10, <1>11, <1>12, <1>13, <1>14 DEF RecoverInv, Reclaimed, Thread

\* The first cell of the list is taken off.
LEMMA TodoTail ==
  ASSUME TypeOK, todo # <<>>, todo' = Tail(todo)
  PROVE  Todo' \subseteq Todo /\ Todo \subseteq Todo' \cup {Head(todo)}
<1>1. todo \in Seq(Cell)
  BY DEF TypeOK
<1>2. /\ Len(todo) \in Nat /\ Len(todo') = Len(todo) - 1
      /\ \A k \in 1 .. Len(todo') : todo'[k] = todo[k + 1] /\ k + 1 \in 1 .. Len(todo)
      /\ todo[1] = Head(todo)
  BY <1>1, SMT
<1>3. ASSUME NEW x \in Todo' PROVE x \in Todo
  BY <1>2 DEF Todo, Elements
<1>4. ASSUME NEW x \in Todo, x # Head(todo) PROVE x \in Todo'
  <2>1. PICK k \in 1 .. Len(todo) : x = todo[k]
    BY DEF Todo, Elements
  <2>2. k - 1 \in 1 .. Len(todo') /\ k - 1 + 1 = k
    <3>1. k # 1
      BY <1>2, <1>4, <2>1
    <3> QED BY <1>2, <3>1, SMT
  <2>3. x = todo'[k - 1]
    BY <1>2, <2>1, <2>2
  <2> QED BY <2>2, <2>3 DEF Todo, Elements
<1> QED BY <1>3, <1>4

\* One cell less, and a count less.
LEMMA DueLess ==
  ASSUME Sizes, NEW S \in SUBSET Cell, NEW T \in SUBSET Cell, NEW c \in Cell, S \ {c} \subseteq T,
         NEW n \in Nat, n <= Cardinality(S)
  PROVE  n - 1 <= Cardinality(T)
<1>1. /\ Cardinality(S) \in Nat /\ Cardinality(T) \in Nat /\ Cardinality(S \ {c}) \in Nat
      /\ Cardinality(S \ {c}) <= Cardinality(T)
  BY DEF Sizes, Counting
<1>2. CASE c \in S
  <2>1. Cardinality(S \ {c}) = Cardinality(S) - 1
    BY <1>2 DEF Sizes, Counting
  <2> QED BY <1>1, <2>1, SMT
<1>3. CASE c \notin S
  <2>1. S \ {c} = S
    BY <1>3
  <2> QED BY <1>1, <2>1, SMT
<1> QED BY <1>2, <1>3

\* One cell is visited: its object's count goes down by one, or is zero already.
LEMMA ReleaseRecover ==
  ASSUME TypeOK, Sizes, RecoverInv, NEW t \in Thread, mon' = mon, mon[1] = t,
         mon[2] \in {"roots", "slots"}, NEW c \in Cell, todo # <<>>, c = Head(todo),
         todo' = Tail(todo), UNCHANGED <<log, queue, local, seg>>,
         \A u \in Thread \ {t} : era'[u] = era[u],
         \A x \in Cell \ {c} : cell'[x] = cell[x], cell'[c] \in {cell[c], None},
         root' = root \/ (c \in RootPage(t) /\ \A r \in Root \ {c} : root'[r] = root[r]),
         \A o \in Obj :
            \/ /\ info'[o] = info[o] /\ blk'[o] = blk[o]
               /\ o = cell[c] => info[o].cnt = 0 \/ (~Visit(c) /\ cell'[c] = cell[c])
            \/ /\ o = cell[c] /\ info[o].cnt # 0 /\ info'[o].cnt = info[o].cnt - 1
               /\ blk'[o] = blk[o] \/ info'[o].cnt = 0
  PROVE  RecoverInv'
<1> USE DEF queue, local
<1>1. \A u \in Thread : (Pending(u)' <=> Pending(u)) /\ (Coming(u)' <=> Coming(u))
  BY DEF Pending, Coming
<1>2. ~Pending(t) /\ Todo' \subseteq Todo /\ Todo \subseteq Todo' \cup {c}
  BY TodoTail DEF Pending
<1>3. ASSUME NEW x \in Cell \ {c}, Visit(x) PROVE Visit(x)'
  <2>1. \A i : InRing(i)' <=> InRing(i)
    BY DEF InRing
  <2>2. x \in Todo => x \in Todo'
    BY <1>2
  <2>3. ASSUME NEW u \in Thread, x \in RootPage(u), root[x] = "used",
               Pending(u) \/ (mon = <<u, "roots">> /\ x \in Todo)
        PROVE  Visit(x)'
    <3>1. root'[x] = "used"
      BY <2>3, Pages
    <3>2. x \in RootPage(u)'
      BY <2>3 DEF RootPage
    <3> QED BY <1>1, <2>2, <2>3, <3>1, <3>2 DEF Visit
  <2>4. ASSUME NEW i \in 0 .. Slots - 1, x = Slot(i),
               \/ Coming(Sender) /\ Sender \in listed /\ (InRing(i) => receiver_id = 0)
               \/ Coming(Receiver) /\ Receiver \in listed /\ InRing(i)
               \/ mon[2] = "slots" /\ x \in Todo
        PROVE  Visit(x)'
    <3>1. (Coming(Sender)' <=> Coming(Sender)) /\ (Coming(Receiver)' <=> Coming(Receiver))
      BY <1>1, Numbers
    <3>2. \/ Coming(Sender)' /\ Sender \in listed' /\ (InRing(i)' => receiver_id' = 0)
          \/ Coming(Receiver)' /\ Receiver \in listed' /\ InRing(i)'
          \/ mon'[2] = "slots" /\ x \in Todo'
      BY <2>1, <2>2, <2>4, <3>1
    <3> QED BY <2>4, <3>2 DEF Visit, Slot
  <2> QED BY <1>3, <2>3, <2>4 DEF Visit
<1>4. ASSUME NEW o \in Obj, NEW x \in Due(o),
             x # c \/ o # cell[c] \/ (~Visit(c) /\ cell'[c] = cell[c])
      PROVE  x \in Due(o)'
  <2>1. x \in Cell /\ Spares(x, o)
    BY DEF Due
  <2>2. Spares(x, o)'
    BY <1>1, <1>2, <2>1, SparesKept
  <2>3. CASE cell[x] = o /\ Visit(x)
    <3>1. x # c
      BY <1>4, <2>3
    <3>2. cell'[x] = o /\ Visit(x)'
      BY <1>3, <2>1, <2>3, <3>1
    <3> QED BY <2>1, <2>2, <3>2 DEF Due, Cell, Root, Thread
  <2>4. CASE Awaited(x, o)
    <3>1. PICK u \in Thread :
             /\ Pending(u) /\ pc[u] = "set" /\ op[u].func_id = "link"
             /\ op[u].ref = x /\ op[u].refed = o
             /\ \/ x \in RootPage(u) /\ root[x] = "used"
                \/ u = Sender /\ x = Slot(end) /\ Sender \in listed
      BY <2>4 DEF Awaited
    <3>2. u # t
      BY <1>2, <3>1
    <3>3. x \in RootPage(u) => root'[x] = root[x]
      BY <3>2, Pages
    <3>4. \/ x \in RootPage(u) /\ root'[x] = "used"
          \/ u = Sender /\ x = Slot(end) /\ Sender \in listed'
      BY <3>1, <3>3
    <3>5. Pending(u)' /\ pc' = pc /\ op' = op /\ end' = end
      BY <1>1, <3>1
    <3>6. Awaited(x, o)'
      BY <3>1, <3>4, <3>5, AwaitedKept
    <3> QED BY <2>1, <2>2, <3>6 DEF Due, Cell, Root, Thread
  <2> QED BY <2>3, <2>4 DEF Due
<1>5. DueInv'
  <2>1. SUFFICES ASSUME NEW o \in Obj
                 PROVE  info'[o].cnt <= Cardinality(Due(o)') /\ (blk'[o] # "taken" => info'[o].cnt = 0)
    BY DEF DueInv
  <2>2. /\ info[o].cnt <= Cardinality(Due(o)) /\ (blk[o] # "taken" => info[o].cnt = 0)
        /\ info[o].cnt \in Nat
    BY Locals DEF RecoverInv, DueInv
  <2>3. Due(o) \in SUBSET Cell /\ Due(o)' \in SUBSET Cell
    BY DEF Due, Cell, Root, Thread
  <2>4. CASE /\ info'[o] = info[o] /\ blk'[o] = blk[o]
             /\ o = cell[c] => info[o].cnt = 0 \/ (~Visit(c) /\ cell'[c] = cell[c])
    <3>1. CASE info[o].cnt = 0
      <4>1. 0 <= Cardinality(Due(o)')
        <5>1. Cardinality(Due(o)') \in Nat
          BY <2>3 DEF Sizes, Counting
        <5> QED BY <5>1, SMT
      <4> QED BY <2>4, <3>1, <4>1
    <3>2. CASE o # cell[c] \/ (~Visit(c) /\ cell'[c] = cell[c])
      <4>1. Due(o) \subseteq Due(o)'
        BY <1>4, <3>2
      <4>2. info[o].cnt <= Cardinality(Due(o)')
        BY <2>2, <4>1, DueKept
      <4> QED BY <2>2, <2>4, <4>2
    <3> QED BY <2>4, <3>1, <3>2
  <2>5. CASE /\ o = cell[c] /\ info[o].cnt # 0 /\ info'[o].cnt = info[o].cnt - 1
             /\ blk'[o] = blk[o] \/ info'[o].cnt = 0
    <3>1. Due(o) \ {c} \subseteq Due(o)'
      BY <1>4
    <3>2. info[o].cnt - 1 <= Cardinality(Due(o)')
      BY <2>2, <2>3, <2>5, <3>1, DueLess
    <3> QED BY <2>2, <2>5, <3>2
  <2> QED BY <2>4, <2>5
<1>6. OrphanInv'
  <2>1. SUFFICES ASSUME sender_id # 0, Sender \notin listed PROVE OrphanInv'
    BY DEF OrphanInv
  <2>2. /\ listed = {} /\ \A u \in Thread : log[u].func_id # "link" /\ Private(u)
        /\ mon[1] > Sender => seg[Sender] = "free"
    BY <2>1 DEF RecoverInv, OrphanInv
  <2>3. ASSUME NEW u \in Thread, NEW r \in RootPage(u), cell'[r] # None PROVE Home[cell'[r]] = u
    <3>1. cell'[r] = cell[r]
      BY <2>3, Pages
    <3>2. cell[r] # None => Home[cell[r]] = u
      BY <2>2 DEF Private
    <3> QED BY <2>3, <3>1, <3>2
  <2>4. \A u \in Thread : Private(u)'
    BY <2>3 DEF Private, RootPage
  <2> QED BY <2>2, <2>4 DEF OrphanInv
<1>7. \A u \in Thread : Pending(u)' /\ pc'[u] \in {"set", "bump"} => log'[u].ref = op'[u].ref
  BY <1>1 DEF RecoverInv
<1>8. mon'[2] = "roots" => Todo' \subseteq RootPage(mon[1])'
  BY <1>2 DEF RecoverInv, RootPage
<1>9. (\A u \in listed' : mon'[1] <= u) /\ (receiver_id' # 0 => Receiver \in listed')
  BY DEF RecoverInv
<1> QED BY <1>5, <1>6, <1>7, <1>8, <1>9 DEF RecoverInv, Reclaimed, Thread

\* What the release of a cell does to the counts.
LEMMA TestFreeCounts ==
  ASSUME TypeOK, NEW t \in Thread, NEW c \in Cell, TestFree(t, c)
  PROVE  /\ \A x \in Cell \ {c} : cell'[x] = cell[x]
         /\ cell'[c] \in {cell[c], None}
         /\ \A o \in Obj :
              \/ info'[o] = info[o] /\ blk'[o] = blk[o] /\ (o = cell[c] => info[o].cnt = 0)
              \/ /\ o = cell[c] /\ info[o].cnt # 0 /\ info'[o].cnt = info[o].cnt - 1
                 /\ blk'[o] = blk[o] \/ info'[o].cnt = 0
<1>0. /\ info \in [Obj -> Info] /\ blk \in [Obj -> {"free", "taken", "local", "remote"}]
      /\ cell \in [Cell -> Obj \cup {None}] /\ None \notin Obj
  BY Numbers DEF TypeOK
<1>1. CASE cell[c] = None \/ info[cell[c]].cnt = 0
  BY <1>0, <1>1 DEF TestFree
<1>2. CASE ~(cell[c] = None \/ info[cell[c]].cnt = 0)
  <2>1. PICK o \in Obj : o = cell[c]
    BY <1>0, <1>2
  <2> DEFINE less == IF info[o].cnt = 1 THEN NoInfo
                     ELSE [by |-> t, cnt |-> info[o].cnt - 1, era |-> era[t][t]]
  <2>2. /\ o # None /\ info[o].cnt # 0
        /\ info' = [info EXCEPT ![o] = less]
        /\ blk' = IF info[o].cnt = 1 /\ Home[o] # t THEN [blk EXCEPT ![o] = "remote"] ELSE blk
        /\ cell' = [cell EXCEPT ![c] = None]
    BY <1>2, <2>1 DEF TestFree
  <2>3. less.cnt = info[o].cnt - 1
    <3>1. CASE info[o].cnt = 1
      BY <3>1, SMT DEF NoInfo
    <3>2. CASE info[o].cnt # 1
      BY <3>2, SMT
    <3> QED BY <3>1, <3>2
  <2>4. info[o].cnt = 1 => less.cnt = 0
    BY <2>3, SMT
  <2> HIDE DEF less
  <2>5. info'[o] = less /\ \A x \in Obj \ {o} : info'[x] = info[x] /\ blk'[x] = blk[x]
    BY <1>0, <2>2
  <2>6. blk'[o] = blk[o] \/ info'[o].cnt = 0
    BY <2>2, <2>4, <2>5
  <2>7. cell'[c] = None /\ \A x \in Cell \ {c} : cell'[x] = cell[x]
    BY <1>0, <2>2
  <2> QED BY <2>1, <2>2, <2>3, <2>5, <2>6, <2>7
<1> QED BY <1>1, <1>2

\* Recovering a slot keeps what is left to the monitor ...
LEMMA RecoverSlotRecover ==
  ASSUME IInv, Sizes, RecoverInv, NEW t \in Thread, RecoverSlot(t)
  PROVE  RecoverInv'
<1> USE DEF queue, local
<1>1. PICK c : c = Head(todo)
  OBVIOUS
<1>2. /\ mon = <<t, "slots">> /\ todo # <<>> /\ todo' = Tail(todo)
      /\ TestFree(t, c) /\ UNCHANGED <<root, log, queue, local, dead, mon, seg>>
  BY <1>1 DEF RecoverSlot, Monitor
<1>3. TypeOK /\ era[t][t] >= 1
  BY DEF IInv
<1>4. c \in Cell
  BY <1>1, <1>2, <1>3, Taken
<1>5. mon[1] = t /\ mon[2] = "slots"
  BY <1>2, Pair
<1>6. \A u \in Thread \ {t} : era'[u] = era[u]
  BY <1>2, <1>3, <1>4, TestFreeEffect
<1>7. /\ \A x \in Cell \ {c} : cell'[x] = cell[x]
      /\ cell'[c] \in {cell[c], None}
      /\ \A o \in Obj :
           \/ info'[o] = info[o] /\ blk'[o] = blk[o] /\ (o = cell[c] => info[o].cnt = 0)
           \/ /\ o = cell[c] /\ info[o].cnt # 0 /\ info'[o].cnt = info[o].cnt - 1
              /\ blk'[o] = blk[o] \/ info'[o].cnt = 0
  BY <1>2, <1>3, <1>4, TestFreeCounts
<1> QED BY <1>1, <1>2, <1>3, <1>4, <1>5, <1>6, <1>7, ReleaseRecover

\* ... and so does recovering a RootRef,
LEMMA RecoverRootRecover ==
  ASSUME IInv, Sizes, RecoverInv, NEW t \in Thread, RecoverRoot(t)
  PROVE  RecoverInv'
<1> USE DEF queue, local
<1>1. PICK c : c = Head(todo)
  OBVIOUS
<1>2. /\ mon = <<t, "roots">> /\ todo # <<>> /\ todo' = Tail(todo)
      /\ UNCHANGED <<log, queue, local, dead, mon, seg>>
      /\ IF root[c] # "used" \/ (cell[c] # None /\ blk[cell[c]] = "free")
         THEN UNCHANGED <<info, blk, cell, era>> ELSE TestFree(t, c)
      /\ root' = IF root[c] = "used" THEN [root EXCEPT ![c] = "local"] ELSE root
  BY <1>1 DEF RecoverRoot, Monitor
<1>3. TypeOK /\ era[t][t] >= 1
  BY DEF IInv
<1>4. mon[1] = t /\ mon[2] = "roots"
  BY <1>2, Pair
<1>5. c \in Cell /\ c \in RootPage(t)
  <2>1. c \in Todo
    <3>1. todo \in Seq(Cell)
      BY <1>3 DEF TypeOK
    <3>2. 1 \in 1 .. Len(todo) /\ c = todo[1]
      BY <1>1, <1>2, <3>1, First
    <3> QED BY <3>2 DEF Todo, Elements
  <2>2. c \in RootPage(t)
    BY <1>4, <2>1 DEF RecoverInv
  <2> QED BY <2>2, Pages
<1>6. \A r \in Root \ {c} : root'[r] = root[r]
  <2>1. root \in [Root -> {"free", "used", "local"}]
    BY <1>3 DEF TypeOK
  <2> QED BY <1>2, <2>1
<1>7. \A u \in Thread \ {t} : era'[u] = era[u]
  BY <1>2, <1>3, <1>5, TestFreeEffect
<1>8. /\ \A x \in Cell \ {c} : cell'[x] = cell[x]
      /\ cell'[c] \in {cell[c], None}
      /\ \A o \in Obj :
           \/ /\ info'[o] = info[o] /\ blk'[o] = blk[o]
              /\ o = cell[c] => info[o].cnt = 0 \/ (~Visit(c) /\ cell'[c] = cell[c])
           \/ /\ o = cell[c] /\ info[o].cnt # 0 /\ info'[o].cnt = info[o].cnt - 1
              /\ blk'[o] = blk[o] \/ info'[o].cnt = 0
  <2>1. CASE root[c] # "used"
    <3>1. ~Visit(c)
      BY <1>5, <2>1, Pages DEF Visit
    <3> QED BY <1>2, <2>1, <3>1
  <2>2. CASE cell[c] # None /\ blk[cell[c]] = "free"
    <3>1. \A o \in Obj : o = cell[c] => info[o].cnt = 0
      BY <2>2 DEF RecoverInv, DueInv
    <3> QED BY <1>2, <2>2, <3>1
  <2>3. CASE TestFree(t, c)
    BY <1>3, <1>5, <2>3, TestFreeCounts
  <2> QED BY <1>2, <2>1, <2>2, <2>3
<1> QED BY <1>1, <1>2, <1>3, <1>4, <1>5, <1>6, <1>7, <1>8, ReleaseRecover

\* ... going on from the RootRefs of a thread to its slots,
LEMMA RootsDoneRecover ==
  \A t \in Thread : IInv /\ Sizes /\ RecoverInv /\ RootsDone(t) => RecoverInv'
\* The remainder, where the indices need it.
<1>Remainder.
    ASSUME NEW x \in Int
    PROVE  /\ x \in 0 .. Slots - 1 => x % Slots = x
           /\ x \in Slots .. 2 * Slots - 1 => x % Slots = x - Slots
           /\ x \in -Slots .. -1 => x % Slots = x + Slots
  BY <1>Remainder, Numbers, SMT

\* The sender's recovery goes through the slots outside the queue, and through those
\* inside if there is no receiver; the receiver's through those inside.
<1>SlotsCover.
    ASSUME TypeOK, NEW i \in 0 .. Slots - 1
    PROVE  /\ InRing(i) => \E k \in 1 .. (end - start) % Slots : (start + k - 1) % Slots = i
           /\ ~InRing(i) => \E k \in 1 .. ((start - end - 1) % Slots) + 1 : (end + k - 1) % Slots = i
  <2> USE <1>SlotsCover
  <2>0. start \in 0 .. Slots - 1 /\ end \in 0 .. Slots - 1 /\ Slots \in Nat
    BY Numbers DEF TypeOK
  <2>1. (end - start) % Slots = IF start <= end THEN end - start ELSE end - start + Slots
    <3>1. end - start \in Int /\ end - start \in -Slots .. Slots - 1
      BY <2>0, SMT
    <3> QED BY <2>0, <3>1, <1>Remainder, SMT
  <2>2. ((start - end - 1) % Slots) + 1 = IF end < start THEN start - end ELSE start - end + Slots
    <3>1. start - end - 1 \in Int /\ start - end - 1 \in -Slots .. Slots - 1
      BY <2>0, SMT
    <3> QED BY <2>0, <3>1, <1>Remainder, SMT
  <2>3. i % Slots = i /\ (i + Slots) % Slots = i
    BY <2>0, SMT
  <2>4. ASSUME InRing(i) PROVE \E k \in 1 .. (end - start) % Slots : (start + k - 1) % Slots = i
    <3>1. CASE start <= i
      <4>1. i - start + 1 \in 1 .. (end - start) % Slots /\ start + (i - start + 1) - 1 = i
        BY <2>0, <2>1, <2>4, <3>1, SMT DEF InRing
      <4> QED BY <2>3, <4>1
    <3>2. CASE ~(start <= i)
      <4>1. /\ i - start + Slots + 1 \in 1 .. (end - start) % Slots
            /\ start + (i - start + Slots + 1) - 1 = i + Slots
        BY <2>0, <2>1, <2>4, <3>2, SMT DEF InRing
      <4> QED BY <2>3, <4>1
    <3> QED BY <3>1, <3>2
  <2>5. ASSUME ~InRing(i) PROVE \E k \in 1 .. ((start - end - 1) % Slots) + 1 : (end + k - 1) % Slots = i
    <3>1. CASE end <= i
      <4>1. /\ i - end + 1 \in 1 .. ((start - end - 1) % Slots) + 1
            /\ end + (i - end + 1) - 1 = i
        BY <2>0, <2>2, <2>5, <3>1, SMT DEF InRing
      <4> QED BY <2>3, <4>1
    <3>2. CASE ~(end <= i)
      <4>1. /\ i - end + Slots + 1 \in 1 .. ((start - end - 1) % Slots) + 1
            /\ end + (i - end + Slots + 1) - 1 = i + Slots
        BY <2>0, <2>2, <2>5, <3>2, SMT DEF InRing
      <4> QED BY <2>3, <4>1
    <3> QED BY <3>1, <3>2
  <2> QED BY <2>4, <2>5

\* What is in one of two lists is in the two together.
<1>Joined.
    ASSUME NEW s1 \in Seq(Cell), NEW s2 \in Seq(Cell)
    PROVE  Elements(s1) \cup Elements(s2) \subseteq Elements(s1 \o s2)
  <2> USE <1>Joined
  <2>0. /\ Len(s1) \in Nat /\ Len(s2) \in Nat /\ Len(s1 \o s2) = Len(s1) + Len(s2)
        /\ \A k \in 1 .. Len(s1) : (s1 \o s2)[k] = s1[k]
        /\ \A k \in 1 .. Len(s2) : (s1 \o s2)[Len(s1) + k] = s2[k]
    BY SMT
  <2>1. \A k \in 1 .. Len(s1) : k \in 1 .. Len(s1 \o s2)
    BY <2>0, SMT
  <2>2. \A k \in 1 .. Len(s2) : Len(s1) + k \in 1 .. Len(s1 \o s2)
    BY <2>0, SMT
  <2>3. ASSUME NEW x \in Elements(s1) PROVE x \in Elements(s1 \o s2)
    BY <2>0, <2>1 DEF Elements
  <2>4. ASSUME NEW x \in Elements(s2) PROVE x \in Elements(s1 \o s2)
    BY <2>0, <2>2 DEF Elements
  <2> QED BY <2>3, <2>4
<1> SUFFICES ASSUME IInv, Sizes, RecoverInv, NEW t \in Thread, RootsDone(t)
             PROVE  RecoverInv'
  OBVIOUS
<1> USE DEF memory, redo, queue, local
<1>1. /\ mon = <<t, "roots">> /\ mon' = <<t, "slots">> /\ todo = <<>>
      /\ todo' = (IF t \in listed /\ t = Sender THEN SenderSlots ELSE <<>>)
                    \o (IF t \in listed /\ t = Receiver THEN ReceiverSlots ELSE <<>>)
      /\ UNCHANGED <<memory, redo, queue, local, dead, seg>>
  BY DEF RootsDone, Monitor
<1>2. mon[1] = t /\ mon[2] = "roots" /\ mon'[1] = t /\ mon'[2] = "slots"
  BY <1>1, Pair
<1>3. TypeOK
  BY DEF IInv
<1>4. \A u \in Thread : (Pending(u)' <=> Pending(u)) /\ (Coming(u) => Coming(u)' \/ u = t)
  BY <1>2 DEF Pending, Coming
<1>5. Todo = {}
  <2>1. Len(todo) = 0 /\ \A k \in 1 .. 0 : FALSE
    BY <1>1, SMT
  <2> QED BY <2>1 DEF Todo, Elements
<1>6. /\ SenderSlots \in Seq(Cell) /\ ReceiverSlots \in Seq(Cell) /\ <<>> \in Seq(Cell)
      /\ \A i \in Int, n \in Nat : Len(SlotsFrom(i, n)) = n
      /\ (end - start) % Slots \in Nat /\ ((start - end - 1) % Slots) + 1 \in Nat
      /\ start \in Int /\ end \in Int
  <2>1. \A i \in Int, n \in Nat : Len(SlotsFrom(i, n)) = n
    BY SMT DEF SlotsFrom
  <2>2. /\ end \in Int /\ start \in Int /\ (end - start) % Slots \in Nat
        /\ ((start - end - 1) % Slots) + 1 \in Nat
    BY <1>3, Numbers, SMT DEF TypeOK
  <2> QED BY <1>3, <2>1, <2>2, SlotLists
<1>7. ASSUME NEW i \in 0 .. Slots - 1, InRing(i)
      PROVE  Slot(i) \in Elements(ReceiverSlots)
  <2>1. PICK k \in 1 .. (end - start) % Slots : (start + k - 1) % Slots = i
    BY <1>3, <1>7, <1>SlotsCover
  <2>2. Len(ReceiverSlots) = (end - start) % Slots /\ ReceiverSlots[k] = Slot((start + k - 1) % Slots)
    BY <1>6, <2>1 DEF ReceiverSlots, SlotsFrom
  <2> QED BY <2>1, <2>2 DEF Elements
<1>8. ASSUME NEW i \in 0 .. Slots - 1, InRing(i) => receiver_id = 0
      PROVE  Slot(i) \in Elements(SenderSlots)
  <2> DEFINE out == SlotsFrom(end, ((start - end - 1) % Slots) + 1)
             in == IF receiver_id = 0 THEN ReceiverSlots ELSE <<>>
  <2>1. SenderSlots = out \o in
    BY DEF SenderSlots, ReceiverSlots
  <2>2. out \in Seq(Cell) /\ in \in Seq(Cell)
    BY <1>3, <1>6, SlotLists
  <2>3. Slot(i) \in Elements(out) \/ Slot(i) \in Elements(in)
    <3>1. CASE InRing(i)
      BY <1>7, <1>8, <3>1
    <3>2. CASE ~InRing(i)
      <4>1. PICK k \in 1 .. ((start - end - 1) % Slots) + 1 : (end + k - 1) % Slots = i
        BY <1>3, <3>2, <1>SlotsCover
      <4>2. Len(out) = ((start - end - 1) % Slots) + 1 /\ out[k] = Slot((end + k - 1) % Slots)
        BY <1>6, <4>1 DEF SlotsFrom
      <4> QED BY <4>1, <4>2 DEF Elements
    <3> QED BY <3>1, <3>2
  <2> HIDE DEF out, in
  <2> QED BY <2>1, <2>2, <2>3, <1>Joined
<1>9. ASSUME NEW i \in 0 .. Slots - 1,
             \/ t = Sender /\ Sender \in listed /\ (InRing(i) => receiver_id = 0)
             \/ t = Receiver /\ Receiver \in listed /\ InRing(i)
      PROVE  Slot(i) \in Todo'
  <2> DEFINE s1 == IF t \in listed /\ t = Sender THEN SenderSlots ELSE <<>>
             s2 == IF t \in listed /\ t = Receiver THEN ReceiverSlots ELSE <<>>
  <2>1. todo' = s1 \o s2
    BY <1>1
  <2>2. s1 \in Seq(Cell) /\ s2 \in Seq(Cell)
    BY <1>6
  <2>3. Slot(i) \in Elements(s1) \/ Slot(i) \in Elements(s2)
    BY <1>7, <1>8, <1>9
  <2> HIDE DEF s1, s2
  <2>4. Slot(i) \in Elements(s1 \o s2)
    BY <2>2, <2>3, <1>Joined
  <2> QED BY <2>1, <2>4 DEF Todo
<1>10. ASSUME NEW x \in Cell, Visit(x) PROVE Visit(x)'
  <2>1. \A i : InRing(i)' <=> InRing(i)
    BY <1>1 DEF InRing
  <2>2. ASSUME NEW u \in Thread, x \in RootPage(u), root[x] = "used", Pending(u)
        PROVE  Visit(x)'
    <3>1. x \in RootPage(u)' /\ root'[x] = "used" /\ Pending(u)'
      BY <1>1, <1>4, <2>2 DEF RootPage
    <3> QED BY <3>1 DEF Visit
  <2>3. ASSUME NEW i \in 0 .. Slots - 1, x = Slot(i),
               \/ Coming(Sender) /\ Sender \in listed /\ (InRing(i) => receiver_id = 0)
               \/ Coming(Receiver) /\ Receiver \in listed /\ InRing(i)
        PROVE  Visit(x)'
    <3>1. /\ Coming(Sender) => Coming(Sender)' \/ Sender = t
          /\ Coming(Receiver) => Coming(Receiver)' \/ Receiver = t
      BY <1>4, Numbers
    <3>2. \/ Coming(Sender)' /\ Sender \in listed' /\ (InRing(i)' => receiver_id' = 0)
          \/ Coming(Receiver)' /\ Receiver \in listed' /\ InRing(i)'
          \/ mon'[2] = "slots" /\ x \in Todo'
      BY <1>1, <1>2, <1>9, <2>1, <2>3, <3>1
    <3> QED BY <2>3, <3>2 DEF Visit, Slot
  <2> QED BY <1>2, <1>5, <1>10, <2>2, <2>3 DEF Visit
<1>11. ASSUME NEW o \in Obj, NEW x \in Due(o) PROVE x \in Due(o)'
  <2>1. x \in Cell /\ Spares(x, o)
    BY DEF Due
  <2>2. Spares(x, o)'
    BY <1>1, <1>4, <2>1, SparesKept
  <2>3. CASE cell[x] = o /\ Visit(x)
    <3>1. cell'[x] = o /\ Visit(x)'
      BY <1>1, <1>10, <2>1, <2>3
    <3> QED BY <2>1, <2>2, <3>1 DEF Due, Cell, Root, Thread
  <2>4. CASE Awaited(x, o)
    <3>1. PICK u \in Thread :
             /\ Pending(u) /\ pc[u] = "set" /\ op[u].func_id = "link"
             /\ op[u].ref = x /\ op[u].refed = o
             /\ \/ x \in RootPage(u) /\ root[x] = "used"
                \/ u = Sender /\ x = Slot(end) /\ Sender \in listed
      BY <2>4 DEF Awaited
    <3>2. Awaited(x, o)'
      BY <1>1, <1>4, <3>1, AwaitedKept
    <3> QED BY <2>1, <2>2, <3>2 DEF Due, Cell, Root, Thread
  <2> QED BY <2>3, <2>4 DEF Due
<1>12. DueInv'
  <2>1. ASSUME NEW o \in Obj PROVE info[o].cnt <= Cardinality(Due(o)')
    <3>1. Due(o) \subseteq Due(o)' /\ info[o].cnt <= Cardinality(Due(o))
      BY <1>11 DEF RecoverInv, DueInv
    <3> QED BY <1>3, <3>1, DueKept
  <2> QED BY <1>1, <2>1 DEF RecoverInv, DueInv
<1>13. OrphanInv'
  <2>1. \A u \in Thread : Private(u)' <=> Private(u)
    BY <1>1 DEF Private, RootPage
  <2> QED BY <1>1, <1>2, <2>1 DEF RecoverInv, OrphanInv
<1>14. \A u \in Thread : Pending(u)' /\ pc'[u] \in {"set", "bump"} => log'[u].ref = op'[u].ref
  BY <1>1, <1>4 DEF RecoverInv
<1>15. (\A u \in listed' : mon'[1] <= u) /\ (receiver_id' # 0 => Receiver \in listed')
  BY <1>1, <1>2 DEF RecoverInv
<1> QED BY <1>2, <1>12, <1>13, <1>14, <1>15 DEF RecoverInv, Reclaimed, Thread

\* An object that is due nowhere has no count left.
LEMMA NothingDue ==
  ASSUME TypeOK, Sizes, DueInv, NEW o \in Obj, \A c \in Cell : c \notin Due(o)
  PROVE  info[o].cnt = 0 /\ ~(info[o].cnt > 0)
<1>1. Due(o) = {}
  BY DEF Due
<1>2. info[o].cnt <= 0
  BY <1>1 DEF Sizes, DueInv
<1>3. info[o].cnt \in Nat
  BY Locals, Numbers
<1> QED BY <1>2, <1>3, SMT

\* ... and going on to the next thread.
LEMMA RecoverPagesRecover ==
  ASSUME IInv, Sizes, RecoverInv, NEW t \in Thread, RecoverPages(t)
  PROVE  RecoverInv'
<1> USE DEF memory, redo, queue, local
<1>1. /\ mon = <<t, "slots">> /\ mon' = <<t + 1, IF t = Threads THEN "sweep" ELSE "redo">>
      /\ todo = <<>> /\ listed' = listed \ {t}
      /\ sender_id' = IF t \in listed /\ t = Sender THEN 0 ELSE sender_id
      /\ receiver_id' = IF t \in listed /\ t = Receiver THEN 0 ELSE receiver_id
      /\ seg' = [seg EXCEPT ![t] =
                    IF (t \in listed /\ t = Sender) \/ \E o \in ObjPage(t) : info[o].cnt > 0
                    THEN "abandon" ELSE "free"]
      /\ UNCHANGED <<memory, redo, start, end, local, dead, todo>>
  BY DEF RecoverPages, Monitor
<1>2. /\ mon[1] = t /\ mon[2] = "slots" /\ mon'[1] = t + 1
      /\ mon'[2] = IF t = Threads THEN "sweep" ELSE "redo"
  BY <1>1, SMT
<1>3. TypeOK /\ seg \in [Thread -> {"owned", "abandon", "free"}]
  BY DEF IInv, TypeOK
<1>4. /\ t = Threads => t + 1 = Threads + 1
      /\ t # Threads => t + 1 \in Thread
      /\ \A u \in Thread : /\ t < u <=> t <= u /\ t # u
                           /\ t < u <=> t + 1 <= u
                           /\ t < u <=> t + 1 < u \/ (t + 1 = u /\ t # Threads)
                           /\ t = Threads => ~(t < u)
                           /\ t + 1 > u => t > u \/ t = u
  BY Numbers, SMT DEF Thread
<1>5. ASSUME NEW u \in Thread
      PROVE  /\ (Pending(u) <=> t < u) /\ (Pending(u)' <=> t < u)
             /\ (Coming(u) <=> t < u) /\ (Coming(u)' <=> t < u)
  <2>1. Pending(u) <=> t < u
    BY <1>2, <1>4 DEF Pending
  <2>2. Pending(u)' <=> t < u
    <3>1. CASE t = Threads
      BY <1>2, <1>4, <3>1 DEF Pending
    <3>2. CASE t # Threads
      BY <1>2, <1>4, <3>2 DEF Pending
    <3> QED BY <3>1, <3>2
  <2>3. Coming(u) <=> t < u
    BY <1>2 DEF Coming
  <2>4. Coming(u)' <=> t < u
    BY <1>2, <1>4 DEF Coming
  <2> QED BY <2>1, <2>2, <2>3, <2>4
<1>6. ~(t < t) /\ Sender \in Thread /\ Receiver \in Thread
  BY <1>4, Numbers
<1>7. Todo = {}
  <2>1. Len(todo) = 0 /\ \A k \in 1 .. 0 : FALSE
    BY <1>1, SMT
  <2> QED BY <2>1 DEF Todo, Elements
<1>8. ASSUME NEW x \in Cell, Visit(x) PROVE Visit(x)'
  <2>1. \A i : InRing(i)' <=> InRing(i)
    BY <1>1 DEF InRing
  <2>2. ASSUME NEW u \in Thread, x \in RootPage(u), root[x] = "used", Pending(u)
        PROVE  Visit(x)'
    <3>1. x \in RootPage(u)' /\ root'[x] = "used" /\ Pending(u)'
      BY <1>1, <1>5, <2>2 DEF RootPage
    <3> QED BY <3>1 DEF Visit
  <2>3. ASSUME NEW i \in 0 .. Slots - 1, x = Slot(i),
               \/ Coming(Sender) /\ Sender \in listed /\ (InRing(i) => receiver_id = 0)
               \/ Coming(Receiver) /\ Receiver \in listed /\ InRing(i)
        PROVE  Visit(x)'
    <3>1. /\ Coming(Sender) => Coming(Sender)' /\ Sender # t
          /\ Coming(Receiver) => Coming(Receiver)' /\ Receiver # t
      BY <1>5, <1>6
    <3>2. /\ Sender \in listed /\ Sender # t => Sender \in listed'
          /\ Receiver \in listed /\ Receiver # t => Receiver \in listed'
          /\ receiver_id = 0 => receiver_id' = 0
      BY <1>1
    <3>3. \/ Coming(Sender)' /\ Sender \in listed' /\ (InRing(i)' => receiver_id' = 0)
          \/ Coming(Receiver)' /\ Receiver \in listed' /\ InRing(i)'
      BY <2>1, <2>3, <3>1, <3>2
    <3> QED BY <2>3, <3>3 DEF Visit, Slot
  <2>4. mon[2] # "roots" /\ \A u \in Thread : mon # <<u, "roots">>
    <3>1. \A u : <<u, "roots">>[2] = "roots"
      BY SMT
    <3> QED BY <1>2, <3>1
  <2> QED BY <1>7, <1>8, <2>2, <2>3, <2>4 DEF Visit
<1>9. ASSUME NEW o \in Obj, NEW x \in Due(o) PROVE x \in Due(o)'
  <2>1. x \in Cell /\ Spares(x, o)
    BY DEF Due
  <2>2. Spares(x, o)'
    BY <1>1, <1>5, <2>1, SparesKept
  <2>3. CASE cell[x] = o /\ Visit(x)
    <3>1. cell'[x] = o /\ Visit(x)'
      BY <1>1, <1>8, <2>1, <2>3
    <3> QED BY <2>1, <2>2, <3>1 DEF Due, Cell, Root, Thread
  <2>4. CASE Awaited(x, o)
    <3>1. PICK u \in Thread :
             /\ Pending(u) /\ pc[u] = "set" /\ op[u].func_id = "link"
             /\ op[u].ref = x /\ op[u].refed = o
             /\ \/ x \in RootPage(u) /\ root[x] = "used"
                \/ u = Sender /\ x = Slot(end) /\ Sender \in listed
      BY <2>4 DEF Awaited
    <3>2. Pending(u)' /\ u # t
      BY <1>5, <1>6, <3>1
    <3>3. \/ x \in RootPage(u) /\ root'[x] = "used"
          \/ u = Sender /\ x = Slot(end) /\ Sender \in listed'
      BY <1>1, <3>1, <3>2
    <3>4. Awaited(x, o)'
      BY <1>1, <3>1, <3>2, <3>3, AwaitedKept
    <3> QED BY <2>1, <2>2, <3>4 DEF Due, Cell, Root, Thread
  <2> QED BY <2>3, <2>4 DEF Due
<1>10. DueInv'
  <2>1. ASSUME NEW o \in Obj PROVE info[o].cnt <= Cardinality(Due(o)')
    <3>1. Due(o) \subseteq Due(o)' /\ info[o].cnt <= Cardinality(Due(o))
      BY <1>9 DEF RecoverInv, DueInv
    <3> QED BY <1>3, <3>1, DueKept
  <2> QED BY <1>1, <2>1 DEF RecoverInv, DueInv
<1>11. OrphanInv'
  <2>1. SUFFICES ASSUME sender_id' # 0, Sender \notin listed' PROVE OrphanInv'
    BY DEF OrphanInv
  <2>2. sender_id # 0 /\ Sender \notin listed
    BY <1>1, <2>1
  <2>3. /\ listed = {} /\ \A u \in Thread : log[u].func_id # "link" /\ Private(u)
        /\ t > Sender => seg[Sender] = "free"
    BY <1>2, <2>2 DEF RecoverInv, OrphanInv
  <2>4. ASSUME t = Sender, NEW o \in Obj, Home[o] = t, NEW c \in Cell, c \in Due(o) PROVE FALSE
    <3>1. CASE cell[c] = o /\ Visit(c)
      <4>1. PICK u \in Thread : c \in RootPage(u) /\ Pending(u)
        <5>1. \A u \in Thread : mon # <<u, "roots">>
          <6>1. \A u : <<u, "roots">>[2] = "roots"
            BY SMT
          <6> QED BY <1>2, <6>1
        <5> QED BY <1>7, <2>3, <3>1, <5>1 DEF Visit
      <4>2. cell[c] # None
        BY <3>1, Numbers
      <4>3. Home[cell[c]] = u
        BY <2>3, <4>1, <4>2 DEF Private
      <4>4. u = t
        BY <2>4, <3>1, <4>3
      <4> QED BY <1>5, <1>6, <4>1, <4>4
    <3>2. CASE Awaited(c, o)
      <4>1. PICK u \in Thread : Pending(u) /\ pc[u] = "set" /\ op[u].func_id = "link"
        BY <3>2 DEF Awaited
      <4>2. log[u].func_id = "link"
        BY <4>1 DEF IInv, EraInv
      <4> QED BY <2>3, <4>2
    <3> QED BY <2>4, <3>1, <3>2 DEF Due
  <2>5. t = Sender => seg'[Sender] = "free"
    <3>1. SUFFICES ASSUME t = Sender PROVE seg'[t] = "free"
      OBVIOUS
    <3>2. ASSUME NEW o \in ObjPage(t) PROVE ~(info[o].cnt > 0)
      <4>1. o \in Obj /\ Home[o] = t
        BY DEF ObjPage
      <4> QED BY <1>3, <2>4, <3>1, <4>1, NothingDue DEF RecoverInv
    <3> QED BY <1>1, <1>3, <2>3, <3>2
  <2>6. t # Sender => seg'[Sender] = seg[Sender]
    BY <1>1, <1>3, Numbers
  <2>7. mon'[1] > Sender => seg'[Sender] = "free"
    BY <1>2, <1>4, <1>6, <2>3, <2>5, <2>6
  <2>8. \A u \in Thread : Private(u)' <=> Private(u)
    BY <1>1 DEF Private, RootPage
  <2> QED BY <1>1, <2>3, <2>7, <2>8 DEF OrphanInv
<1>12. \A u \in Thread : Pending(u)' /\ pc'[u] \in {"set", "bump"} => log'[u].ref = op'[u].ref
  BY <1>1, <1>5 DEF RecoverInv
<1>13. \A u \in listed' : mon'[1] <= u
  <2>1. ASSUME NEW u \in listed' PROVE t + 1 <= u
    <3>1. u \in Thread /\ u # t /\ t <= u
      BY <1>1, <1>2, <1>3, <1>6 DEF RecoverInv, TypeOK
    <3> QED BY <1>4, <3>1
  <2> QED BY <1>2, <2>1
<1>14. receiver_id' # 0 => Receiver \in listed'
  BY <1>1 DEF RecoverInv
<1>15. /\ mon'[2] \in {"redo", "roots", "slots"} => mon'[1] \in Thread
       /\ mon'[2] \in {"sweep", "done"} => mon'[1] = Threads + 1
       /\ mon'[2] # "roots" /\ mon'[2] # "done"
  BY <1>2, <1>4
<1> QED BY <1>10, <1>11, <1>12, <1>13, <1>14, <1>15 DEF RecoverInv, Reclaimed, Thread

\* All that is left are segments without a count and without a queue in use.
LEMMA SweepRecover ==
  ASSUME IInv, Sizes, RecoverInv, Sweep
  PROVE  RecoverInv'
<1> USE DEF memory, redo, queue, local
<1>1. /\ mon = <<Threads + 1, "sweep">> /\ mon' = <<Threads + 1, "done">>
      /\ seg' = [t \in Thread |->
                   IF \/ \E o \in ObjPage(t) : info[o].cnt > 0
                      \/ t = Sender /\ (sender_id # 0 \/ receiver_id # 0)
                   THEN seg[t] ELSE "free"]
      /\ UNCHANGED <<memory, redo, queue, local, dead, todo>>
  BY DEF Sweep, Monitor
<1>2. mon[1] = Threads + 1 /\ mon[2] = "sweep" /\ mon'[1] = Threads + 1 /\ mon'[2] = "done"
  BY <1>1, Pair
<1>3. TypeOK /\ Sender \in Thread
  BY Numbers DEF IInv
<1>4. \A u \in Thread : ~(Threads + 1 <= u) /\ Threads + 1 > u
  BY Numbers, SMT DEF Thread
<1>5. listed = {} /\ receiver_id = 0
  <2>1. \A u \in listed : u \in Thread
    BY <1>3, Numbers DEF TypeOK
  <2>2. listed = {}
    BY <1>2, <1>4, <2>1 DEF RecoverInv
  <2> QED BY <2>2 DEF RecoverInv
<1>6. ASSUME NEW o \in Obj PROVE info[o].cnt = 0 /\ ~(info[o].cnt > 0)
  <2>1. \A c \in Cell : ~Visit(c)
    <3>1. \A u : <<u, "roots">>[2] = "roots"
      BY SMT
    <3>2. \A u \in Thread : mon # <<u, "roots">>
      BY <1>2, <3>1
    <3> QED BY <1>2, <1>5, <3>2 DEF Visit, Pending
  <2>2. \A c \in Cell : ~Awaited(c, o)
    BY <1>2 DEF Awaited, Pending
  <2>3. \A c \in Cell : c \notin Due(o)
    BY <2>1, <2>2 DEF Due
  <2> QED BY <1>3, <2>3, NothingDue DEF RecoverInv
<1>7. sender_id # 0 => seg[Sender] = "free"
  BY <1>2, <1>3, <1>4, <1>5 DEF RecoverInv, OrphanInv
<1>8. ASSUME NEW t \in Thread PROVE seg'[t] = "free"
  <2>1. \A o \in ObjPage(t) : ~(info[o].cnt > 0)
    BY <1>6 DEF ObjPage
  <2> QED BY <1>1, <1>5, <1>7, <2>1
<1>9. DueInv'
  <2>1. ASSUME NEW o \in Obj PROVE 0 <= Cardinality(Due(o)')
    <3>1. Due(o)' \in SUBSET Cell
      BY DEF Due, Cell, Root, Thread
    <3>2. Cardinality(Due(o)') \in Nat
      BY <3>1 DEF Sizes, Counting
    <3> QED BY <3>2, SMT
  <2> QED BY <1>1, <1>6, <2>1 DEF DueInv
<1>10. OrphanInv'
  <2>1. \A u \in Thread : Private(u)' <=> Private(u)
    BY <1>1 DEF Private, RootPage
  <2> QED BY <1>1, <1>3, <1>8, <2>1 DEF RecoverInv, OrphanInv
<1>11. \A u \in Thread : ~Pending(u)'
  BY <1>2 DEF Pending
<1> QED BY <1>1, <1>2, <1>5, <1>8, <1>9, <1>10, <1>11 DEF RecoverInv, Reclaimed, Thread

\* Nothing changes.
LEMMA RecoverSame ==
  ASSUME TypeOK, Sizes, RecoverInv, UNCHANGED vars
  PROVE  RecoverInv'
<1> USE DEF vars, memory, redo, queue, local, monitor
<1>1. \A u \in Thread : /\ (Pending(u)' <=> Pending(u)) /\ (Coming(u)' <=> Coming(u))
                        /\ (Private(u)' <=> Private(u))
  BY DEF Pending, Coming, Private, RootPage
<1>2. Todo' = Todo
  BY DEF Todo, Elements
<1>3. ASSUME NEW x \in Cell, Visit(x) PROVE Visit(x)'
  <2>1. \A i : InRing(i)' <=> InRing(i)
    BY DEF InRing
  <2>2. ASSUME NEW u \in Thread, x \in RootPage(u), root[x] = "used",
               Pending(u) \/ (mon = <<u, "roots">> /\ x \in Todo)
        PROVE  Visit(x)'
    <3>1. /\ x \in RootPage(u)' /\ root'[x] = "used"
          /\ Pending(u)' \/ (mon' = <<u, "roots">> /\ x \in Todo')
      BY <1>1, <1>2, <2>2 DEF RootPage
    <3> QED BY <3>1 DEF Visit
  <2>3. ASSUME NEW i \in 0 .. Slots - 1, x = Slot(i),
               \/ Coming(Sender) /\ Sender \in listed /\ (InRing(i) => receiver_id = 0)
               \/ Coming(Receiver) /\ Receiver \in listed /\ InRing(i)
               \/ mon[2] = "slots" /\ x \in Todo
        PROVE  Visit(x)'
    <3>1. (Coming(Sender)' <=> Coming(Sender)) /\ (Coming(Receiver)' <=> Coming(Receiver))
      BY <1>1, Numbers
    <3>2. \/ Coming(Sender)' /\ Sender \in listed' /\ (InRing(i)' => receiver_id' = 0)
          \/ Coming(Receiver)' /\ Receiver \in listed' /\ InRing(i)'
          \/ mon'[2] = "slots" /\ x \in Todo'
      BY <1>2, <2>1, <2>3, <3>1
    <3> QED BY <2>3, <3>2 DEF Visit, Slot
  <2> QED BY <1>3, <2>2, <2>3 DEF Visit
<1>4. ASSUME NEW o \in Obj, NEW x \in Due(o) PROVE x \in Due(o)'
  <2>1. x \in Cell /\ Spares(x, o)
    BY DEF Due
  <2>2. Spares(x, o)'
    BY <1>1, <2>1, SparesKept
  <2>3. CASE cell[x] = o /\ Visit(x)
    <3>1. cell'[x] = o /\ Visit(x)'
      BY <1>3, <2>1, <2>3
    <3> QED BY <2>1, <2>2, <3>1 DEF Due, Cell, Root, Thread
  <2>4. CASE Awaited(x, o)
    <3>1. PICK u \in Thread :
             /\ Pending(u) /\ pc[u] = "set" /\ op[u].func_id = "link"
             /\ op[u].ref = x /\ op[u].refed = o
             /\ \/ x \in RootPage(u) /\ root[x] = "used"
                \/ u = Sender /\ x = Slot(end) /\ Sender \in listed
      BY <2>4 DEF Awaited
    <3>2. \/ x \in RootPage(u) /\ root'[x] = "used"
          \/ u = Sender /\ x = Slot(end) /\ Sender \in listed'
      BY <3>1
    <3>3. Awaited(x, o)'
      BY <1>1, <3>1, <3>2, AwaitedKept
    <3> QED BY <2>1, <2>2, <3>3 DEF Due, Cell, Root, Thread
  <2> QED BY <2>3, <2>4 DEF Due
<1>5. DueInv'
  <2>1. ASSUME NEW o \in Obj PROVE info[o].cnt <= Cardinality(Due(o)')
    <3>1. Due(o) \subseteq Due(o)' /\ info[o].cnt <= Cardinality(Due(o))
      BY <1>4 DEF RecoverInv, DueInv
    <3> QED BY <3>1, DueKept
  <2> QED BY <2>1 DEF RecoverInv, DueInv
<1>6. OrphanInv'
  BY <1>1 DEF RecoverInv, OrphanInv
<1>7. /\ \A u \in Thread : Pending(u)' /\ pc'[u] \in {"set", "bump"} => log'[u].ref = op'[u].ref
      /\ mon'[2] = "roots" => Todo' \subseteq RootPage(mon[1])'
      /\ (\A u \in listed' : mon'[1] <= u) /\ (receiver_id' # 0 => Receiver \in listed')
  BY <1>1, <1>2 DEF RecoverInv, RootPage
<1> QED BY <1>5, <1>6, <1>7 DEF RecoverInv, Reclaimed, Thread

\* Every step keeps what is known of the recovery.
LEMMA NextJInv ==
  ASSUME IInv, IInv', JInv, [Next]_vars
  PROVE  JInv'
<1> USE DEF vars, memory, redo, queue, local, monitor
<1>1. /\ TypeOK /\ TypeOK' /\ MonInv /\ Sizes
      /\ (mon[2] = "wait" => WaitInv) /\ (mon[2] # "wait" => RecoverInv)
  BY DEF IInv, JInv
<1>2. Sizes'
  BY <1>1 DEF Sizes, Counting, Cell, Root, Thread
<1>3. ASSUME NEW t \in Thread, Step(t) PROVE mon'[2] = "wait" /\ WaitInv'
  <2>1. t \notin dead /\ mon' = mon
    BY <1>3 DEF Step, Malloc, Drop, Send, Unwrap, LinkBlock, TakeBlock, SetInfo, WriteLog, Exchange,
       SetRef, BumpEra, FreeObj, FreeRoot, CreateQueue, ListQueue, Sent, Register, SetReceiver,
       UnwrapEmpty, Received, Advance, Unwrapping, Call, At
  <2>2. mon[2] = "wait"
    BY <1>1, <2>1 DEF MonInv
  <2>3. RefInv /\ Eras
    BY <2>2, Waiting
  <2> QED BY <1>1, <1>3, <2>1, <2>2, <2>3, StepWait
<1>4. ASSUME NEW t \in Thread, Exit(t) PROVE mon'[2] = "wait" /\ WaitInv'
  <2>1. t \notin dead /\ mon' = mon /\ UNCHANGED <<memory, redo, queue, local>>
    BY <1>4 DEF Exit
  <2>2. mon[2] = "wait"
    BY <1>1, <2>1 DEF MonInv
  <2> QED BY <1>1, <2>1, <2>2, WaitSame
<1>5. ASSUME NEW t \in Thread, Recovery(t) PROVE mon'[2] # "wait" /\ RecoverInv'
  <2>1. mon[2] # "wait" /\ mon'[2] # "wait"
    <3>1. mon \in {<<t, "redo">>, <<t, "roots">>, <<t, "slots">>}
      BY <1>5 DEF Recovery, Redo, RecoverRoot, RootsDone, RecoverSlot, RecoverPages, Monitor
    <3>2. mon' \in {mon, <<t, "roots">>, <<t, "slots">>, <<t + 1, "sweep">>, <<t + 1, "redo">>}
      BY <1>5 DEF Recovery, Redo, RecoverRoot, RootsDone, RecoverSlot, RecoverPages
    <3>3. mon[2] # "wait"
      BY <3>1, SMT
    <3> QED BY <3>2, <3>3, SMT
  <2> QED BY <1>1, <1>5, <2>1, RedoRecover, RecoverRootRecover, RootsDoneRecover,
             RecoverSlotRecover, RecoverPagesRecover DEF Recovery
<1>6. ASSUME StartMonitor PROVE mon'[2] # "wait" /\ RecoverInv'
  <2>1. mon' = <<1, "redo">>
    BY <1>6 DEF StartMonitor
  <2>2. mon'[2] # "wait"
    BY <2>1, SMT
  <2> QED BY <1>6, <2>2, StartRecover
<1>7. ASSUME Sweep PROVE mon'[2] # "wait" /\ RecoverInv'
  <2>1. mon = <<Threads + 1, "sweep">> /\ mon' = <<Threads + 1, "done">>
    BY <1>7 DEF Sweep, Monitor
  <2>2. mon[2] # "wait" /\ mon'[2] # "wait"
    BY <2>1, SMT
  <2> QED BY <1>1, <1>7, <2>2, SweepRecover
<1>8. ASSUME UNCHANGED vars
      PROVE  mon' = mon /\ (mon[2] = "wait" => WaitInv') /\ (mon[2] # "wait" => RecoverInv')
  BY <1>1, <1>8, WaitSame, RecoverSame
<1>9. CASE Next
  BY <1>2, <1>3, <1>4, <1>5, <1>6, <1>7, <1>8, <1>9 DEF Next, Done, JInv
<1>10. CASE UNCHANGED vars
  BY <1>2, <1>8, <1>10 DEF JInv
<1> QED BY <1>9, <1>10

-----------------------------------------------------------------------------
\* The theorems about finite sets are needed from here on only.
INSTANCE FiniteSetTheorems

\* There are finitely many cells.
LEMMA CellFinite == IsFiniteSet(Cell) /\ IsFiniteSet(Thread)
<1>1. IsFiniteSet(Thread) /\ IsFiniteSet(1 .. Roots) /\ IsFiniteSet(0 .. Slots - 1)
  BY Numbers, FS_Interval, SMT DEF Thread
<1>2. IsFiniteSet({0})
  BY FS_Singleton, SMT
<1>3. IsFiniteSet(Root) /\ IsFiniteSet({0} \X (0 .. Slots - 1))
  BY <1>1, <1>2, FS_Product DEF Root
<1> QED BY <1>1, <1>3, FS_Union DEF Cell

\* The sizes of sets of cells.
LEMMA CellCounts == Counting
<1> SUFFICES ASSUME NEW S \in SUBSET Cell
    PROVE  /\ Cardinality(S) \in Nat /\ (S # {} => Cardinality(S) # 0)
           /\ \A c \in Cell :
               /\ c \notin S => Cardinality(S \cup {c}) = Cardinality(S) + 1
               /\ c \in S => Cardinality(S \ {c}) = Cardinality(S) - 1
  BY DEF Counting
<1>1. IsFiniteSet(S)
  BY CellFinite, FS_Subset
<1>2. Cardinality(S) \in Nat /\ (S # {} => Cardinality(S) # 0)
  BY <1>1, FS_CardinalityType, FS_EmptySet
<1>3. ASSUME NEW c \in Cell
      PROVE  /\ c \notin S => Cardinality(S \cup {c}) = Cardinality(S) + 1
             /\ c \in S => Cardinality(S \ {c}) = Cardinality(S) - 1
  BY <1>1, FS_AddElement, FS_RemoveElement
<1> QED BY <1>2, <1>3

\* What the invariants say of sizes.
LEMMA CellSizes == Sizes
<1>1. Cardinality({}) = 0
  BY FS_EmptySet
<1>2. ASSUME NEW S \in SUBSET Cell, NEW T \in SUBSET S PROVE Cardinality(T) <= Cardinality(S)
  <2>1. IsFiniteSet(S)
    BY CellFinite, FS_Subset
  <2> QED BY <2>1, FS_Subset
<1> QED BY <1>1, <1>2, CellCounts DEF Sizes

\* The inductive invariant holds in every reachable state.
THEOREM IndInv == Spec => []IInv
<1>1. Init => IInv
  BY InitIInv, CellSizes DEF Sizes
<1>2. IInv /\ [Next]_vars => IInv'
  BY NextIInv, SMT
<1> QED BY <1>1, <1>2, PTL DEF Spec

\* The variables have their types in every reachable state.
THEOREM TypeCorrect == Spec => []TypeOK
<1>1. IInv => TypeOK
  BY DEF IInv
<1> QED BY <1>1, IndInv, PTL

-----------------------------------------------------------------------------
\* As many cells as there are threads with a cell each to themselves.
LEMMA OneEach ==
  ASSUME TypeOK, NEW S \in SUBSET Thread, \A t \in S : Placed(t)
  PROVE  /\ IsFiniteSet(RefsOf(S))
         /\ Cardinality(RefsOf(S)) = Cardinality(S) /\ Cardinality(S) \in Nat
<1> DEFINE R == RefsOf(S)
           f == [t \in S |-> op[t].ref]
<1>1. IsFiniteSet(S)
  BY CellFinite, FS_Subset
<1>2. ASSUME NEW t \in S, NEW u \in S, f[t] = f[u] PROVE t = u
  BY <1>2, Alone
<1>3. f \in [S -> R] /\ \A r \in R : \E t \in S : f[t] = r
  BY DEF RefsOf
<1>4. f \in Surjection(S, R) /\ f \in Injection(S, R)
  BY <1>2, <1>3 DEF Surjection, Injection, IsInjective
<1> HIDE DEF R, f
<1>5. IsFiniteSet(R) /\ Cardinality(R) = Cardinality(S)
  BY <1>1, <1>4, FS_Surjection
<1>6. Cardinality(S) \in Nat
  BY <1>1, FS_CardinalityType
<1> QED BY <1>1, <1>5, <1>6 DEF R

\* The sizes of disjoint sets add up.
LEMMA Disjoint ==
  ASSUME NEW S, NEW T, IsFiniteSet(S), IsFiniteSet(T), S \cap T = {}
  PROVE  /\ Cardinality(S \cup T) = Cardinality(S) + Cardinality(T)
         /\ Cardinality(S) \in Nat /\ Cardinality(T) \in Nat
<1>1. Cardinality(S \cup T) = Cardinality(S) + Cardinality(T) - Cardinality(S \cap T)
  BY FS_Union, SMT
<1>2. Cardinality(S) \in Nat /\ Cardinality(T) \in Nat /\ Cardinality(S \cap T) = 0
  BY FS_CardinalityType, FS_EmptySet, SMTT(20)
<1> QED BY <1>1, <1>2, SMT

\* The references there are, from those that are counted.
LEMMA Reckoning ==
  ASSUME TypeOK, RefInv, NEW o \in Obj
  PROVE  Cardinality(Held(o)) = Cardinality({c \in Cell : cell[c] = o}) - Cardinality(Unborn(o))
                                  + Cardinality(Ahead(o, "link")) - Cardinality(Ahead(o, "unlink"))
<1> DEFINE C == Referring(o)
           E == Excess(o)
           L == Ahead(o, "link")
           RE == RefsOf(E)
           RL == RefsOf(L)
<1>1. RE \subseteq C /\ RL \cap C = {} /\ Held(o) = (C \ RE) \cup RL /\ \A t \in E \cup L : Placed(t)
  BY HeldCells
<1>2. E \in SUBSET Thread /\ L \in SUBSET Thread
  BY DEF Excess, Unborn, Ahead
<1>3. C \in SUBSET Cell
  BY DEF Referring
<1>4. /\ Cardinality(E) = Cardinality(Unborn(o)) + Cardinality(Ahead(o, "unlink"))
      /\ Cardinality(Unborn(o)) \in Nat /\ Cardinality(Ahead(o, "unlink")) \in Nat
  <2>1. Unborn(o) \subseteq Thread /\ Ahead(o, "unlink") \subseteq Thread
        /\ Unborn(o) \cap Ahead(o, "unlink") = {}
    BY DEF Unborn, Ahead
  <2>2. IsFiniteSet(Unborn(o)) /\ IsFiniteSet(Ahead(o, "unlink"))
    BY <2>1, CellFinite, FS_Subset
  <2> QED BY <2>1, <2>2, Disjoint DEF Excess
<1> HIDE DEF C, E, L, RE, RL
<1>5. /\ IsFiniteSet(RE) /\ Cardinality(RE) = Cardinality(E) /\ Cardinality(E) \in Nat
      /\ IsFiniteSet(RL) /\ Cardinality(RL) = Cardinality(L) /\ Cardinality(L) \in Nat
  BY <1>1, <1>2, OneEach DEF RE, RL
<1>6. IsFiniteSet(C) /\ Cardinality(C) \in Nat
  BY <1>3, CellFinite, FS_Subset, FS_CardinalityType
<1>7. IsFiniteSet(C \ RE) /\ Cardinality(C \ RE) = Cardinality(C) - Cardinality(RE)
  <2>1. C \cap RE = RE
    BY <1>1
  <2> QED BY <1>6, <2>1, FS_Difference
<1>8. Cardinality(Held(o)) = Cardinality(C \ RE) + Cardinality(RL)
  <2>1. (C \ RE) \cap RL = {}
    BY <1>1
  <2> QED BY <1>1, <1>5, <1>7, <2>1, Disjoint
<1>9. Cardinality(Held(o)) = Cardinality(C) - Cardinality(Unborn(o))
                              + Cardinality(L) - Cardinality(Ahead(o, "unlink"))
  BY <1>4, <1>5, <1>6, <1>7, <1>8, SMTT(20)
<1> QED BY <1>9 DEF C, L, Referring

\* Until the monitor starts, whoever exits wherever, the count of an object is
\* the number of cells that refer to it, but for the stores that are still to
\* come: link_reference, unlink_reference and cxl_malloc lose no reference, and
\* free no object that is referred to, for any number of threads.
THEOREM CountsReferencesHolds == Spec => []CountsReferences
<1>1. IInv => CountsReferences
  <2> SUFFICES ASSUME IInv, mon[2] = "wait", NEW o \in Obj
               PROVE  info[o].cnt = Cardinality({c \in Cell : cell[c] = o})
                        - Cardinality(Unborn(o)) + Cardinality(Ahead(o, "link"))
                        - Cardinality(Ahead(o, "unlink"))
    BY DEF CountsReferences
  <2>1. TypeOK /\ RefInv
    BY DEF IInv
  <2>2. info[o].cnt = Cardinality(Held(o))
    BY <2>1 DEF RefInv, CountInv
  <2> QED BY <2>1, <2>2, Reckoning
<1> QED BY <1>1, IndInv, PTL

\* For a thread that has exited inside link_reference or unlink_reference,
\* redo_ref_cnt repeats the store exactly when the exchange of the count had
\* succeeded, whatever the others have done to the object since, and however
\* many threads there are.
THEOREM RedoDecidesHolds == Spec => []RedoDecides
<1>1. IInv => RedoDecides
  BY RedoDecided, SMT
<1> QED BY <1>1, IndInv, PTL

-----------------------------------------------------------------------------
\* After one run of the monitor every segment is free, wherever the threads were
\* when they exited, for any number of threads, RootRefs, objects and slots:
\* redo_ref_cnt, the release of the RootRefs and of the slots, and the last pass
\* over the segments together give back every object.
THEOREM ReclaimedHolds == Spec => []Reclaimed
<1>1. Init => JInv
  BY InitJInv, CellSizes
<1>2. IInv /\ IInv' /\ JInv /\ [Next]_vars => JInv'
  BY NextJInv, SMT
<1>3. JInv => Reclaimed
  <2>1. mon[2] = "wait" => Reclaimed
    BY DEF Reclaimed
  <2> QED BY <2>1 DEF JInv, RecoverInv
<1> QED BY <1>1, <1>2, <1>3, IndInv, PTL DEF Spec

=============================================================================
