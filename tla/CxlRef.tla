------------------------------- MODULE CxlRef -------------------------------
(***************************************************************************)
(* Reference counts of cxl-shm (malloc/cxl-shm): allocation, the transfer  *)
(* of a reference through a message queue, threads that exit anywhere, and *)
(* the monitor that repairs and reclaims what they leave.                  *)
(*                                                                         *)
(* A cell holds a reference: a RootRef of a thread, or a slot of the one   *)
(* queue, from Sender to Receiver.  info[o] is the CXLObj's ref_info: the  *)
(* thread that changed the count last, the count, and that thread's era.   *)
(* The eight redo cache lines are kept as the newest entry, the only one   *)
(* redo_ref_cnt reads.  Embedded references are left out.                  *)
(***************************************************************************)
EXTENDS Integers, Sequences, FiniteSets

CONSTANTS Threads,        \* number of threads; their ids count from 1
          MAX_THREAD,     \* one more than the ids that redo_ref_cnt looks at
          Roots,          \* RootRefs in a thread's page, numbered from 1
          Obj, Home,      \* blocks for objects, and whose page holds each
          Slots,          \* MESSAGE_BUFFER_SIZE
          Sender, Receiver,
          MaxEra,         \* bound: calls start below this era
          None

Thread == 1 .. Threads
Root   == Thread \X (1 .. Roots)
Cell   == Root \cup ({0} \X (0 .. Slots - 1))

ASSUME CxlRefAssumption ==
    /\ Threads \in Nat /\ MAX_THREAD \in Nat /\ Threads < MAX_THREAD
    /\ Roots \in Nat \ {0} /\ Slots \in Nat \ {0} /\ MaxEra \in Nat
    /\ Home \in [Obj -> Thread]
    /\ Sender \in Thread /\ Receiver \in Thread
    /\ None \notin Obj

VARIABLES info, blk,         \* ref_info, and the list of its page a block is on
          cell, root,        \* the references, and the list of each RootRef
          era, log,          \* era(x, y), the newest redo_log
          start, end,        \* the queue's indices
          sender_id, receiver_id,
          listed,            \* who has the queue on its tls list
          pc, op,            \* each thread's next step and its locals
          dead,              \* the threads that have exited
          mon, todo,         \* the monitor's progress
          seg                \* segments: "owned", "abandon" or "free"

memory == <<info, blk, cell, root>>
redo   == <<era, log>>
queue  == <<start, end, sender_id, receiver_id, listed>>
local  == <<pc, op>>
monitor == <<dead, mon, todo, seg>>
vars   == <<memory, redo, queue, local, monitor>>

NoInfo == [by |-> 0, cnt |-> 0, era |-> 0]
NoLog  == [func_id |-> "none", cnt |-> 0, era |-> 0, ref |-> <<1, 1>>, refed |-> None]
NoOp   == [func_id |-> "none", ref |-> <<1, 1>>, refed |-> None, saw |-> NoInfo, then |-> "idle"]

\* Every thread has called thread_init; none has a page yet.
Init ==
    /\ info = [o \in Obj |-> NoInfo]
    /\ blk = [o \in Obj |-> "local"]
    /\ cell = [c \in Cell |-> None]
    /\ root = [r \in Root |-> "local"]
    /\ era = [t \in Thread |-> [u \in Thread |-> IF u = t THEN 1 ELSE 0]]
    /\ log = [t \in Thread |-> NoLog]
    /\ start = 0 /\ end = 0 /\ sender_id = 0 /\ receiver_id = 0 /\ listed = {}
    /\ pc = [t \in Thread |-> "idle"]
    /\ op = [t \in Thread |-> NoOp]
    /\ dead = {} /\ mon = <<0, "wait">> /\ todo = <<>>
    /\ seg = [t \in Thread |-> "owned"]

Goto(t, step) == pc' = [pc EXCEPT ![t] = step]

At(t, step) == pc[t] = step /\ t \notin dead

\* buffer[i].
Slot(i) == <<0, i>>

\* A call that changes eras begins.
Call(t) == At(t, "idle") /\ era[t][t] < MaxEra

\* link_reference and unlink_reference of a cell; then is what the caller does next.
Begin(t, func, c, o, then) ==
    /\ op' = [op EXCEPT ![t] = [func_id |-> func, ref |-> c, refed |-> o,
                                saw |-> NoInfo, then |-> then]]
    /\ Goto(t, "log")

-----------------------------------------------------------------------------
\* The lists of a page.  A block freed by its owner goes to local_free, by
\* another thread to thread_free ("remote"), and neither is allocated from until
\* free is empty and cxl_malloc_generic has erased the redo log.  When the last
\* block in use is freed the page leaves its queue, with the same effect.
Release(list, b, page, place) ==
    IF place = "local" /\ \A x \in page \ {b} : list[x] \in {"free", "local"}
    THEN [x \in DOMAIN list |-> IF x \in page THEN "local" ELSE list[x]]
    ELSE [list EXCEPT ![b] = place]

\* What an allocation may return, and the page after the collection it needs.
Collected(list, page) ==
    IF \E x \in page : list[x] = "free" THEN list
    ELSE [x \in DOMAIN list |-> IF x \in page /\ list[x] \in {"local", "remote"}
                                THEN "free" ELSE list[x]]

\* cxl_malloc_generic erases the log.
Erased(list, page, t) ==
    IF \E x \in page : list[x] = "free" THEN log ELSE [log EXCEPT ![t] = NoLog]

RootPage(t) == {t} \X (1 .. Roots)

ObjPage(t) == {o \in Obj : Home[o] = t}

\* thread_base_ref_alloc.
AllocRoot(t, r) ==
    /\ r \in RootPage(t) /\ Collected(root, RootPage(t))[r] = "free"
    /\ log' = Erased(root, RootPage(t), t)
    /\ root' = [Collected(root, RootPage(t)) EXCEPT ![r] = "used"]
    /\ cell' = [cell EXCEPT ![r] = None]

\* cxl_malloc: the RootRef ...
Malloc(t, r) ==
    /\ Call(t)
    /\ AllocRoot(t, r)
    /\ op' = [op EXCEPT ![t].ref = r]
    /\ Goto(t, "block")
    /\ UNCHANGED <<info, blk, era, queue, monitor>>

\* ... which refers to the block before the block is taken, so that it is not
\* lost (link_block_to_tbr) ...
LinkBlock(t, o) ==
    /\ At(t, "block")
    /\ Home[o] = t /\ Collected(blk, ObjPage(t))[o] = "free"
    /\ log' = Erased(blk, ObjPage(t), t)
    /\ blk' = Collected(blk, ObjPage(t))
    /\ cell' = [cell EXCEPT ![op[t].ref] = o]
    /\ op' = [op EXCEPT ![t].refed = o]
    /\ Goto(t, "take")
    /\ UNCHANGED <<info, root, era, queue, monitor>>

\* ... block_to_cxlobj: off the free list, the era, then ref_info.
TakeBlock(t) ==
    /\ At(t, "take")
    /\ blk' = [blk EXCEPT ![op[t].refed] = "taken"]
    /\ era' = [era EXCEPT ![t][t] = @ + 1]
    /\ Goto(t, "info")
    /\ UNCHANGED <<info, cell, root, log, queue, op, monitor>>

SetInfo(t) ==
    /\ At(t, "info")
    /\ info' = [info EXCEPT ![op[t].refed] = [by |-> t, cnt |-> 1, era |-> era[t][t] - 1]]
    /\ op' = [op EXCEPT ![t] = NoOp]
    /\ Goto(t, "idle")
    /\ UNCHANGED <<blk, cell, root, redo, queue, monitor>>
-----------------------------------------------------------------------------
\* An era that has been seen is noted if it is newer than the one noted before.
Newer(noted, saw) == IF saw > noted THEN saw ELSE noted

\* Mutant: the era of the count's last writer is not noted.
WriteLogNoEra(t) ==
    /\ At(t, "log")
    /\ op' = [op EXCEPT ![t].saw = info[op[t].refed]]
    /\ log' = [log EXCEPT ![t] = [func_id |-> op[t].func_id, cnt |-> info[op[t].refed].cnt,
                                  era |-> era[t][t], ref |-> op[t].ref, refed |-> op[t].refed]]
    /\ Goto(t, "cas")
    /\ UNCHANGED <<memory, era, queue, monitor>>

\* link_reference and unlink_reference, which differ in the count and in what
\* they store.  Reading ref_info, noting its era and writing the log change
\* nothing another running thread looks at.
WriteLog(t) ==
    /\ At(t, "log")
    /\ LET saw == info[op[t].refed] IN
       /\ op' = [op EXCEPT ![t].saw = saw]
       /\ era' = IF saw.by \in Thread
                 THEN [era EXCEPT ![t][saw.by] = Newer(@, saw.era)]
                 ELSE era
       /\ log' = [log EXCEPT ![t] = [func_id |-> op[t].func_id, cnt |-> saw.cnt,
                                     era |-> era[t][t],
                                     ref |-> op[t].ref, refed |-> op[t].refed]]
    /\ Goto(t, "cas")
    /\ UNCHANGED <<memory, queue, monitor>>

\* Mutant: a store instead of the compare-and-exchange.
ExchangeBlind(t) ==
    /\ At(t, "cas")
    /\ LET step == IF op[t].func_id = "link" THEN 1 ELSE -1 IN
       info' = [info EXCEPT ![op[t].refed] =
                   [by |-> t, cnt |-> op[t].saw.cnt + step, era |-> era[t][t]]]
    /\ Goto(t, "set")
    /\ UNCHANGED <<blk, cell, root, redo, queue, op, monitor>>

\* compare_exchange_weak, which sends the thread back when the count has changed.
Exchange(t) ==
    /\ At(t, "cas")
    /\ LET o == op[t].refed
           step == IF op[t].func_id = "link" THEN 1 ELSE -1 IN
       IF info[o] = op[t].saw
       THEN /\ info' = [info EXCEPT ![o] = [by |-> t, cnt |-> @.cnt + step, era |-> era[t][t]]]
            /\ Goto(t, "set")
       ELSE Goto(t, "log") /\ UNCHANGED info
    /\ UNCHANGED <<blk, cell, root, redo, queue, op, monitor>>

SetRef(t) ==
    /\ At(t, "set")
    /\ cell' = [cell EXCEPT ![op[t].ref] =
                    IF op[t].func_id = "link" THEN op[t].refed ELSE None]
    /\ Goto(t, "bump")
    /\ UNCHANGED <<info, blk, root, redo, queue, op, monitor>>

BumpEra(t) ==
    /\ At(t, "bump")
    /\ era' = [era EXCEPT ![t][t] = @ + 1]
    /\ Goto(t, IF op[t].func_id = "unlink" /\ op[t].saw.cnt = 1 THEN "free" ELSE op[t].then)
    /\ UNCHANGED <<memory, log, queue, op, monitor>>

\* cxl_free of the object whose last reference went away.
FreeObj(t) ==
    /\ At(t, "free")
    /\ LET o == op[t].refed IN
       /\ info' = [info EXCEPT ![o] = NoInfo]
       /\ blk' = Release(blk, o, ObjPage(Home[o]), IF Home[o] = t THEN "local" ELSE "remote")
    /\ Goto(t, op[t].then)
    /\ UNCHANGED <<cell, root, redo, queue, op, monitor>>

\* The last copy of a CXLRef is destroyed: test_free, then cxl_free of the RootRef.
Drop(t, r) ==
    /\ Call(t)
    /\ r \in RootPage(t) /\ root[r] = "used"
    /\ Begin(t, "unlink", r, cell[r], "drop")
    /\ UNCHANGED <<memory, redo, queue, monitor>>

FreeRoot(t) ==
    /\ At(t, "drop")
    /\ root' = Release(root, op[t].ref, RootPage(t), "local")
    /\ op' = [op EXCEPT ![t] = NoOp]
    /\ Goto(t, "idle")
    /\ UNCHANGED <<info, blk, cell, redo, queue, monitor>>

-----------------------------------------------------------------------------
\* create_msg_queue: the block becomes a queue of its sender (msg_queue_alloc
\* takes a page through cxl_malloc_generic), then the sender's list holds it.
CreateQueue(t) ==
    /\ Call(t) /\ t = Sender /\ sender_id = 0 /\ listed = {}
    /\ sender_id' = t
    /\ log' = [log EXCEPT ![t] = NoLog]
    /\ Goto(t, "create")
    /\ UNCHANGED <<memory, era, start, end, receiver_id, listed, op, monitor>>

ListQueue(t) ==
    /\ At(t, "create")
    /\ listed' = {t}
    /\ Goto(t, "idle")
    /\ UNCHANGED <<memory, redo, start, end, sender_id, receiver_id, op, monitor>>

Full == end + 1 = start \/ end - start = Slots - 1

\* sent_to.
Send(t, r) ==
    /\ Call(t) /\ t = Sender /\ t \in listed
    /\ r \in RootPage(t) /\ root[r] = "used"
    /\ ~Full
    /\ Begin(t, "link", Slot(end), cell[r], "sent")
    /\ UNCHANGED <<memory, redo, queue, monitor>>

\* Mutant: the index does not wrap.
SentUnwrapped(t) ==
    /\ At(t, "sent")
    /\ end' = end + 1
    /\ op' = [op EXCEPT ![t] = NoOp]
    /\ Goto(t, "idle")
    /\ UNCHANGED <<memory, redo, start, sender_id, receiver_id, listed, monitor>>

Sent(t) ==
    /\ At(t, "sent")
    /\ end' = (end + 1) % Slots
    /\ op' = [op EXCEPT ![t] = NoOp]
    /\ Goto(t, "idle")
    /\ UNCHANGED <<memory, redo, start, sender_id, receiver_id, listed, monitor>>

\* cxl_unwrap: the first call makes the caller the queue's receiver ...
Register(t) ==
    /\ Call(t) /\ t = Receiver /\ Sender \in listed /\ receiver_id = 0
    /\ listed' = listed \cup {t}
    /\ Goto(t, "register")
    /\ UNCHANGED <<memory, redo, start, end, sender_id, receiver_id, op, monitor>>

SetReceiver(t) ==
    /\ At(t, "register")
    /\ receiver_id' = t
    /\ Goto(t, "unwrap")
    /\ UNCHANGED <<memory, redo, start, end, sender_id, listed, op, monitor>>

Unwrapping(t) == At(t, "unwrap") \/ (Call(t) /\ receiver_id = t)

UnwrapEmpty(t) ==
    /\ At(t, "unwrap")
    /\ start = end \/ cell[Slot(start)] = None
    /\ Goto(t, "idle")
    /\ UNCHANGED <<memory, redo, queue, op, monitor>>

\* ... then a new RootRef is linked, the slot unlinked, and start advanced.
Unwrap(t, r) ==
    /\ Unwrapping(t)
    /\ start # end /\ cell[Slot(start)] # None
    /\ AllocRoot(t, r)
    /\ Begin(t, "link", r, cell[Slot(start)], "received")
    /\ UNCHANGED <<info, blk, era, queue, monitor>>

Received(t) ==
    /\ At(t, "received")
    /\ Begin(t, "unlink", Slot(start), cell[Slot(start)], "advance")
    /\ UNCHANGED <<memory, redo, queue, monitor>>

Advance(t) ==
    /\ At(t, "advance")
    /\ start' = (start + 1) % Slots
    /\ op' = [op EXCEPT ![t] = NoOp]
    /\ Goto(t, "idle")
    /\ UNCHANGED <<memory, redo, end, sender_id, receiver_id, listed, monitor>>

\* A thread exits, between any two of its steps.
Exit(t) ==
    /\ t \notin dead
    /\ dead' = dead \cup {t}
    /\ UNCHANGED <<memory, redo, queue, local, mon, todo, seg>>

-----------------------------------------------------------------------------
\* The monitor, single_recovery_loop.  check_tls takes every registered thread
\* for exited, so it runs when all are; it takes them in the order of their ids.
Monitor(t, phase) == dead = Thread /\ mon = <<t, phase>>

\* Row 0 of the eras, which the loop reads too, is memory that stays zero.
NeedRedo(t) ==
    \/ info[log[t].refed].by = t /\ info[log[t].refed].era = log[t].era
    \/ \E u \in (Thread \ {t}) \cap (1 .. MAX_THREAD - 1) : log[t].era <= era[u][t]

StartMonitor ==
    /\ Monitor(0, "wait")
    /\ mon' = <<1, "redo">>
    /\ UNCHANGED <<memory, redo, queue, local, dead, todo, seg>>

\* redo_ref_cnt: repeat the store of the newest log if its count was changed.
\* Then the RootRefs, in their order in the page.
Redo(t) ==
    /\ Monitor(t, "redo")
    /\ cell' = IF log[t].func_id # "none" /\ NeedRedo(t)
               THEN [cell EXCEPT ![log[t].ref] =
                        IF log[t].func_id = "link" THEN log[t].refed ELSE None]
               ELSE cell
    /\ todo' = [k \in 1 .. Roots |-> <<t, k>>]
    /\ mon' = <<t, "roots">>
    /\ UNCHANGED <<info, blk, root, redo, queue, local, dead, seg>>

\* recovery_test_free of a cell on behalf of t.
TestFree(t, c) ==
    LET o == cell[c] IN
    IF o = None THEN UNCHANGED <<info, blk, cell, era>>
    ELSE IF info[o].cnt = 0 THEN UNCHANGED <<info, blk, cell, era>>
    ELSE /\ info' = [info EXCEPT ![o] = IF @.cnt = 1 THEN NoInfo
                                       ELSE [by |-> t, cnt |-> @.cnt - 1, era |-> era[t][t]]]
         /\ blk' = IF info[o].cnt = 1 /\ Home[o] # t THEN [blk EXCEPT ![o] = "remote"] ELSE blk
         /\ cell' = [cell EXCEPT ![c] = None]
         /\ era' = [era EXCEPT ![t][info[o].by] = Newer(@, info[o].era),
                                ![t][t] = @ + 1]

\* Those in use are freed, but not a block that is still the head of its page's
\* free list.
RecoverRoot(t) ==
    /\ Monitor(t, "roots") /\ todo # <<>>
    /\ LET r == Head(todo) IN
       /\ IF root[r] # "used" \/ (cell[r] # None /\ blk[cell[r]] = "free")
          THEN UNCHANGED <<info, blk, cell, era>>
          ELSE TestFree(t, r)
       /\ root' = IF root[r] = "used" THEN [root EXCEPT ![r] = "local"] ELSE root
    /\ todo' = Tail(todo)
    /\ UNCHANGED <<log, queue, local, dead, mon, seg>>

SlotsFrom(i, n) == [k \in 1 .. n |-> Slot((i + k - 1) % Slots)]

\* Mutant: the slot at end, which a sender may have linked, is taken for empty.
SenderSlotsPast ==
    SlotsFrom(end + 1, (start - end - 1) % Slots)
        \o (IF receiver_id = 0 THEN SlotsFrom(start, (end - start) % Slots) ELSE <<>>)

\* What the sender's and the receiver's recovery take from the queue.
SenderSlots ==
    SlotsFrom(end, ((start - end - 1) % Slots) + 1)
        \o (IF receiver_id = 0 THEN SlotsFrom(start, (end - start) % Slots) ELSE <<>>)

ReceiverSlots == SlotsFrom(start, (end - start) % Slots)

RootsDone(t) ==
    /\ Monitor(t, "roots") /\ todo = <<>>
    /\ todo' = (IF t \in listed /\ t = Sender THEN SenderSlots ELSE <<>>)
                 \o (IF t \in listed /\ t = Receiver THEN ReceiverSlots ELSE <<>>)
    /\ mon' = <<t, "slots">>
    /\ UNCHANGED <<memory, redo, queue, local, dead, seg>>

RecoverSlot(t) ==
    /\ Monitor(t, "slots") /\ todo # <<>>
    /\ TestFree(t, Head(todo))
    /\ todo' = Tail(todo)
    /\ UNCHANGED <<root, log, queue, local, dead, mon, seg>>

\* The ids in the queue, the object pages, the segments that are not abandoned,
\* and the tls.
RecoverPages(t) ==
    /\ Monitor(t, "slots") /\ todo = <<>>
    /\ sender_id' = IF t \in listed /\ t = Sender THEN 0 ELSE sender_id
    /\ receiver_id' = IF t \in listed /\ t = Receiver THEN 0 ELSE receiver_id
    /\ listed' = listed \ {t}
    /\ seg' = [seg EXCEPT ![t] =
                  IF (t \in listed /\ t = Sender) \/ \E o \in ObjPage(t) : info[o].cnt > 0
                  THEN "abandon" ELSE "free"]
    /\ mon' = <<t + 1, IF t = Threads THEN "sweep" ELSE "redo">>
    /\ UNCHANGED <<memory, redo, start, end, local, dead, todo>>

\* The segments: those with no counted object and no queue in use are freed.
Sweep ==
    /\ Monitor(Threads + 1, "sweep")
    /\ seg' = [t \in Thread |->
                 IF \/ \E o \in ObjPage(t) : info[o].cnt > 0
                    \/ t = Sender /\ (sender_id # 0 \/ receiver_id # 0)
                 THEN seg[t] ELSE "free"]
    /\ mon' = <<Threads + 1, "done">>
    /\ UNCHANGED <<memory, redo, queue, local, dead, todo>>

\* check_recovery prints its verdict; the monitor's run is over.
Done == Monitor(Threads + 1, "done") /\ UNCHANGED vars

Step(t) ==
    \/ \E r \in RootPage(t) : Malloc(t, r) \/ Drop(t, r) \/ Send(t, r) \/ Unwrap(t, r)
    \/ \E o \in Obj : LinkBlock(t, o)
    \/ TakeBlock(t) \/ SetInfo(t)
    \/ WriteLog(t) \/ Exchange(t) \/ SetRef(t) \/ BumpEra(t) \/ FreeObj(t)
    \/ FreeRoot(t)
    \/ CreateQueue(t) \/ ListQueue(t) \/ Sent(t)
    \/ Register(t) \/ SetReceiver(t) \/ UnwrapEmpty(t) \/ Received(t) \/ Advance(t)

Recovery(t) ==
    \/ Redo(t) \/ RecoverRoot(t) \/ RootsDone(t) \/ RecoverSlot(t) \/ RecoverPages(t)

Next ==
    \/ \E t \in Thread : Step(t) \/ Exit(t) \/ Recovery(t)
    \/ StartMonitor \/ Sweep \/ Done

Spec == Init /\ [][Next]_vars

-----------------------------------------------------------------------------
Info == [by : 0 .. Threads, cnt : Nat, era : Nat]

Log == [func_id : {"none", "link", "unlink"}, cnt : Nat, era : Nat, ref : Cell,
        refed : Obj \cup {None}]

Op == [func_id : {"none", "link", "unlink"}, ref : Cell, refed : Obj \cup {None}, saw : Info,
       then : {"idle", "drop", "sent", "received", "advance"}]

\* The types of the variables.
TypeOK ==
    /\ info \in [Obj -> Info]
    /\ blk \in [Obj -> {"free", "taken", "local", "remote"}]
    /\ cell \in [Cell -> Obj \cup {None}]
    /\ root \in [Root -> {"free", "used", "local"}]
    /\ era \in [Thread -> [Thread -> Nat]]
    /\ log \in [Thread -> Log]
    /\ start \in 0 .. Slots - 1 /\ end \in 0 .. Slots - 1
    /\ sender_id \in {0, Sender} /\ receiver_id \in {0, Receiver}
    /\ listed \subseteq {Sender, Receiver} /\ dead \subseteq Thread
    /\ pc \in [Thread -> {"idle", "block", "take", "info", "log", "cas", "set", "bump", "free",
                          "drop", "create", "sent", "register", "unwrap", "received", "advance"}]
    /\ op \in [Thread -> Op]
    /\ mon \in (0 .. Threads + 1) \X {"wait", "redo", "roots", "slots", "sweep", "done"}
    /\ todo \in Seq(Cell)
    /\ seg \in [Thread -> {"owned", "abandon", "free"}]

\* Threads between the exchange of an object's count and the store of the cell,
\* and those whose new RootRef refers to a block that has no count yet.
Ahead(o, func) == {t \in Thread : pc[t] = "set" /\ op[t].func_id = func /\ op[t].refed = o}

Unborn(o) == {t \in Thread : pc[t] \in {"take", "info"} /\ op[t].refed = o}

\* Until the monitor starts, the count of every object is the number of the
\* cells that refer to it, corrected by what the threads that are (or exited)
\* between an exchange and its store have still to do.  So no thread, however
\* calls interleave and whoever exits, frees an object another one refers to.
CountsReferences ==
    mon[2] = "wait" =>
        \A o \in Obj :
            info[o].cnt = Cardinality({c \in Cell : cell[c] = o}) - Cardinality(Unborn(o))
                            + Cardinality(Ahead(o, "link")) - Cardinality(Ahead(o, "unlink"))

\* For a thread that exits inside link_reference or unlink_reference, at any
\* later time until it is recovered, redo_ref_cnt repeats the store exactly when
\* the exchange of the count had succeeded, whatever other threads have done to
\* the object since.
RedoDecides ==
    \A t \in Thread :
        (mon[1] <= t /\ mon[2] \in {"wait", "redo", "roots", "slots"} /\ ~(mon[1] = t /\ mon[2] # "redo")
         /\ log[t].func_id # "none" /\ log[t].era = era[t][t])
            => (NeedRedo(t) <=> pc[t] \in {"set", "bump"})

\* After one run of the monitor every segment is free, whatever the threads
\* were doing when they exited: check_recovery answers "free all successfully!".
Reclaimed == mon[2] = "done" => \A t \in Thread : seg[t] = "free"

=============================================================================
