------------------------------ MODULE BTreeOLC ------------------------------
(***************************************************************************)
(* The B+-tree with optimistic lock coupling (ds/BTreeOLC/BTreeOLC.h), on  *)
(* coherent memory: insert with its eager splits, and lookup.              *)
(*                                                                         *)
(* ver[n] counts the changes of a node's lock bit (typeVersionLockObsolete *)
(* shifted right by one): odd means locked.  No node ever becomes          *)
(* obsolete.  A node's count is the length of keys[n]; slots[n] are its    *)
(* payloads or its children.                                               *)
(***************************************************************************)
EXTENDS Integers, Sequences

CONSTANTS Thread, Key, Value,
          MaxLeaf, MaxInner,  \* maxEntries of leaves and of inner nodes
          MaxNodes,           \* bound: nodes allocated
          MaxCalls,           \* bound: calls of a thread
          Loader, Loads,      \* the thread that loads, the key sequences it loads,
          Loaded,             \* with this value
          Targets,            \* the keys of the calls after the load
          Absent, NoNode

Node == 1 .. MaxNodes

ASSUME BTreeOLCAssumption ==
    /\ Key \subseteq Nat /\ Key # {} /\ Absent \notin Value
    /\ MaxLeaf \in Nat \ {0, 1} /\ MaxInner \in Nat \ (0 .. 4)
    /\ MaxNodes \in Nat \ {0} /\ MaxCalls \in Nat
    /\ Loader \in Thread
    /\ Loads \subseteq Seq(Key) /\ Targets \subseteq Key /\ Loaded \in Value
    /\ NoNode \notin Node

VARIABLES root, used,               \* the tree's root, and the nodes allocated
          type, ver, keys, slots,   \* the nodes
          load,                     \* the keys still to be loaded
          pc, calls,
          op, k, v,                 \* the call and its arguments
          node, versionNode, parent, versionParent, result,
          span,                     \* history: the keys a node is responsible for
          asked                     \* history: see AtomicMap

tree   == <<root, used, type, keys, slots, span>>
call   == <<load, calls, op, k, v>>
path   == <<node, versionNode, parent, versionParent, result>>
vars   == <<tree, ver, pc, call, path, asked>>

\* A tree of one empty leaf.
Init ==
    /\ root = 1 /\ used = 1
    /\ type = [n \in Node |-> "leaf"]
    /\ ver = [n \in Node |-> 0]
    /\ keys = [n \in Node |-> <<>>] /\ slots = [n \in Node |-> <<>>]
    /\ span = [n \in Node |-> IF n = 1 THEN Key ELSE {}]
    /\ pc = [t \in Thread |-> "idle"]
    /\ calls = [t \in Thread |-> 0]
    /\ load \in Loads
    /\ k = [t \in Thread |-> CHOOSE x \in Key : TRUE]
    /\ op = [t \in Thread |-> "insert"] /\ v = [t \in Thread |-> Absent]
    /\ node = [t \in Thread |-> NoNode] /\ versionNode = [t \in Thread |-> 0]
    /\ parent = [t \in Thread |-> NoNode] /\ versionParent = [t \in Thread |-> 0]
    /\ result = [t \in Thread |-> Absent]
    /\ asked = [t \in Thread |-> {}]

Goto(t, step) == pc' = [pc EXCEPT ![t] = step]

isLocked(n) == ver[n] % 2 = 1

\* The first position whose key is not less than x, in a sorted array.
lowerBound(s, x) ==
    CHOOSE i \in 1 .. Len(s) + 1 :
        (i <= Len(s) => s[i] >= x) /\ \A j \in 1 .. i - 1 : s[j] < x

\* An array when the entries from i on have been moved up for e (memmove).
InsertAt(s, i, e) == SubSeq(s, 1, i - 1) \o <<e>> \o SubSeq(s, i, Len(s))

\* Mutant: a leaf is full one entry too late.
FullLate(n) ==
    Len(keys[n]) = (IF type[n] = "leaf" THEN MaxLeaf + 1 ELSE MaxInner - 1)

Full(n) ==
    IF type[n] = "leaf" THEN Len(keys[n]) = MaxLeaf ELSE Len(keys[n]) = MaxInner - 1

\* The child of an inner node to follow for x.
Child(n, x) == slots[n][lowerBound(keys[n], x)]

\* The payload of x in a leaf.
Payload(n, x) ==
    IF \E i \in DOMAIN keys[n] : keys[n][i] = x
    THEN slots[n][lowerBound(keys[n], x)] ELSE Absent

\* The map that the tree stands for.
LeafOf(x) == CHOOSE n \in 1 .. used : type[n] = "leaf" /\ x \in span[n]

Contents == [x \in Key |-> Payload(LeafOf(x), x)]

\* The inserts that have not written their leaf.
Pending ==
    [t \in Thread |-> IF op[t] = "insert" /\ pc[t] \notin {"idle", "unlock"}
                      THEN {<<k[t], v[t]>>} ELSE {}]

M == INSTANCE AtomicMap WITH map <- Contents, put <- Pending, answer <- result

-----------------------------------------------------------------------------
Start(t, f, x, y) ==
    /\ pc[t] = "idle"
    /\ op' = [op EXCEPT ![t] = f]
    /\ k' = [k EXCEPT ![t] = x] /\ v' = [v EXCEPT ![t] = y]
    /\ Goto(t, "root")

\* The load phase, and then the calls that race.
LoadNext ==
    /\ load # <<>>
    /\ load' = Tail(load)
    /\ Start(Loader, "insert", Head(load), Loaded)
    /\ UNCHANGED <<tree, ver, calls, path, asked>>

Racing(t) ==
    /\ load = <<>>
    /\ pc[Loader] = "idle" \/ \E u \in Thread : calls[u] # 0
    /\ calls[t] < MaxCalls
    /\ calls' = [calls EXCEPT ![t] = @ + 1]

Insert(t, x, y) ==
    /\ Racing(t)
    /\ Start(t, "insert", x, y)
    /\ UNCHANGED <<tree, ver, load, path, asked>>

Lookup(t, x) ==
    /\ Racing(t)
    /\ Start(t, "lookup", x, Absent)
    /\ asked' = [asked EXCEPT ![t] = {<<x, Contents[x]>>}]
    /\ UNCHANGED <<tree, ver, load, path>>

\* The path is forgotten when a call restarts or returns.
Leave(t, step) ==
    /\ Goto(t, step)
    /\ node' = [node EXCEPT ![t] = NoNode] /\ versionNode' = [versionNode EXCEPT ![t] = 0]
    /\ parent' = [parent EXCEPT ![t] = NoNode]
    /\ versionParent' = [versionParent EXCEPT ![t] = 0]

Restart(t) == Leave(t, "root")

ReadRoot(t) ==
    /\ pc[t] = "root"
    /\ node' = [node EXCEPT ![t] = root]
    /\ Goto(t, "lock")
    /\ UNCHANGED <<tree, ver, call, versionNode, parent, versionParent, result, asked>>

\* readLockOrRestart of the root or of a child.
ReadLock(t) ==
    /\ pc[t] = "lock"
    /\ IF isLocked(node[t]) THEN Restart(t)
       ELSE /\ versionNode' = [versionNode EXCEPT ![t] = ver[node[t]]]
            /\ Goto(t, IF parent[t] = NoNode THEN "isroot" ELSE "visit")
            /\ UNCHANGED <<node, parent, versionParent>>
    /\ UNCHANGED <<tree, ver, call, result, asked>>

\* Mutant: the root is not read again.
CheckRootBlind(t) ==
    /\ pc[t] = "isroot"
    /\ Goto(t, "visit")
    /\ UNCHANGED <<tree, ver, call, path, asked>>

\* The root may have been split since it was read.
CheckRoot(t) ==
    /\ pc[t] = "isroot"
    /\ IF node[t] = root THEN Goto(t, "visit") /\ UNCHANGED path
       ELSE Restart(t) /\ UNCHANGED result
    /\ UNCHANGED <<tree, ver, call, asked>>

\* One round of the loop: insert splits a full node, and writes into a leaf
\* that is not; lookup reads a leaf; both go down from an inner node.
Visit(t) ==
    /\ pc[t] = "visit"
    /\ IF op[t] = "lookup"
       THEN Goto(t, IF type[node[t]] = "inner" THEN "up" ELSE "read")
       ELSE Goto(t, IF Full(node[t])
                    THEN (IF parent[t] = NoNode THEN "locknode" ELSE "lockparent")
                    ELSE IF type[node[t]] = "inner" THEN "up" ELSE "lockleaf")
    /\ UNCHANGED <<tree, ver, call, path, asked>>

\* readUnlockOrRestart of the parent.
ParentUnchanged(t) == parent[t] = NoNode \/ ver[parent[t]] = versionParent[t]

CheckParent(t) ==
    /\ pc[t] = "up"
    /\ IF ParentUnchanged(t)
       THEN /\ parent' = [parent EXCEPT ![t] = node[t]]
            /\ versionParent' = [versionParent EXCEPT ![t] = versionNode[t]]
            /\ Goto(t, "down")
            /\ UNCHANGED <<node, versionNode>>
       ELSE Restart(t)
    /\ UNCHANGED <<tree, ver, call, result, asked>>

\* The child's pointer, which checkOrRestart confirms before it is followed.  The
\* search in a node that is being written may come to any of its slots.
ReadChild(t) ==
    /\ pc[t] = "down"
    /\ \E i \in DOMAIN slots[parent[t]] :
        /\ isLocked(parent[t]) \/ i = lowerBound(keys[parent[t]], k[t])
        /\ node' = [node EXCEPT ![t] = slots[parent[t]][i]]
    /\ Goto(t, "confirm")
    /\ UNCHANGED <<tree, ver, call, versionNode, parent, versionParent, result, asked>>

CheckChild(t) ==
    /\ pc[t] = "confirm"
    /\ IF ver[parent[t]] = versionParent[t] THEN Goto(t, "lock") /\ UNCHANGED path
       ELSE Restart(t) /\ UNCHANGED result
    /\ UNCHANGED <<tree, ver, call, asked>>

-----------------------------------------------------------------------------
\* upgradeToWriteLockOrRestart: an exchange of the version read before.
Upgrade(n, version) ==
    /\ ver[n] = version
    /\ ver' = [ver EXCEPT ![n] = version + 1]

writeUnlock(n) == ver' = [ver EXCEPT ![n] = @ + 1]

\* Insert into a leaf that is not full: lock it alone ...
LockLeaf(t) ==
    /\ pc[t] = "lockleaf"
    /\ \/ Upgrade(node[t], versionNode[t]) /\ Goto(t, "write") /\ UNCHANGED path
       \/ /\ ver[node[t]] # versionNode[t]
          /\ Restart(t) /\ UNCHANGED <<ver, result>>
    /\ UNCHANGED <<tree, call, asked>>

\* BTreeLeaf::insert; an existing key gets the new payload.
LeafInsert(n, x, y) ==
    LET i == lowerBound(keys[n], x) IN
    IF \E j \in DOMAIN keys[n] : keys[n][j] = x
    THEN slots' = [slots EXCEPT ![n][i] = y] /\ UNCHANGED keys
    ELSE /\ keys' = [keys EXCEPT ![n] = InsertAt(@, i, x)]
         /\ slots' = [slots EXCEPT ![n] = InsertAt(@, i, y)]

\* Mutant: the parent is not checked after the leaf is locked.
WriteLeafUnchecked(t) ==
    /\ pc[t] = "write"
    /\ LeafInsert(node[t], k[t], v[t])
    /\ asked' = M!Heard(k[t], v[t])
    /\ Goto(t, "unlock")
    /\ UNCHANGED <<root, used, type, span, ver, call, path>>

\* ... and write if the parent is unchanged, so that the leaf is still its child.
WriteLeaf(t) ==
    /\ pc[t] = "write"
    /\ IF ParentUnchanged(t)
       THEN /\ LeafInsert(node[t], k[t], v[t])
            /\ asked' = M!Heard(k[t], v[t])
            /\ Goto(t, "unlock")
       ELSE Goto(t, "giveup") /\ UNCHANGED <<keys, slots, asked>>
    /\ UNCHANGED <<root, used, type, span, ver, call, path>>

\* The insert returns.
Unlock(t) ==
    /\ pc[t] = "unlock"
    /\ writeUnlock(node[t])
    /\ v' = [v EXCEPT ![t] = Absent]
    /\ Leave(t, "idle")
    /\ UNCHANGED <<tree, load, calls, op, k, result, asked>>

-----------------------------------------------------------------------------
\* A split locks the parent, then the node.
LockParent(t) ==
    /\ pc[t] = "lockparent"
    /\ \/ Upgrade(parent[t], versionParent[t]) /\ Goto(t, "locknode") /\ UNCHANGED path
       \/ /\ ver[parent[t]] # versionParent[t]
          /\ Restart(t) /\ UNCHANGED <<ver, result>>
    /\ UNCHANGED <<tree, call, asked>>

\* Mutant: the parent stays locked when the node cannot be locked.
LockNodeForget(t) ==
    /\ pc[t] = "locknode"
    /\ \/ Upgrade(node[t], versionNode[t]) /\ Goto(t, "split") /\ UNCHANGED path
       \/ /\ ver[node[t]] # versionNode[t]
          /\ Restart(t) /\ UNCHANGED <<ver, result>>
    /\ UNCHANGED <<tree, call, asked>>

LockNode(t) ==
    /\ pc[t] = "locknode"
    /\ \/ Upgrade(node[t], versionNode[t]) /\ Goto(t, "split") /\ UNCHANGED path
       \/ /\ ver[node[t]] # versionNode[t]
          /\ IF parent[t] = NoNode THEN Restart(t) /\ UNCHANGED result
             ELSE Goto(t, "unlockparent") /\ UNCHANGED path
          /\ UNCHANGED ver
    /\ UNCHANGED <<tree, call, asked>>

\* What stays in a node when it is split: BTreeLeaf::split keeps the separator
\* as the last key on the left, BTreeInner::split moves it to the parent.
Kept(n) == (Len(keys[n]) \div 2) - (IF type[n] = "leaf" THEN 0 ELSE 1)

Moved(n) == IF type[n] = "leaf" THEN Kept(n) + 1 ELSE Kept(n) + 2

\* Mutant: the separator is the first key of the right half.
SeparatorRight(n) == keys[n][Moved(n)]

Separator(n) == keys[n][Moved(n) - 1]

\* The nodes when b has got the right half of a.
HalfKeys(a, b) ==
    [keys EXCEPT ![a] = SubSeq(keys[a], 1, Kept(a)),
                 ![b] = SubSeq(keys[a], Moved(a), Len(keys[a]))]
HalfSlots(a, b) ==
    [slots EXCEPT ![a] = SubSeq(slots[a], 1, Moved(a) - 1),
                  ![b] = SubSeq(slots[a], Moved(a), Len(slots[a]))]
HalfSpan(a, b) ==
    [span EXCEPT ![a] = {x \in span[a] : x <= Separator(a)},
                 ![b] = {x \in span[a] : x > Separator(a)}]

\* The new node becomes a child of the parent (BTreeInner::insert) ...
SplitChild(t) ==
    LET a == node[t]  b == used + 1  p == parent[t]
        i == lowerBound(keys[p], Separator(a))
    IN  /\ p # NoNode
        /\ b \in Node /\ used' = b
        /\ keys' = [HalfKeys(a, b) EXCEPT ![p] = InsertAt(keys[p], i, Separator(a))]
        /\ slots' = [HalfSlots(a, b) EXCEPT ![p] = InsertAt(slots[p], i + 1, b)]
        /\ span' = HalfSpan(a, b)
        /\ type' = [type EXCEPT ![b] = type[a]]
        /\ UNCHANGED root

\* Mutant: the new root takes the place of the new sibling.
makeRootShared(t) ==
    LET a == node[t]  b == used + 1
    IN  /\ parent[t] = NoNode
        /\ b \in Node /\ used' = b /\ root' = b
        /\ keys' = [HalfKeys(a, b) EXCEPT ![b] = <<Separator(a)>>]
        /\ slots' = [HalfSlots(a, b) EXCEPT ![b] = <<a, b + 1>>]
        /\ span' = [HalfSpan(a, b) EXCEPT ![b] = Key]
        /\ type' = [type EXCEPT ![b] = "inner"]

\* ... or both become children of a new root.  (The case that a root to be split
\* has got a parent meanwhile does not arise: RootIsCurrent.)
makeRoot(t) ==
    LET a == node[t]  b == used + 1  r == used + 2
    IN  /\ parent[t] = NoNode
        /\ r \in Node /\ used' = r /\ root' = r
        /\ keys' = [HalfKeys(a, b) EXCEPT ![r] = <<Separator(a)>>]
        /\ slots' = [HalfSlots(a, b) EXCEPT ![r] = <<a, b>>]
        /\ span' = [HalfSpan(a, b) EXCEPT ![r] = Key]
        /\ type' = [type EXCEPT ![b] = type[a], ![r] = "inner"]

SplitNode(t) ==
    /\ pc[t] = "split"
    /\ SplitChild(t) \/ makeRoot(t)
    /\ Goto(t, "unlocknode")
    /\ UNCHANGED <<ver, call, path, asked>>

\* Mutant: the leaf stays locked.
GiveUpLocked(t) ==
    /\ pc[t] = "giveup"
    /\ Restart(t)
    /\ UNCHANGED <<tree, ver, call, result, asked>>

\* Unlock the leaf, and restart.
GiveUp(t) ==
    /\ pc[t] = "giveup"
    /\ writeUnlock(node[t])
    /\ Restart(t)
    /\ UNCHANGED <<tree, call, result, asked>>

UnlockNode(t) ==
    /\ pc[t] = "unlocknode"
    /\ writeUnlock(node[t])
    /\ IF parent[t] = NoNode THEN Restart(t) /\ UNCHANGED result
       ELSE Goto(t, "unlockparent") /\ UNCHANGED path
    /\ UNCHANGED <<tree, call, asked>>

UnlockParent(t) ==
    /\ pc[t] = "unlockparent"
    /\ writeUnlock(parent[t])
    /\ Restart(t)
    /\ UNCHANGED <<tree, call, result, asked>>
-----------------------------------------------------------------------------
\* lookup copies the payload out of the leaf, any value if that is being written ...
ReadLeaf(t) ==
    /\ pc[t] = "read"
    /\ \E y \in Value \cup {Absent} :
        /\ isLocked(node[t]) \/ y = Payload(node[t], k[t])
        /\ v' = [v EXCEPT ![t] = y]
    /\ Goto(t, "recheck")
    /\ UNCHANGED <<tree, ver, load, calls, op, k, path, asked>>

\* ... checks the parent ...
RecheckParent(t) ==
    /\ pc[t] = "recheck"
    /\ IF ParentUnchanged(t) THEN Goto(t, "return") /\ UNCHANGED path
       ELSE Restart(t) /\ UNCHANGED result
    /\ UNCHANGED <<tree, ver, call, asked>>

\* ... and the leaf.  Absent stands for a result that was not assigned; the
\* boolean returned for it is an uninitialised variable and is left out.
Return(t) ==
    /\ pc[t] = "return"
    /\ \/ /\ ver[node[t]] = versionNode[t]
          /\ result' = [result EXCEPT ![t] = v[t]]
          /\ asked' = [asked EXCEPT ![t] = {}]
          /\ v' = [v EXCEPT ![t] = Absent]
          /\ Leave(t, "idle")
       \/ /\ ver[node[t]] # versionNode[t]
          /\ Restart(t) /\ UNCHANGED <<v, result, asked>>
    /\ UNCHANGED <<tree, ver, load, calls, op, k>>

Step(t) ==
    \/ ReadRoot(t) \/ ReadLock(t) \/ CheckRoot(t) \/ Visit(t)
    \/ CheckParent(t) \/ ReadChild(t) \/ CheckChild(t)
    \/ LockLeaf(t) \/ WriteLeaf(t) \/ Unlock(t)
    \/ LockParent(t) \/ LockNode(t) \/ SplitNode(t)
    \/ GiveUp(t) \/ UnlockNode(t) \/ UnlockParent(t)
    \/ ReadLeaf(t) \/ RecheckParent(t) \/ Return(t)

Next ==
    \/ LoadNext
    \/ \E t \in Thread :
        \/ \E x \in Targets : Lookup(t, x) \/ \E y \in Value \ {Loaded} : Insert(t, x, y)
        \/ Step(t)

Spec == Init /\ [][Next]_vars

\* A thread inside a call goes on.
FairSpec == Spec /\ \A t \in Thread : WF_vars(Step(t))

-----------------------------------------------------------------------------
\* insert and lookup implement AtomicMap: splits change no key's value, an insert takes
\* effect in one step and is never lost or undone by a split it raced with, and
\* a lookup answers with a value its key had during the call.
IsAtomicMap == M!Spec

\* No two calls keep restarting each other, and no lock is left that a third
\* would wait for: once no new calls arrive every call returns.
CallsReturn == \A t \in Thread : pc[t] # "idle" ~> pc[t] = "idle"

TypeOK ==
    /\ used \in Node /\ root \in 1 .. used
    /\ type \in [Node -> {"leaf", "inner"}] /\ ver \in [Node -> Nat]
    /\ keys \in [Node -> Seq(Key)] /\ slots \in [Node -> Seq(Node \cup Value)]
    /\ span \in [Node -> SUBSET Key]
    /\ \A n \in 1 .. used : type[n] = "inner" => \A i \in DOMAIN slots[n] : slots[n][i] \in 1 .. used
    /\ load \in Seq(Key) /\ calls \in [Thread -> 0 .. MaxCalls]
    /\ pc \in [Thread -> {"idle", "root", "lock", "isroot", "visit", "up", "down", "confirm",
                          "lockleaf", "write", "unlock", "giveup", "lockparent", "locknode",
                          "split", "unlocknode", "unlockparent", "read", "recheck", "return"}]
    /\ op \in [Thread -> {"insert", "lookup"}] /\ k \in [Thread -> Key]
    /\ v \in [Thread -> Value \cup {Absent}] /\ result \in [Thread -> Value \cup {Absent}]
    /\ node \in [Thread -> (1 .. used) \cup {NoNode}]
    /\ parent \in [Thread -> (1 .. used) \cup {NoNode}]
    /\ versionNode \in [Thread -> Nat] /\ versionParent \in [Thread -> Nat]
    /\ asked \in [Thread -> SUBSET (Key \X (Value \cup {Absent}))]

\* No insert runs past a node's arrays, whose sizes only the isFull checks made
\* before the locks were taken keep (the assertions on count in both insert
\* functions); keys ascend, and an inner node has a child more than keys.
NodesInOrder ==
    \A n \in 1 .. used :
        /\ Len(keys[n]) <= (IF type[n] = "leaf" THEN MaxLeaf ELSE MaxInner - 1)
        /\ Len(slots[n]) = Len(keys[n]) + (IF type[n] = "leaf" THEN 0 ELSE 1)
        /\ \A i, j \in DOMAIN keys[n] : i < j => keys[n][i] < keys[n][j]

\* Searches arrive, whatever splits are under way: the root is responsible for
\* every key, the child that an inner node gives for a key is responsible for
\* that key, and it is one leaf that is, which holds no other keys.
Routed ==
    /\ span[root] = Key
    /\ \A n \in 1 .. used : type[n] = "inner" => \A x \in span[n] : x \in span[Child(n, x)]
    /\ \A n \in 1 .. used : \A i \in DOMAIN keys[n] : keys[n][i] \in span[n]
    /\ \A x \in Key : \E n \in 1 .. used :
        \A m \in 1 .. used : type[m] = "leaf" /\ x \in span[m] <=> m = n

\* A root that a thread has locked in order to split it is the tree's root: the
\* version read before the root was checked tells of every later change, and
\* insert's second check (!parent && node != root) never finds a new parent.
RootIsCurrent == \A t \in Thread : pc[t] = "split" /\ parent[t] = NoNode => node[t] = root

Holds(t) ==
    CASE pc[t] \in {"write", "unlock", "giveup"} -> {node[t]}
      [] pc[t] \in {"split", "unlocknode"} -> {node[t], parent[t]} \ {NoNode}
      [] pc[t] = "locknode" -> {parent[t]} \ {NoNode}
      [] pc[t] = "unlockparent" -> {parent[t]}
      [] OTHER -> {}

\* Exactly the nodes some thread is working on are locked, one thread each: no
\* restart leaves a lock behind and none releases a lock of another thread.
LocksHeld ==
    /\ \A t, u \in Thread : t # u => Holds(t) \cap Holds(u) = {}
    /\ \A n \in Node : isLocked(n) <=> \E t \in Thread : n \in Holds(t)

=============================================================================
